---------------------------- MODULE ClientSafety ----------------------------
(***************************************************************************)
(* The safety of connect(), close(), the destructor and the loop that runs *)
(* beside them: ClientInv is inductive, whatever the peer, the network and *)
(* the interleaving, for every budget of calls.                            *)
(***************************************************************************)
EXTENDS ClientInvariant, ClientProofs, ControlProofs, FiniteSetTheorems

-----------------------------------------------------------------------------
(* Placed.                                                                 *)

(***************************************************************************)
(* Every step of the client that returns, jumps or calls is legal: it is   *)
(* one of a connection and stays on it, and does not bring what nothing    *)
(* calls.                                                                  *)
(***************************************************************************)
Legal(f, m, g, h) ==
    /\ f.at \notin ServerLabels
    /\ m = "return" /\ f.at \in StopLabels => f.at = "stopped"
    /\ m # "return" =>
          /\ g.c = f.c
          /\ Bottom(g) => Bottom(f)
          /\ g.at \in MainLabels => f.at \in MainLabels
          /\ f.at \in StopLabels => g.at \in StopLabels
          /\ f.at \in Closers => g.at \in Closers
          /\ QuietClose => ~(f.at = "callback" /\ f.arg = "close")
    /\ m = "call" => h.c = f.c /\ Calling(g, h)

LEMMA PlacedStep ==
    ASSUME NEW t \in Threads, StacksOK, StacksOK', stk[t] # <<>>, Placed,
           NEW m, NEW g, NEW h, Moves(t, m, g, h), Legal(Top(t), m, g, h)
    PROVE  Placed'
  <1> DEFINE n == Len(stk[t])
             c == stk[t][1].c
  <1>1. /\ n \in Nat /\ n >= 1 /\ Top(t) = stk[t][n] /\ Top(t).c = c
        /\ Len(stk'[t]) \in Nat /\ Len(stk'[t]) <= n + 1
    <2>1. n \in Nat /\ n >= 1 /\ Top(t) = stk[t][n] /\ Len(stk'[t]) \in Nat
      BY LastFrame DEF StacksOK
    <2>2. QED
      BY <2>1 DEF Placed, Moves
  <1>2. \A i \in 1 .. Len(stk'[t]) : stk'[t][i].c = c
    <2> TAKE i \in 1 .. Len(stk'[t])
    <2>1. CASE i < n /\ stk'[t][i] = stk[t][i]
      BY <1>1, <2>1 DEF Placed
    <2>2. QED
      BY <1>1, <2>1, FramesAfter DEF Legal
  <1>3. \A i \in 1 .. Len(stk'[t]) - 1 : Calling(stk'[t][i], stk'[t][i + 1])
    <2> TAKE i \in 1 .. Len(stk'[t]) - 1
    <2>1. i \in 1 .. Len(stk'[t]) /\ i + 1 \in 1 .. Len(stk'[t]) /\ i \in 1 .. n
      BY <1>1
    <2>2. CASE i + 1 < n
      BY <1>1, <2>1, <2>2 DEF Placed, Moves
    <2>3. CASE i + 1 = n
      <3>1. Calling(stk[t][i], Top(t)) /\ stk'[t][i] = stk[t][i]
        BY <1>1, <2>1, <2>3 DEF Placed, Moves
      <3>2. m # "return" /\ stk'[t][i + 1] = g
        BY <1>1, <2>1, <2>3, FramesAfter
      <3>3. QED
        BY <3>1, <3>2 DEF Legal, Calling
    <2>4. CASE i = n
      BY <1>1, <2>1, <2>4, FramesAfter DEF Legal
    <2>5. QED
      BY <1>1, <2>1, <2>2, <2>3, <2>4
  <1>4. t \in Conns /\ stk'[t] # <<>> => stk'[t][1].c = t /\ stk'[t][1].at \notin MainLabels
    <2>1. t \in Conns => c = t /\ stk[t][1].at \notin MainLabels
      BY DEF Placed
    <2>2. QED
      BY <1>1, <2>1, FirstAfter DEF Legal
  <1>5. ASSUME NEW u \in Threads, u # t
        PROVE  stk'[u] = stk[u]
    BY <1>5 DEF Moves
  <1>6. \A i \in 1 .. Len(stk'[t]) : stk'[t][i].c = stk'[t][1].c
    BY <1>1, <1>2
  <1>7. QED
    BY <1>3, <1>4, <1>5, <1>6 DEF Placed

-----------------------------------------------------------------------------
(* ThreadLife.                                                             *)

(***************************************************************************)
(* The steps that do not replace, destroy or start the websocket, where    *)
(* stop() is about to return only when the thread has ended.               *)
(***************************************************************************)
LifeAs(t, m, g, h) ==
    /\ Top(t).at \notin {"wsReset", "wsNew", "wsRelease", "clientReset"}
    /\ ~Brings(m, g, h, {"wsNew", "wsRelease", "destroyed", "start"})
    /\ Brings(m, g, h, {"stopped"}) => stk[Top(t).c] = <<>>
    /\ made' = made
    /\ \A c \in Conns : IF stk[c] = <<>> THEN ws'[c].first = ws[c].first
                                         ELSE ws'[c].joinable = ws[c].joinable

\* They keep what is known of the connection's thread.
LEMMA LifeKept ==
    ASSUME NEW t \in Threads, StacksOK, StacksOK', stk[t] # <<>>, Placed, ThreadLife,
           NEW m, NEW g, NEW h, Moves(t, m, g, h), Legal(Top(t), m, g, h),
           LifeAs(t, m, g, h)
    PROVE  ThreadLife'
  <1> DEFINE n == Len(stk[t])
             Watched == {"wsNew", "wsRelease", "destroyed", "start"}
  <1>1. n \in Nat /\ n >= 1 /\ Top(t) = stk[t][n]
    BY LastFrame
  <1>2. ASSUME NEW c \in Conns, stk[c] = <<>>
        PROVE  stk'[c] = <<>>
    BY <1>2 DEF Moves, Threads
  <1>3. ASSUME NEW u \in Apps, stk'[u] # <<>>, stk'[u][1].at \in Watched
        PROVE  /\ stk[u] # <<>> /\ stk'[u][1] = stk[u][1]
               /\ u = t => n > 1
    <2>1. CASE u # t
      BY <1>3, <2>1 DEF Moves, Threads
    <2>2. CASE u = t
      BY <1>3, <2>2, FirstAfter DEF Brings, LifeAs
    <2>3. QED
      BY <2>1, <2>2
  <1>4. RunsJoinable'
    BY <1>2 DEF ThreadLife, RunsJoinable, LifeAs
  <1>5. UnmadeEnded'
    <2> SUFFICES ASSUME NEW c \in Conns, ~made[c], stk'[c] # <<>>
                 PROVE  \E u \in Apps : First(u, c, {"wsNew", "wsRelease", "destroyed"})'
      BY DEF UnmadeEnded, LifeAs
    <2>1. PICK u \in Apps : First(u, c, {"wsNew", "wsRelease", "destroyed"})
      BY <1>2 DEF ThreadLife, UnmadeEnded, LifeAs
    <2>2. CASE u # t
      BY <2>1, <2>2 DEF First, Moves, Threads
    <2>3. CASE u = t /\ n > 1
      <3>1. stk'[t] # <<>> /\ stk'[t][1] = stk[t][1]
        <4>1. Len(stk'[t]) \in Nat /\ Len(stk'[t]) >= 1
          BY <1>1, <2>3 DEF Moves, StacksOK
        <4>2. stk'[t] # <<>>
          BY <4>1
        <4>3. QED
          BY <1>1, <2>3, <4>2, FirstAfter
      <3>2. QED
        BY <2>1, <2>3, <3>1 DEF First
    <2>4. CASE u = t /\ n = 1
      <3>1. Top(t) = stk[t][1] /\ First(t, c, {"destroyed"})
        BY <1>1, <2>1, <2>4 DEF First, LifeAs
      <3>2. stk[c] = <<>>
        BY <2>4, <3>1 DEF ThreadLife, StoppedEnded, First
      <3>3. QED
        BY <1>2, <3>2
    <2>5. n > 1 \/ n = 1
      <3> HIDE DEF n
      <3>1. QED
        BY <1>1
    <2>6. QED
      BY <2>2, <2>3, <2>4, <2>5
  <1>6. StartsNew'
    <2> SUFFICES ASSUME NEW u \in Apps, NEW c \in Conns, First(u, c, {"start"})'
                 PROVE  stk'[c] = <<>> /\ made'[c] /\ ws'[c].first
      BY DEF StartsNew
    <2>1. First(u, c, {"start"})
      BY <1>3 DEF First
    <2>2. QED
      BY <1>2, <2>1 DEF ThreadLife, StartsNew, LifeAs
  <1>7. StoppedEnded'
    <2> SUFFICES ASSUME NEW u \in Apps, NEW c \in Conns,
                        First(u, c, {"wsNew", "destroyed"})',
                        Len(stk'[u]) = 1 \/ stk'[u][2].at = "stopped"
                 PROVE  stk'[c] = <<>>
      BY DEF StoppedEnded
    <2>1. First(u, c, {"wsNew", "destroyed"}) /\ (u = t => n > 1)
      BY <1>3 DEF First
    <2>2. SUFFICES ASSUME u = t, Len(stk[t]) # 1, stk[t][2].at # "stopped"
                   PROVE  stk[c] = <<>>
      BY <1>2, <2>1 DEF ThreadLife, StoppedEnded, Moves, Threads
    <2>3. n > 1 /\ stk[t][1].c = c /\ stk[t][1].at \in {"wsNew", "destroyed"}
      BY <2>1, <2>2 DEF First
    <2>4. stk[t][2].at \in StopLabels /\ Top(t).c = c
      BY <1>1, <2>3 DEF Placed, Calling
    <2>5. CASE Len(stk'[t]) = 1
      <3>1. n = 2 /\ m = "return"
        BY <1>1, <2>3, <2>5 DEF Moves
      <3>2. QED
        BY <1>1, <2>2, <2>4, <3>1 DEF Legal
    <2>6. CASE Len(stk'[t]) # 1 /\ stk'[t][2].at = "stopped"
      <3>0. Len(stk'[t]) \in Nat /\ Len(stk'[t]) >= n - 1
        BY <1>1 DEF Moves, StacksOK
      <3>1. 2 \in 1 .. Len(stk'[t])
        <4> DEFINE k == Len(stk'[t])
        <4>1. k \in Nat /\ k >= n - 1 /\ n \in Nat /\ n > 1 /\ k # 1
          BY <1>1, <2>3, <2>6, <3>0
        <4> HIDE DEF k, n
        <4>2. 2 \in 1 .. k
          BY <4>1
        <4>3. QED
          BY <4>2 DEF k
      <3>2. \/ 2 < n /\ stk'[t][2] = stk[t][2]
            \/ 2 = n /\ m # "return" /\ stk'[t][2] = g
            \/ 2 = n + 1 /\ m = "call" /\ stk'[t][2] = h
        <4>1. \A i \in 1 .. Len(stk'[t]) :
                 \/ i < n /\ stk'[t][i] = stk[t][i]
                 \/ i = n /\ m # "return" /\ stk'[t][i] = g
                 \/ i = n + 1 /\ m = "call" /\ stk'[t][i] = h
          BY FramesAfter
        <4>2. QED
          BY <3>1, <4>1
      <3>3. Brings(m, g, h, {"stopped"})
        BY <1>1, <2>2, <2>3, <2>6, <3>2 DEF Brings
      <3>4. QED
        BY <2>4, <3>3 DEF LifeAs
    <2>7. QED
      BY <2>2, <2>5, <2>6
  <1>8. QED
    BY <1>4, <1>5, <1>6, <1>7 DEF ThreadLife

-----------------------------------------------------------------------------
(* ConnectionLife.                                                         *)

\* The step does nothing to connection d.
Untouched(d) ==
    /\ ws'[d].st = ws[d].st /\ ws'[d].sk = ws[d].sk /\ ws'[d].tx = ws[d].tx
    /\ ws'[d].fd = ws[d].fd /\ ws'[d].first = ws[d].first
    /\ log'[d] = log[d]

\* Where nobody is, nobody comes.
LEMMA NowhereAfter ==
    ASSUME NEW t \in Threads, StacksOK, StacksOK', stk[t] # <<>>,
           NEW m, NEW g, NEW h, Moves(t, m, g, h), Legal(Top(t), m, g, h),
           NEW c \in Conns, NEW S, Nowhere(c, S),
           Top(t).c # c \/ ~Brings(m, g, h, S)
    PROVE  Nowhere(c, S)'
  <1> SUFFICES ASSUME NEW u \in Threads, NEW i \in 1 .. Len(stk'[u]), stk'[u][i].c = c
               PROVE  stk'[u][i].at \notin S
    BY DEF Nowhere
  <1>1. CASE u # t
    BY <1>1 DEF Moves, Nowhere
  <1>2. CASE u = t
    <2>1. Len(stk[t]) \in Nat /\ Len(stk[t]) >= 1
      BY LastFrame
    <2>2. \/ i < Len(stk[t]) /\ stk'[t][i] = stk[t][i]
          \/ i = Len(stk[t]) /\ m # "return" /\ stk'[t][i] = g
          \/ i = Len(stk[t]) + 1 /\ m = "call" /\ stk'[t][i] = h
      BY <1>2, FramesAfter
    <2>3. CASE i < Len(stk[t]) /\ stk'[t][i] = stk[t][i]
      <3>1. i \in 1 .. Len(stk[t])
        BY <1>2, <2>1, <2>3
      <3>2. QED
        BY <1>2, <2>3, <3>1 DEF Nowhere
    <2>4. CASE m # "return" /\ stk'[t][i] = g
      BY <1>2, <2>4 DEF Legal, Brings
    <2>5. CASE m = "call" /\ stk'[t][i] = h
      BY <1>2, <2>5 DEF Legal, Brings
    <2>6. QED
      BY <2>2, <2>3, <2>4, <2>5
  <1>3. QED
    BY <1>1, <1>2

\* The loop of a connection is on that connection.
LEMMA OwnConnection ==
    ASSUME NEW t \in Threads, StacksOK, stk[t] # <<>>, Placed
    PROVE  /\ Top(t).c = stk[t][1].c
           /\ t \in Conns => Top(t).c = t
  <1>1. Len(stk[t]) \in 1 .. Len(stk[t]) /\ Top(t) = stk[t][Len(stk[t])]
    BY LastFrame
  <1>2. QED
    BY <1>1 DEF Placed

\* A step on one connection keeps what is known of the others.
LEMMA OtherConnection ==
    ASSUME NEW t \in Threads, SocketsOK, StacksOK, StacksOK', stk[t] # <<>>, Placed,
           NEW m, NEW g, NEW h, Moves(t, m, g, h), Legal(Top(t), m, g, h),
           NEW d \in Conns, d # Top(t).c, Untouched(d), ConnectionOK(d)
    PROVE  ConnectionOK(d)'
  <1>1. stk'[d] = stk[d]
    BY OwnConnection DEF Moves, Threads
  <1>2. ASSUME NEW S, Nowhere(d, S)
        PROVE  Nowhere(d, S)'
    BY <1>2, NowhereAfter
  <1>3. HandshakeLock(d)' /\ FirstAttempt(d)'
    BY <1>1 DEF ConnectionOK, HandshakeLock, FirstAttempt, First, Untouched
  <1>4. Nowhere(d, SendPath) => Nowhere(d, SendPath)'
    BY <1>2
  <1>5. Nowhere(d, Closers) => Nowhere(d, Closers)'
    BY <1>2
  <1>6. UnopenedClosed(d)' /\ NoOutcomeYet(d)' /\ EndShut(d)'
    BY <1>1, <1>4, <1>5 DEF ConnectionOK, UnopenedClosed, NoOutcomeYet, EndShut, Unopened,
       First, Logged, Untouched
  <1>7. SendLock(d)'
    <2> SUFFICES ASSUME ws[d].tx # Nobody
                 PROVE  \E i \in 1 .. Len(stk'[ws[d].tx]) :
                           stk'[ws[d].tx][i].c = d /\ stk'[ws[d].tx][i].at \in Pushers
      BY DEF SendLock, Untouched
    <2>1. PICK i \in 1 .. Len(stk[ws[d].tx]) :
             stk[ws[d].tx][i].c = d /\ stk[ws[d].tx][i].at \in Pushers
      BY DEF ConnectionOK, SendLock
    <2>2. ws[d].tx # t
      BY <2>1, OwnConnection DEF Placed
    <2>3. QED
      BY <2>1, <2>2 DEF Moves, SocketsOK, SocketType
  <1>8. QED
    BY <1>3, <1>6, <1>7 DEF ConnectionOK

\* A connection that has not been opened: its thread is at the beginning.
LEMMA UnopenedLoop ==
    ASSUME NEW c \in Conns, StacksOK, Placed, FirstAttempt(c), Unopened(c), stk[c] # <<>>
    PROVE  /\ Len(stk[c]) = 1 /\ Top(c) = stk[c][1]
           /\ Top(c).at \in {"check"} \cup Opening
  <1>1. Len(stk[c]) \in Nat /\ Len(stk[c]) >= 1 /\ Top(c) = stk[c][Len(stk[c])]
    BY LastFrame DEF Threads
  <1>2. CASE ws[c].first
    BY <1>1, <1>2 DEF FirstAttempt
  <1>3. CASE First(c, c, Opening)
    <2>1. stk[c][1].at \notin ClientSuspended
      BY <1>3 DEF First, Opening, ClientSuspended, Suspended
    <2>2. ~(1 \in 1 .. Len(stk[c]) - 1)
      BY <2>1 DEF Placed, Calling, Threads
    <2>3. Len(stk[c]) = 1
      <3> DEFINE n == Len(stk[c])
      <3> HIDE DEF n
      <3>1. n \in Nat /\ n >= 1 /\ ~(1 \in 1 .. n - 1)
        BY <1>1, <2>2 DEF n
      <3>2. n = 1
        BY <3>1
      <3>3. QED
        BY <3>2 DEF n
    <2>4. QED
      BY <1>1, <1>3, <2>3 DEF First
  <1>4. QED
    BY <1>2, <1>3 DEF Unopened

(***************************************************************************)
(* The steps that neither open a connection nor replace it.  A socket is   *)
(* closed before the end of its connection is reported, and nothing is     *)
(* sent on a connection that has not been opened.                          *)
(***************************************************************************)
KeepAs(t, m, g, h) ==
    LET f   == Top(t)
        c   == Top(t).c
        old == ws[c]
        new == ws'[c]
    IN
    /\ f.at \notin Opening \cup {"check", "open"}
    /\ m # "return" => g.at \notin Opening \cup {"open"}
    /\ \A d \in Conns \ {c} : Untouched(d)
    /\ new.sk = old.sk /\ new.first = old.first
    /\ new.fd \in {old.fd, "shut"}
    /\ \/ new.st = old.st
       \/ new.st = "CLOSED"
       \/ new.st = "CLOSING" /\ f.at \in {"closing", "dispatch"}
    /\ \/ new.tx = old.tx
       \/ new.tx = Nobody
       \/ new.tx = t /\ m = "jump" /\ g.at = "push"
    /\ f.at \in Pushers => new.tx = Nobody \/ (m # "return" /\ g.at \in Pushers)
    /\ \/ log'[c] = log[c]
       \/ \E e \in Events \ {"open", "error"} :
             log'[c] = Append(log[c], e) /\ (e = "close" => f.at = "setClosed")
    /\ Brings(m, g, h, Closers) => f.at \in Closers \/ new.fd # "open"
    /\ Brings(m, g, h, SendPath) => f.at \in SendPath \cup LoopLabels \/ old.st # "CLOSED"

\* What an Append to the log says.
LEMMA LoggedAfter ==
    ASSUME NEW c \in Conns, LogsOK, NEW e, NEW x,
           log'[c] = Append(log[c], x)
    PROVE  Logged(c, e)' <=> Logged(c, e) \/ e = x
  <1>1. log[c] \in Seq(Events) /\ Len(log[c]) \in Nat
    BY DEF LogsOK
  <1>2. /\ Len(log'[c]) = Len(log[c]) + 1 /\ log'[c][Len(log[c]) + 1] = x
        /\ \A i \in 1 .. Len(log[c]) : log'[c][i] = log[c][i]
    BY <1>1
  <1>3. \A i \in 1 .. Len(log'[c]) : i \in 1 .. Len(log[c]) \/ i = Len(log[c]) + 1
    BY <1>1, <1>2
  <1>4. \A i \in 1 .. Len(log[c]) : i \in 1 .. Len(log'[c])
    BY <1>1, <1>2
  <1>5. Len(log[c]) + 1 \in 1 .. Len(log'[c])
    BY <1>1, <1>2
  <1>6. QED
    BY <1>2, <1>3, <1>4, <1>5 DEF Logged

\* A connection before it opens stays so until its own thread opens it.
LEMMA StillUnopened ==
    ASSUME NEW t \in Threads, StacksOK, StacksOK', stk[t] # <<>>, Placed,
           NEW m, NEW g, NEW h, Moves(t, m, g, h),
           NEW c \in Conns, c = Top(t).c, ws'[c].first = ws[c].first,
           NEW S, m # "return" => g.at \notin S, First(c, c, S)'
    PROVE  First(c, c, S)
  <1>1. CASE c # t
    BY <1>1 DEF First, Moves, Threads
  <1>2. CASE c = t
    BY <1>2, FirstAfter DEF First
  <1>3. QED
    BY <1>1, <1>2

LEMMA ConnectionKept ==
    ASSUME NEW t \in Threads, TransportOK, StacksOK', stk[t] # <<>>, Placed,
           NEW m, NEW g, NEW h, Moves(t, m, g, h), Legal(Top(t), m, g, h),
           KeepAs(t, m, g, h), NEW c \in Conns, c = Top(t).c, ConnectionOK(c)
    PROVE  ConnectionOK(c)'
  <1> DEFINE f == Top(t)
  <1>1. StacksOK /\ SocketsOK /\ LogsOK
    BY DEF TransportOK
  <1>2. t \in Conns => t = c
    BY <1>1, OwnConnection
  <1>3. /\ Unopened(c)' => Unopened(c)
        /\ First(c, c, {"open"})' => First(c, c, {"open"})
    <2>1. ws'[c].first = ws[c].first /\ (m # "return" => g.at \notin Opening \cup {"open"})
      BY DEF KeepAs
    <2>2. First(c, c, Opening)' => First(c, c, Opening)
      BY <1>1, <2>1, StillUnopened
    <2>3. First(c, c, {"open"})' => First(c, c, {"open"})
      BY <1>1, <2>1, StillUnopened
    <2>4. QED
      BY <2>1, <2>2, <2>3 DEF Unopened
  <1>4. ASSUME NEW e \in Events, Logged(c, e)', ~Logged(c, e)
        PROVE  e \notin {"open", "error"} /\ (e = "close" => f.at = "setClosed")
    <2>1. CASE log'[c] = log[c]
      BY <1>4, <2>1 DEF Logged
    <2>2. ASSUME NEW x \in Events \ {"open", "error"}, log'[c] = Append(log[c], x),
                 x = "close" => f.at = "setClosed"
          PROVE  e \notin {"open", "error"} /\ (e = "close" => f.at = "setClosed")
      BY <1>1, <1>4, <2>2, LoggedAfter
    <2>3. QED
      BY <2>1, <2>2 DEF KeepAs
  <1>5. HandshakeLock(c)'
    <2> DEFINE S == {"handshake", "upgrade", "upgraded"}
    <2>1. ASSUME First(c, c, S)
          PROVE  First(c, c, S)'
      <3>1. CASE t # c
        BY <2>1, <3>1 DEF First, Moves, Threads
      <3>2. CASE t = c
        BY <1>1, <2>1, <3>2, UnopenedLoop DEF KeepAs, ConnectionOK, Unopened, First, Opening
      <3>3. QED
        BY <3>1, <3>2
    <2>2. QED
      BY <2>1 DEF ConnectionOK, HandshakeLock, KeepAs
  <1>6. FirstAttempt(c)'
    <2> SUFFICES ASSUME ws[c].first, stk'[c] # <<>>
                 PROVE  Len(stk'[c]) = 1 /\ stk'[c][1].at = "check"
      BY DEF FirstAttempt, KeepAs
    <2>1. CASE t # c
      BY <2>1 DEF ConnectionOK, FirstAttempt, Moves, Threads
    <2>2. CASE t = c
      <3>1. Len(stk[c]) = 1 /\ stk[c][1].at = "check" /\ f = stk[c][1]
        BY <1>1, <2>2, UnopenedLoop DEF ConnectionOK, Unopened, FirstAttempt
      <3>2. QED
        BY <3>1 DEF KeepAs
    <2>3. QED
      BY <2>1, <2>2
  <1>7. UnopenedClosed(c)'
    <2> SUFFICES ASSUME Unopened(c)
                 PROVE  ws'[c].st = "CLOSED" /\ ~Logged(c, "close")' /\ Nowhere(c, SendPath)'
      BY <1>3 DEF UnopenedClosed
    <2>1. ws[c].st = "CLOSED" /\ ~Logged(c, "close") /\ Nowhere(c, SendPath)
      BY DEF ConnectionOK, UnopenedClosed
    <2>2. f.at \notin SendPath
      <3>1. Len(stk[t]) \in 1 .. Len(stk[t]) /\ f = stk[t][Len(stk[t])]
        BY <1>1, LastFrame
      <3>2. QED
        BY <2>1, <3>1 DEF Nowhere
    <2>3. ASSUME f.at \in LoopLabels
          PROVE  FALSE
      <3>0. Len(stk[t]) \in 1 .. Len(stk[t]) /\ f = stk[t][Len(stk[t])]
        BY <1>1, LastFrame
      <3>1. t = c
        BY <1>1, <2>3, <3>0 DEF StacksOK, FrameOK
      <3>2. f.at \notin Opening \cup {"check"}
        BY DEF KeepAs
      <3>3. f.at \in {"check"} \cup Opening
        BY <1>1, <3>1, UnopenedLoop DEF ConnectionOK
      <3>4. QED
        BY <3>2, <3>3
    <2>4. ~Brings(m, g, h, SendPath)
      BY <2>1, <2>2, <2>3 DEF KeepAs, Brings, SendPath
    <2>5. Nowhere(c, SendPath)'
      BY <1>1, <2>1, <2>4, NowhereAfter
    <2>6. ws'[c].st = "CLOSED"
      BY <2>1, <2>2, <2>3 DEF KeepAs, SendPath, LoopLabels
    <2>7. ~Logged(c, "close")'
      BY <1>4, <2>1, <2>2 DEF SendPath, Events
    <2>8. QED
      BY <2>5, <2>6, <2>7
  <1>8. NoOutcomeYet(c)'
    BY <1>3, <1>4 DEF ConnectionOK, NoOutcomeYet, Events, LoopEvents
  <1>9. EndShut(c)'
    <2> SUFFICES ASSUME ws'[c].fd = "open"
                 PROVE  ~Logged(c, "close")' /\ Nowhere(c, Closers)'
      BY DEF EndShut
    <2>1. ws[c].fd = "open"
      BY DEF KeepAs
    <2>2. ~Logged(c, "close") /\ Nowhere(c, Closers)
      BY <2>1 DEF ConnectionOK, EndShut
    <2>3. f.at \notin Closers
      <3>1. Len(stk[t]) \in 1 .. Len(stk[t]) /\ f = stk[t][Len(stk[t])]
        BY <1>1, LastFrame
      <3>2. QED
        BY <2>2, <3>1 DEF Nowhere
    <2>4. ~Brings(m, g, h, Closers)
      BY <2>3 DEF KeepAs
    <2>5. Nowhere(c, Closers)'
      BY <1>1, <2>2, <2>4, NowhereAfter
    <2>6. QED
      BY <1>4, <2>2, <2>3, <2>5 DEF Closers, Events
  <1>10. SendLock(c)'
    <2> DEFINE n == Len(stk[t])
    <2>1. n \in Nat /\ n >= 1 /\ f = stk[t][n] /\ Len(stk'[t]) \in Nat
      BY <1>1, LastFrame DEF StacksOK
    <2>2. CASE ws'[c].tx = ws[c].tx /\ ws[c].tx # Nobody
      <3> DEFINE u == ws[c].tx
      <3>1. PICK i \in 1 .. Len(stk[u]) : stk[u][i].c = c /\ stk[u][i].at \in Pushers
        BY <2>2 DEF ConnectionOK, SendLock
      <3>2. CASE u # t
        <4>1. u \in Threads
          BY <1>1, <2>2 DEF SocketsOK, SocketType
        <4>2. stk'[u] = stk[u]
          BY <3>2, <4>1 DEF Moves
        <4>3. QED
          BY <2>2, <3>1, <4>2 DEF SendLock
      <3>3. CASE u = t /\ i < n
        <4>1. i \in 1 .. n - 1
          BY <2>1, <3>3, SMTT(30)
        <4>2. Len(stk'[t]) >= n - 1 /\ \A j \in 1 .. n - 1 : stk'[t][j] = stk[t][j]
          BY <2>1 DEF Moves
        <4>3. i \in 1 .. Len(stk'[t]) /\ stk'[t][i] = stk[t][i]
          BY <2>1, <4>1, <4>2
        <4>4. QED
          BY <2>2, <3>1, <3>3, <4>3 DEF SendLock
      <3>4. CASE u = t /\ i = n /\ m # "return" /\ g.at \in Pushers
        <4>1. n \in 1 .. Len(stk'[t]) /\ stk'[t][n] = g
          BY <2>1, <3>4 DEF Moves
        <4>2. QED
          BY <2>2, <3>4, <4>1 DEF SendLock, Legal
      <3>5. u = t /\ i = n => m # "return" /\ g.at \in Pushers
        BY <2>1, <2>2, <3>1 DEF KeepAs
      <3>6. u = t => i < n \/ i = n
        <4>1. u = t => i \in 1 .. n
          BY <3>1
        <4> HIDE DEF u, n
        <4>2. n \in Nat
          BY <2>1
        <4>3. QED
          BY <4>1, <4>2
      <3>7. QED
        BY <3>2, <3>3, <3>4, <3>5, <3>6
    <2>3. CASE ws'[c].tx = Nobody
      BY <2>3 DEF SendLock
    <2>4. CASE ws'[c].tx = t /\ m = "jump" /\ g.at = "push"
      <3>1. n \in 1 .. Len(stk'[t]) /\ stk'[t][n] = g
        BY <2>1, <2>4 DEF Moves
      <3>2. g.c = c /\ g.at \in Pushers
        BY <2>4 DEF Legal, Pushers
      <3>3. QED
        BY <2>4, <3>1, <3>2 DEF SendLock
    <2>5. QED
      BY <2>2, <2>3, <2>4 DEF KeepAs
  <1>11. QED
    BY <1>5, <1>6, <1>7, <1>8, <1>9, <1>10 DEF ConnectionOK

\* The loop's frame is alone in the thread of its connection.
LEMMA LoopTop ==
    ASSUME NEW t \in Threads, StacksOK, Placed, stk[t] # <<>>, Top(t).at \in RunLabels
    PROVE  t = Top(t).c /\ Len(stk[t]) = 1 /\ stk[t][1] = Top(t)
  <1> DEFINE n == Len(stk[t])
  <1>1. n \in Nat /\ n >= 1 /\ Top(t) = stk[t][n]
    BY LastFrame
  <1>2. ASSUME n > 1
        PROVE  Calling(stk[t][n - 1], stk[t][n])
    BY <1>1, <1>2 DEF Placed
  <1>3. n = 1
    <2>1. ~(n > 1)
      BY <1>1, <1>2 DEF Calling, Bottom, Running
    <2> HIDE DEF n
    <2>2. QED
      BY <1>1, <2>1
  <1>4. t = Top(t).c
    <2>1. FrameOK(t, stk[t][n])
      BY <1>1 DEF StacksOK
    <2>2. QED
      BY <1>1, <2>1 DEF FrameOK, RunLabels
  <1>5. QED
    BY <1>1, <1>3, <1>4

(***************************************************************************)
(* The steps that open a connection: a handshake, or an error.             *)
(***************************************************************************)
OpenAs(t, m, g, h) ==
    LET f   == Top(t)
        c   == Top(t).c
        old == ws[c]
        new == ws'[c]
    IN
    /\ m # "return" /\ f.at \in Opening \cup {"check", "open"}
    /\ ~Brings(m, g, h, SendPath)
    /\ \A d \in Conns \ {c} : Untouched(d)
    /\ new.tx = old.tx
    /\ \/ new.sk = Nobody
       \/ new.sk = t /\ g.at \in {"handshake", "upgrade", "upgraded"}
       \/ /\ new.sk = old.sk
          /\ \/ f.at \in {"check", "connect", "open"}
             \/ g.at \in {"handshake", "upgrade", "upgraded"}
    /\ ~new.first \/ (new.first = old.first /\ f.at # "check")
    /\ new.fd = old.fd \/ f.at \in Opening
    /\ g.at \in Opening =>
          new.st = old.st /\ log'[c] = log[c] /\ (f.at \in Opening \/ old.first)
    /\ g.at = "open" => log'[c] = log[c] /\ f.at = "upgraded"
    /\ \/ log'[c] = log[c]
       \/ f.at # "check" /\ \E e \in {"open", "error"} : log'[c] = Append(log[c], e)

LEMMA OpeningKept ==
    ASSUME NEW t \in Threads, TransportOK, StacksOK', stk[t] # <<>>, Placed,
           NEW m, NEW g, NEW h, Moves(t, m, g, h), Legal(Top(t), m, g, h),
           OpenAs(t, m, g, h), NEW c \in Conns, c = Top(t).c, ConnectionOK(c)
    PROVE  ConnectionOK(c)'
  <1> DEFINE f == Top(t)
  <1>1. StacksOK /\ SocketsOK /\ LogsOK
    BY DEF TransportOK
  <1>2. f.at \in Opening \cup {"check", "open"} /\ m # "return" /\ ~Brings(m, g, h, SendPath)
    BY DEF OpenAs
  <1>3. t = c /\ Len(stk[c]) = 1 /\ stk[c][1] = f
    BY <1>1, <1>2, LoopTop DEF RunLabels, LoopLabels, Opening
  <1>4. stk'[c] # <<>> /\ stk'[c][1] = g /\ g.c = c
    BY <1>2, <1>3 DEF Moves, StacksOK, Legal
  <1>5. ~ws'[c].first
    <2>1. ws[c].first => f.at = "check"
      BY <1>3 DEF ConnectionOK, FirstAttempt
    <2>2. QED
      BY <1>2, <2>1 DEF OpenAs, Opening
  <1>6. Unopened(c)' <=> g.at \in Opening
    BY <1>4, <1>5 DEF Unopened, First
  <1>7. f.at \in Opening \/ ws[c].first => Unopened(c)
    BY <1>3 DEF Unopened, First
  <1>8. ~Logged(c, "close") => ~Logged(c, "close")'
    <2>1. CASE log'[c] = log[c]
      BY <2>1 DEF Logged
    <2>2. ASSUME NEW e \in {"open", "error"}, log'[c] = Append(log[c], e)
          PROVE  ~Logged(c, "close") => ~Logged(c, "close")'
      BY <1>1, <2>2, LoggedAfter
    <2>3. QED
      BY <2>1, <2>2 DEF OpenAs
  <1>9. HandshakeLock(c)'
    <2>1. CASE ws'[c].sk = Nobody
      BY <2>1 DEF HandshakeLock
    <2>2. CASE ws'[c].sk = t /\ g.at \in {"handshake", "upgrade", "upgraded"}
      BY <1>3, <1>4, <2>2 DEF HandshakeLock, First
    <2>3. CASE ws'[c].sk = ws[c].sk /\ f.at \in {"check", "connect", "open"}
      BY <1>3, <2>3 DEF ConnectionOK, HandshakeLock, First
    <2>4. CASE ws'[c].sk = ws[c].sk /\ g.at \in {"handshake", "upgrade", "upgraded"}
      BY <1>3, <1>4, <2>4 DEF ConnectionOK, HandshakeLock, First
    <2>5. QED
      BY <2>1, <2>2, <2>3, <2>4 DEF OpenAs
  <1>10. FirstAttempt(c)'
    BY <1>5 DEF FirstAttempt
  <1>11. UnopenedClosed(c)'
    <2> SUFFICES ASSUME g.at \in Opening
                 PROVE  ws'[c].st = "CLOSED" /\ ~Logged(c, "close")' /\ Nowhere(c, SendPath)'
      BY <1>6 DEF UnopenedClosed
    <2>1. ws'[c].st = ws[c].st /\ Unopened(c)
      BY <1>7 DEF OpenAs
    <2>2. ws[c].st = "CLOSED" /\ ~Logged(c, "close") /\ Nowhere(c, SendPath)
      BY <2>1 DEF ConnectionOK, UnopenedClosed
    <2>3. Nowhere(c, SendPath)'
      BY <1>1, <1>2, <2>2, NowhereAfter
    <2>4. QED
      BY <1>8, <2>1, <2>2, <2>3
  <1>12. NoOutcomeYet(c)'
    <2> SUFFICES ASSUME g.at \in Opening \/ g.at = "open"
                 PROVE  ~Logged(c, "open")' /\ ~Logged(c, "error")'
      BY <1>4, <1>6 DEF NoOutcomeYet, First
    <2>1. log'[c] = log[c] /\ Unopened(c)
      BY <1>7 DEF OpenAs, Opening
    <2>2. QED
      BY <2>1 DEF ConnectionOK, NoOutcomeYet, Logged
  <1>13. EndShut(c)'
    <2> SUFFICES ASSUME ws'[c].fd = "open"
                 PROVE  ~Logged(c, "close")' /\ Nowhere(c, Closers)'
      BY DEF EndShut
    <2>1. ~Logged(c, "close") /\ Nowhere(c, Closers)
      <3>1. CASE ws'[c].fd = ws[c].fd
        BY <3>1 DEF ConnectionOK, EndShut
      <3>2. CASE f.at \in Opening
        BY <1>7, <3>2 DEF ConnectionOK, UnopenedClosed, Nowhere, Closers, SendPath
      <3>3. QED
        BY <3>1, <3>2 DEF OpenAs
    <2>2. ~Brings(m, g, h, Closers)
      BY <1>2 DEF Brings, Closers, SendPath
    <2>3. Nowhere(c, Closers)'
      BY <1>1, <2>1, <2>2, NowhereAfter
    <2>4. QED
      BY <1>8, <2>1, <2>3
  <1>14. SendLock(c)'
    <2> DEFINE u == ws[c].tx
    <2> SUFFICES ASSUME u # Nobody
                 PROVE  \E i \in 1 .. Len(stk'[u]) :
                            stk'[u][i].c = c /\ stk'[u][i].at \in Pushers
      BY DEF SendLock, OpenAs
    <2>1. PICK i \in 1 .. Len(stk[u]) : stk[u][i].c = c /\ stk[u][i].at \in Pushers
      BY DEF ConnectionOK, SendLock
    <2>2. u # t
      <3>1. f.at \notin Pushers
        BY <1>2 DEF Opening, Pushers
      <3>2. u = t => i = 1
        BY <1>3, <2>1
      <3>3. QED
        BY <1>3, <2>1, <3>1, <3>2
    <2>3. QED
      BY <1>1, <2>1, <2>2 DEF Moves, SocketsOK, SocketType
  <1>15. QED
    BY <1>9, <1>10, <1>11, <1>12, <1>13, <1>14 DEF ConnectionOK

-----------------------------------------------------------------------------
(* The steps of ix::WebSocket.                                             *)

SteadyStep(t) ==
    \E m, g, h : /\ Moves(t, m, g, h) /\ Legal(Top(t), m, g, h)
                 /\ LifeAs(t, m, g, h) /\ KeepAs(t, m, g, h)

OpeningStep(t) ==
    \E m, g, h : /\ Moves(t, m, g, h) /\ Legal(Top(t), m, g, h)
                 /\ LifeAs(t, m, g, h) /\ OpenAs(t, m, g, h)

\* The transport and the loop never start, stop or replace the websocket.
LEMMA PlainSteady ==
    ASSUME NEW t \in Threads, TransportOK, PlainStep(t), UNCHANGED made
    PROVE  SteadyStep(t)
  <1>1. PICK m, g, h : Moves(t, m, g, h) /\ PlainAs(t, m, g, h)
    BY DEF PlainStep
  <1> DEFINE f == Top(t)
  <1>2. f.at \in PlainPoints /\ Passes(f, m, g, h)
    BY <1>1 DEF PlainAs
  <1>3. /\ f.at \notin Opening \cup {"check", "open", "callback", "start"}
        /\ f.at \notin StopLabels \cup MainLabels \cup ServerLabels
    BY <1>2 DEF PlainPoints, Opening, LoopLabels, MethodLabels, StopLabels, MainLabels,
       ServerLabels
  <1>4. m # "return" => /\ g.at \notin Opening \cup {"open"} \cup StopLabels \cup MainLabels
                        /\ g.c = f.c /\ (Running(g) <=> Running(f))
                        /\ f.at \in Closers => g.at \in Closers
    BY <1>2 DEF Passes, Followers, RunLabels, LoopLabels, Opening, SendPath, StopLabels, MainLabels
  <1>5. m = "call" => /\ h.c = f.c /\ h.at \notin StopLabels \cup MainLabels
                      /\ ~Running(h)
                      /\ g.at \in Suspended
                      /\ g.at = "pushFailed" => h.at = "setClosed"
                      /\ g.at = "nowClosed" => h.at = "callback" /\ h.arg = "close"
    BY <1>2 DEF Passes, Callees, StopLabels, MainLabels, Running, RunLabels, LoopLabels
  <1>6. Legal(f, m, g, h)
    <2>1. m = "call" => Calling(g, h)
      BY <1>5 DEF Calling, Bottom, ClientSuspended, Suspended, Closers
    <2>2. QED
      BY <1>3, <1>4, <1>5, <2>1 DEF Legal, Bottom
  <1>7. LifeAs(t, m, g, h)
    <2>1. ~Brings(m, g, h, {"wsNew", "wsRelease", "destroyed", "start", "stopped"})
      BY <1>4, <1>5 DEF Brings, MainLabels, StopLabels
    <2>2. f.at \notin {"wsReset", "wsNew", "wsRelease", "clientReset"}
      BY <1>3 DEF MainLabels
    <2>3. \A d \in Conns : ws'[d].first = ws[d].first /\ ws'[d].joinable = ws[d].joinable
      BY <1>1 DEF PlainAs
    <2>4. QED
      BY <2>1, <2>2, <2>3 DEF LifeAs, Brings
  <1>8. KeepAs(t, m, g, h)
    <2>1. \A d \in Conns \ {f.c} : Untouched(d)
      BY <1>1 DEF PlainAs, Untouched
    <2>2. QED
      BY <1>1, <1>3, <1>4, <2>1 DEF PlainAs, KeepAs
  <1>9. QED
    BY <1>1, <1>6, <1>7, <1>8 DEF SteadyStep

\* The steps that open a connection.
LEMMA OpeningSteps ==
    ASSUME NEW t \in Threads, TransportOK, Placed, UNCHANGED made,
           \/ Connect(t) \/ Handshake(t) \/ Upgrade(t) \/ UpgradeFails(t)
           \/ Upgraded(t) \/ Open(t)
    PROVE  OpeningStep(t)
  <1> DEFINE f == Top(t)
             c == Top(t).c
             x == Top(t).arg
  <1>1. CASE Connect(t)
    <2>1. Ready(t) /\ f.at = "connect"
      BY <1>1, ReadyAt DEF Connect, ServerLabels
    <2>2. t = c
      BY <2>1, LoopTop DEF Ready, RunLabels, LoopLabels
    <2>3. CASE Jump(t, "loop") /\ UNCHANGED <<ws, log>>
      <3>1. Moves(t, "jump", Frame("loop", c, x), f)
        BY <1>1, <2>1, <2>2, <2>3, JumpMoves DEF Connect, Ready, Jump, Emit, Call
      <3>2. Legal(f, "jump", Frame("loop", c, x), f)
        BY <2>1 DEF Legal, ServerLabels, Calling, Bottom, Running, RunLabels,
            LoopLabels, StopLabels, MainLabels, Closers, ClientSuspended, Suspended,
            Frame
      <3>3. LifeAs(t, "jump", Frame("loop", c, x), f)
        BY <1>1, <2>1, <2>2, <2>3, ReadyFacts DEF Connect, LifeAs, Brings, Frame
      <3>4. OpenAs(t, "jump", Frame("loop", c, x), f)
        BY <2>1, <2>2, <2>3, ReadyFacts DEF OpenAs, Untouched, Brings, Opening,
            SendPath, Frame
      <3>5. QED
        BY <3>1, <3>2, <3>3, <3>4 DEF OpeningStep
    <2>4. CASE Emit(t, "check", "error") /\ UNCHANGED ws
      <3>1. Moves(t, "call", Frame("check", c, x), Frame("callback", c, "error"))
        BY <1>1, <2>1, <2>2, <2>4, CallMoves DEF Connect, Ready, Jump, Emit, Call
      <3>2. Legal(f, "call", Frame("check", c, x), Frame("callback", c, "error"))
        BY <2>1 DEF Legal, ServerLabels, Calling, Bottom, Running, RunLabels,
            LoopLabels, StopLabels, MainLabels, Closers, ClientSuspended, Suspended,
            Frame
      <3>3. LifeAs(t, "call", Frame("check", c, x), Frame("callback", c, "error"))
        BY <1>1, <2>1, <2>2, <2>4, ReadyFacts DEF Connect, LifeAs, Brings, Frame
      <3>4. OpenAs(t, "call", Frame("check", c, x), Frame("callback", c, "error"))
        <4>1. log' = [log EXCEPT ![c] = Append(@, "error")]
          BY <2>4 DEF Emit
        <4>2. QED
          BY <2>1, <2>2, <2>4, <4>1, ReadyFacts DEF OpenAs, Untouched, Brings, Opening,
              SendPath, Frame
      <3>5. QED
        BY <3>1, <3>2, <3>3, <3>4 DEF OpeningStep
    <2>5. CASE /\ ws' = [ws EXCEPT ![c].sk = t, ![c].fd = "shut", ![c].pipe = <<>>]
             /\ Jump(t, "handshake") /\ UNCHANGED log
      <3>1. Moves(t, "jump", Frame("handshake", c, x), f)
        BY <1>1, <2>1, <2>2, <2>5, JumpMoves DEF Connect, Ready, Jump, Emit, Call
      <3>2. Legal(f, "jump", Frame("handshake", c, x), f)
        BY <2>1 DEF Legal, ServerLabels, Calling, Bottom, Running, RunLabels,
            LoopLabels, StopLabels, MainLabels, Closers, ClientSuspended, Suspended,
            Frame
      <3>3. LifeAs(t, "jump", Frame("handshake", c, x), f)
        BY <1>1, <2>1, <2>2, <2>5, ReadyFacts DEF Connect, LifeAs, Brings, Frame
      <3>4. OpenAs(t, "jump", Frame("handshake", c, x), f)
        <4>1. /\ ws'[c].sk = t /\ ws'[c].first = ws[c].first /\ log' = log
              /\ ws'[c].tx = ws[c].tx /\ ws'[c].st = ws[c].st
          BY <2>1, <2>5, ReadyFacts
        <4>2. \A d \in Conns \ {c} : Untouched(d)
          BY <2>1, <2>5, ReadyFacts DEF Untouched
        <4>3. QED
          BY <2>1, <4>1, <4>2, ReadyFacts DEF OpenAs, Brings, Opening, SendPath, Frame
      <3>5. QED
        BY <3>1, <3>2, <3>3, <3>4 DEF OpeningStep
    <2>6. QED
      BY <1>1, <2>1, <2>3, <2>4, <2>5 DEF Connect
  <1>2. CASE Handshake(t)
    <2>1. Ready(t) /\ f.at = "handshake"
      BY <1>2, ReadyAt DEF Handshake, ServerLabels
    <2>2. t = c
      BY <2>1, LoopTop DEF Ready, RunLabels, LoopLabels
    <2>3. Moves(t, "jump", Frame("upgrade", c, x), f)
      BY <1>2, <2>1, <2>2, JumpMoves DEF Handshake, Ready, Jump, Emit, Call
    <2>4. Legal(f, "jump", Frame("upgrade", c, x), f)
      BY <2>1 DEF Legal, ServerLabels, Calling, Bottom, Running, RunLabels, LoopLabels,
          StopLabels, MainLabels, Closers, ClientSuspended, Suspended, Frame
    <2>5. LifeAs(t, "jump", Frame("upgrade", c, x), f)
      BY <1>2, <2>1, <2>2, ReadyFacts DEF Handshake, LifeAs, Brings, Frame
    <2>6. OpenAs(t, "jump", Frame("upgrade", c, x), f)
      BY <1>2, <2>1, <2>2, ReadyFacts DEF Handshake, OpenAs, Untouched, Brings, Opening,
          SendPath, Frame
    <2>7. QED
      BY <2>3, <2>4, <2>5, <2>6 DEF OpeningStep
  <1>3. CASE Upgrade(t)
    <2>1. Ready(t) /\ f.at = "upgrade"
      BY <1>3, ReadyAt DEF Upgrade, ServerLabels
    <2>2. t = c
      BY <2>1, LoopTop DEF Ready, RunLabels, LoopLabels
    <2>3. Moves(t, "jump", Frame("upgraded", c, x), f)
      BY <1>3, <2>1, <2>2, JumpMoves DEF Upgrade, Ready, Jump, Emit, Call
    <2>4. Legal(f, "jump", Frame("upgraded", c, x), f)
      BY <2>1 DEF Legal, ServerLabels, Calling, Bottom, Running, RunLabels, LoopLabels,
          StopLabels, MainLabels, Closers, ClientSuspended, Suspended, Frame
    <2>5. LifeAs(t, "jump", Frame("upgraded", c, x), f)
      BY <1>3, <2>1, <2>2, ReadyFacts DEF Upgrade, LifeAs, Brings, Frame
    <2>6. OpenAs(t, "jump", Frame("upgraded", c, x), f)
      BY <1>3, <2>1, <2>2, ReadyFacts DEF Upgrade, OpenAs, Untouched, Brings, Opening,
          SendPath, Frame
    <2>7. QED
      BY <2>3, <2>4, <2>5, <2>6 DEF OpeningStep
  <1>4. CASE UpgradeFails(t)
    <2>1. Ready(t) /\ f.at = "upgrade"
      BY <1>4, ReadyAt DEF UpgradeFails, ServerLabels
    <2>2. t = c
      BY <2>1, LoopTop DEF Ready, RunLabels, LoopLabels
    <2>3. Moves(t, "call", Frame("check", c, x), Frame("callback", c, "error"))
      BY <1>4, <2>1, <2>2, CallMoves DEF UpgradeFails, Ready, Jump, Emit, Call
    <2>4. Legal(f, "call", Frame("check", c, x), Frame("callback", c, "error"))
      BY <2>1 DEF Legal, ServerLabels, Calling, Bottom, Running, RunLabels, LoopLabels,
          StopLabels, MainLabels, Closers, ClientSuspended, Suspended, Frame
    <2>5. LifeAs(t, "call", Frame("check", c, x), Frame("callback", c, "error"))
      BY <1>4, <2>1, <2>2, ReadyFacts DEF UpgradeFails, LifeAs, Brings, Frame
    <2>6. OpenAs(t, "call", Frame("check", c, x), Frame("callback", c, "error"))
      <3>1. PICK s \in {"open", "shut"} : ws' = [ws EXCEPT ![c].fd = s, ![c].sk = Nobody]
        BY <1>4 DEF UpgradeFails
      <3>2. /\ ws'[c].sk = Nobody /\ ws'[c].first = ws[c].first
            /\ ws'[c].tx = ws[c].tx /\ ws'[c].st = ws[c].st
        BY <2>1, <3>1, ReadyFacts DEF SocketType
      <3>3. log' = [log EXCEPT ![c] = Append(@, "error")]
        BY <1>4 DEF UpgradeFails, Emit
      <3>4. \A d \in Conns \ {c} : Untouched(d)
        BY <2>1, <3>1, <3>3, ReadyFacts DEF Untouched
      <3>5. log'[c] = Append(log[c], "error")
        BY <2>1, <3>3, ReadyFacts
      <3>6. QED
        BY <2>1, <3>2, <3>4, <3>5 DEF OpenAs, Brings, Opening, SendPath, Frame
    <2>7. QED
      BY <2>3, <2>4, <2>5, <2>6 DEF OpeningStep
  <1>5. CASE Upgraded(t)
    <2>1. Ready(t) /\ f.at = "upgraded"
      BY <1>5, ReadyAt DEF Upgraded, ServerLabels
    <2>2. t = c
      BY <2>1, LoopTop DEF Ready, RunLabels, LoopLabels
    <2>3. Moves(t, "jump", Frame("open", c, x), f)
      BY <1>5, <2>1, <2>2, JumpMoves DEF Upgraded, Ready, Jump, Emit, Call
    <2>4. Legal(f, "jump", Frame("open", c, x), f)
      BY <2>1 DEF Legal, ServerLabels, Calling, Bottom, Running, RunLabels, LoopLabels,
          StopLabels, MainLabels, Closers, ClientSuspended, Suspended, Frame
    <2>5. LifeAs(t, "jump", Frame("open", c, x), f)
      BY <1>5, <2>1, <2>2, ReadyFacts DEF Upgraded, LifeAs, Brings, Frame
    <2>6. OpenAs(t, "jump", Frame("open", c, x), f)
      BY <1>5, <2>1, <2>2, ReadyFacts DEF Upgraded, OpenAs, Untouched, Brings, Opening,
          SendPath, Frame
    <2>7. QED
      BY <2>3, <2>4, <2>5, <2>6 DEF OpeningStep
  <1>6. CASE Open(t)
    <2>1. Ready(t) /\ f.at = "open"
      BY <1>6, ReadyAt DEF Open, ServerLabels
    <2>2. t = c
      BY <2>1, LoopTop DEF Ready, RunLabels, LoopLabels
    <2>3. Moves(t, "call", Frame("opened", c, x), Frame("callback", c, "open"))
      BY <1>6, <2>1, <2>2, CallMoves DEF Open, Ready, Jump, Emit, Call
    <2>4. Legal(f, "call", Frame("opened", c, x), Frame("callback", c, "open"))
      BY <2>1 DEF Legal, ServerLabels, Calling, Bottom, Running, RunLabels, LoopLabels,
          StopLabels, MainLabels, Closers, ClientSuspended, Suspended, Frame
    <2>5. LifeAs(t, "call", Frame("opened", c, x), Frame("callback", c, "open"))
      BY <1>6, <2>1, <2>2, ReadyFacts DEF Open, LifeAs, Brings, Frame
    <2>6. OpenAs(t, "call", Frame("opened", c, x), Frame("callback", c, "open"))
      BY <1>6, <2>1, <2>2, ReadyFacts DEF Open, Emit, OpenAs, Untouched, Brings,
          Opening, SendPath, Frame
    <2>7. QED
      BY <2>3, <2>4, <2>5, <2>6 DEF OpeningStep
  <1>7. QED
    BY <1>1, <1>2, <1>3, <1>4, <1>5, <1>6

\* checkConnection returns at once, or begins the one attempt to connect.
LEMMA CheckSteps ==
    ASSUME NEW t \in Threads, TransportOK, Placed, UNCHANGED made, Check(t)
    PROVE  OpeningStep(t)
  <1> DEFINE f == Top(t)
             c == Top(t).c
  <1>1. Ready(t) /\ f.at = "check"
    BY ReadyAt DEF Check, ServerLabels
  <1>2. t = c
    BY <1>1, LoopTop DEF Ready, RunLabels, LoopLabels
  <1>3. PICK l \in {"loop", "connect"} :
           JumpWith(t, l, "") /\ (l = "connect" => ws[c].first)
    BY DEF Check
  <1>4. ws' = [ws EXCEPT ![c].first = FALSE] /\ UNCHANGED log
    BY DEF Check
  <1>5. Moves(t, "jump", Frame(l, c, ""), f)
    BY <1>1, <1>3, JumpMoves DEF Ready
  <1>6. Legal(f, "jump", Frame(l, c, ""), f)
    BY <1>1, <1>3 DEF Legal, ServerLabels, Calling, Bottom, Running, RunLabels, LoopLabels,
        StopLabels, MainLabels, Closers, ClientSuspended, Suspended, Frame
  <1>7. LifeAs(t, "jump", Frame(l, c, ""), f)
    <2>1. stk[c] # <<>> /\ c \in Conns
      BY <1>1, <1>2 DEF Ready
    <2>2. \A d \in Conns : ws'[d].joinable = ws[d].joinable
      BY <1>1, <1>4, <2>1, ReadyFacts DEF SocketType
    <2>3. \A d \in Conns \ {c} : ws'[d].first = ws[d].first
      BY <1>1, <1>4, <2>1, ReadyFacts
    <2>4. QED
      BY <1>1, <1>3, <2>1, <2>2, <2>3 DEF LifeAs, Brings, Frame
  <1>8. OpenAs(t, "jump", Frame(l, c, ""), f)
    BY <1>1, <1>3, <1>4, ReadyFacts DEF SocketType, OpenAs, Untouched, Brings, Opening,
        SendPath, Frame
  <1>9. QED
    BY <1>5, <1>6, <1>7, <1>8 DEF OpeningStep

-----------------------------------------------------------------------------
(* The steps of start() and stop(), of DWebSocketClient and DWebSocket.    *)

\* The methods of the connection's owner leave the connection as it is.
LEMMA OwnerKept ==
    ASSUME NEW t \in Threads, NEW m, NEW g, NEW h,
           Top(t).at \notin LoopLabels \cup SendPath,
           ~Brings(m, g, h, LoopLabels \cup SendPath),
           \A d \in Conns :
              /\ ws'[d].st = ws[d].st /\ ws'[d].sk = ws[d].sk /\ ws'[d].tx = ws[d].tx
              /\ ws'[d].fd = ws[d].fd /\ ws'[d].first = ws[d].first,
           \A d \in Conns \ {Top(t).c} : log'[d] = log[d],
           \/ log'[Top(t).c] = log[Top(t).c]
           \/ \E e \in {"closing", "connecting"} : log'[Top(t).c] = Append(log[Top(t).c], e),
           Top(t).c \in Conns
    PROVE  KeepAs(t, m, g, h)
  <1> DEFINE f == Top(t)
             c == Top(t).c
  <1>1. f.at \notin Opening \cup {"check", "open"} \cup Pushers
    BY DEF Opening, LoopLabels, Pushers, SendPath
  <1>2. m # "return" => g.at \notin Opening \cup {"open"}
    BY DEF Brings, Opening, LoopLabels
  <1>3. ~Brings(m, g, h, Closers) /\ ~Brings(m, g, h, SendPath)
    BY DEF Brings, Closers, SendPath
  <1>4. \A d \in Conns \ {c} : Untouched(d)
    BY DEF Untouched
  <1>5. \/ log'[c] = log[c]
        \/ \E e \in Events \ {"open", "error"} :
              log'[c] = Append(log[c], e) /\ (e = "close" => f.at = "setClosed")
    BY DEF Events, LoopEvents
  <1>6. QED
    BY <1>1, <1>2, <1>3, <1>4, <1>5 DEF KeepAs

\* The methods between two calls to ix::WebSocket, its stop() included.
LEMMA OwnerSteps ==
    ASSUME NEW t \in Threads, TransportOK, ThreadLife,
           \/ (Stop(t) \/ StopThread(t) \/ Join(t) \/ Stopped(t)) /\ UNCHANGED made
           \/ ClientClose(t) \/ ClientStop(t) \/ ClientClosed(t)
           \/ ClientConnect(t) \/ ClientRestart(t) \/ ClientDestroy(t) \/ Destroyed(t)
           \/ WsStop(t) \/ WsStart(t)
    PROVE  SteadyStep(t)
  <1> DEFINE f == Top(t)
             c == Top(t).c
             x == Top(t).arg
  <1>1. CASE Stop(t) /\ UNCHANGED made
    <2>1. Ready(t) /\ f.at = "stop" /\ UNCHANGED made
      BY <1>1, ReadyAt DEF Stop, ServerLabels
    <2>2. Moves(t, "call", Frame("stopThread", c, x), Frame("close", c, ""))
      BY <1>1, <2>1, CallMoves DEF Stop, Ready, Call, Emit
    <2>3. Legal(f, "call", Frame("stopThread", c, x), Frame("close", c, ""))
      BY <2>1 DEF Legal, ServerLabels, Calling, Bottom, Running, RunLabels, LoopLabels,
          StopLabels, MainLabels, Closers, ClientSuspended, Suspended, Frame
    <2>4. LifeAs(t, "call", Frame("stopThread", c, x), Frame("close", c, ""))
      BY <1>1, <2>1 DEF Stop, LifeAs, Brings, Frame
    <2>5. KeepAs(t, "call", Frame("stopThread", c, x), Frame("close", c, ""))
      BY <1>1, <2>1, ReadyFacts, OwnerKept DEF Stop, Brings, LoopLabels, SendPath, Frame
    <2>6. QED
      BY <2>2, <2>3, <2>4, <2>5 DEF SteadyStep
  <1>2. CASE StopThread(t) /\ UNCHANGED made
    <2>1. Ready(t) /\ f.at = "stopThread" /\ UNCHANGED made
      BY <1>2, ReadyAt DEF StopThread, ServerLabels
    <2>2. CASE Jump(t, "join") /\ ws' = [ws EXCEPT ![c].stop = TRUE]
      <3>1. Moves(t, "jump", Frame("join", c, x), f)
        BY <1>2, <2>1, <2>2, JumpMoves DEF StopThread, Ready, Jump
      <3>2. Legal(f, "jump", Frame("join", c, x), f)
        BY <2>1 DEF Legal, ServerLabels, Calling, Bottom, Running, RunLabels,
            LoopLabels, StopLabels, MainLabels, Closers, ClientSuspended, Suspended,
            Frame
      <3>3. LifeAs(t, "jump", Frame("join", c, x), f)
        BY <1>2, <2>1, <2>2, ReadyFacts DEF StopThread, LifeAs, Brings, Frame,
            SocketType
      <3>4. KeepAs(t, "jump", Frame("join", c, x), f)
        BY <1>2, <2>1, <2>2, ReadyFacts, OwnerKept DEF StopThread, Brings, LoopLabels,
            SendPath, Frame, SocketType
      <3>5. QED
        BY <3>1, <3>2, <3>3, <3>4 DEF SteadyStep
    <2>3. CASE Jump(t, "stopped") /\ UNCHANGED ws /\ ~ws[c].joinable
      <3>1. Moves(t, "jump", Frame("stopped", c, x), f)
        BY <1>2, <2>1, <2>3, JumpMoves DEF StopThread, Ready, Jump
      <3>2. Legal(f, "jump", Frame("stopped", c, x), f)
        BY <2>1 DEF Legal, ServerLabels, Calling, Bottom, Running, RunLabels,
            LoopLabels, StopLabels, MainLabels, Closers, ClientSuspended, Suspended,
            Frame
      <3>3. LifeAs(t, "jump", Frame("stopped", c, x), f)
        BY <1>2, <2>1, <2>3, ReadyFacts DEF StopThread, LifeAs, Brings, Frame,
            ThreadLife, RunsJoinable, SocketType
      <3>4. KeepAs(t, "jump", Frame("stopped", c, x), f)
        BY <1>2, <2>1, <2>3, ReadyFacts, OwnerKept DEF StopThread, Brings, LoopLabels,
            SendPath, Frame, SocketType
      <3>5. QED
        BY <3>1, <3>2, <3>3, <3>4 DEF SteadyStep
    <2>4. QED
      BY <1>2, <2>1, <2>2, <2>3 DEF StopThread
  <1>3. CASE Join(t) /\ UNCHANGED made
    <2>1. Ready(t) /\ f.at = "join" /\ UNCHANGED made
      BY <1>3, ReadyAt DEF Join, ServerLabels
    <2>2. Moves(t, "jump", Frame("stopped", c, x), f)
      BY <1>3, <2>1, JumpMoves DEF Join, Ready, Jump
    <2>3. Legal(f, "jump", Frame("stopped", c, x), f)
      BY <2>1 DEF Legal, ServerLabels, Calling, Bottom, Running, RunLabels, LoopLabels,
          StopLabels, MainLabels, Closers, ClientSuspended, Suspended, Frame
    <2>4. LifeAs(t, "jump", Frame("stopped", c, x), f)
      BY <1>3, <2>1, ReadyFacts DEF Join, LifeAs, Brings, Frame, SocketType
    <2>5. KeepAs(t, "jump", Frame("stopped", c, x), f)
      BY <1>3, <2>1, ReadyFacts, OwnerKept DEF Join, Brings, LoopLabels, SendPath,
          Frame, SocketType
    <2>6. QED
      BY <2>2, <2>3, <2>4, <2>5 DEF SteadyStep
  <1>4. CASE Stopped(t) /\ UNCHANGED made
    <2>1. Ready(t) /\ f.at = "stopped" /\ UNCHANGED made
      BY <1>4, ReadyAt DEF Stopped, ServerLabels
    <2>2. Moves(t, "return", f, f)
      BY <1>4, <2>1, ReturnMoves DEF Stopped, Ready
    <2>3. Legal(f, "return", f, f)
      BY <2>1 DEF Legal, ServerLabels, Calling, Bottom, Running, RunLabels, LoopLabels,
          StopLabels, MainLabels, Closers, ClientSuspended, Suspended, Frame
    <2>4. LifeAs(t, "return", f, f)
      BY <1>4, <2>1 DEF Stopped, LifeAs, Brings, Frame
    <2>5. KeepAs(t, "return", f, f)
      BY <1>4, <2>1, ReadyFacts, OwnerKept DEF Stopped, Brings, LoopLabels, SendPath,
          Frame
    <2>6. QED
      BY <2>2, <2>3, <2>4, <2>5 DEF SteadyStep
  <1>5. CASE ClientClose(t)
    <2>1. Ready(t) /\ f.at = "clientClose" /\ UNCHANGED made
      BY <1>5, ReadyAt DEF ClientClose, ServerLabels
    <2>2. CASE Emit(t, "clientStop", "closing")
      <3>1. Moves(t, "call", Frame("clientStop", c, x), Frame("callback", c, "closing"))
        BY <1>5, <2>1, <2>2, CallMoves DEF ClientClose, Ready, Call, Emit
      <3>2. Legal(f, "call", Frame("clientStop", c, x), Frame("callback", c, "closing"))
        BY <2>1 DEF Legal, ServerLabels, Calling, Bottom, Running, RunLabels,
            LoopLabels, StopLabels, MainLabels, Closers, ClientSuspended, Suspended,
            Frame
      <3>3. LifeAs(t, "call", Frame("clientStop", c, x), Frame("callback", c, "closing"))
        BY <1>5, <2>1, <2>2 DEF ClientClose, LifeAs, Brings, Frame
      <3>4. KeepAs(t, "call", Frame("clientStop", c, x), Frame("callback", c, "closing"))
        <4>1. /\ f.at \notin LoopLabels \cup SendPath
              /\ ~Brings("call", Frame("clientStop", c, x), Frame("callback", c, "closing"),
                         LoopLabels \cup SendPath)
          BY <2>1 DEF Brings, LoopLabels, SendPath, Frame
        <4>2. ws' = ws /\ log' = [log EXCEPT ![c] = Append(@, "closing")]
          BY <1>5, <2>2 DEF ClientClose, Emit
        <4>3. /\ \A d \in Conns \ {c} : log'[d] = log[d]
              /\ log'[c] = Append(log[c], "closing")
          BY <2>1, <4>2, ReadyFacts
        <4>4. QED
          BY <2>1, <4>1, <4>2, <4>3, ReadyFacts, OwnerKept
      <3>5. QED
        BY <3>1, <3>2, <3>3, <3>4 DEF SteadyStep
    <2>3. CASE Jump(t, "clientClosed") /\ UNCHANGED log
      <3>1. Moves(t, "jump", Frame("clientClosed", c, x), f)
        BY <1>5, <2>1, <2>3, JumpMoves DEF ClientClose, Ready, Jump
      <3>2. Legal(f, "jump", Frame("clientClosed", c, x), f)
        BY <2>1 DEF Legal, ServerLabels, Calling, Bottom, Running, RunLabels,
            LoopLabels, StopLabels, MainLabels, Closers, ClientSuspended, Suspended,
            Frame
      <3>3. LifeAs(t, "jump", Frame("clientClosed", c, x), f)
        BY <1>5, <2>1, <2>3 DEF ClientClose, LifeAs, Brings, Frame
      <3>4. KeepAs(t, "jump", Frame("clientClosed", c, x), f)
        BY <1>5, <2>1, <2>3, ReadyFacts, OwnerKept DEF ClientClose, Brings, LoopLabels,
            SendPath, Frame
      <3>5. QED
        BY <3>1, <3>2, <3>3, <3>4 DEF SteadyStep
    <2>4. QED
      BY <1>5, <2>1, <2>2, <2>3 DEF ClientClose
  <1>6. CASE ClientStop(t)
    <2>1. Ready(t) /\ f.at = "clientStop" /\ UNCHANGED made
      BY <1>6, ReadyAt DEF ClientStop, ServerLabels
    <2>2. Moves(t, "call", Frame("clientClosed", c, x), Frame("wsStop", c, ""))
      BY <1>6, <2>1, CallMoves DEF ClientStop, Ready, Call, Emit
    <2>3. Legal(f, "call", Frame("clientClosed", c, x), Frame("wsStop", c, ""))
      BY <2>1 DEF Legal, ServerLabels, Calling, Bottom, Running, RunLabels, LoopLabels,
          StopLabels, MainLabels, Closers, ClientSuspended, Suspended, Frame
    <2>4. LifeAs(t, "call", Frame("clientClosed", c, x), Frame("wsStop", c, ""))
      BY <1>6, <2>1 DEF ClientStop, LifeAs, Brings, Frame
    <2>5. KeepAs(t, "call", Frame("clientClosed", c, x), Frame("wsStop", c, ""))
      BY <1>6, <2>1, ReadyFacts, OwnerKept DEF ClientStop, Brings, LoopLabels, SendPath,
          Frame
    <2>6. QED
      BY <2>2, <2>3, <2>4, <2>5 DEF SteadyStep
  <1>7. CASE ClientClosed(t)
    <2>1. Ready(t) /\ f.at = "clientClosed" /\ UNCHANGED made
      BY <1>7, ReadyAt DEF ClientClosed, ServerLabels
    <2>2. Moves(t, "return", f, f)
      BY <1>7, <2>1, ReturnMoves DEF ClientClosed, Ready
    <2>3. Legal(f, "return", f, f)
      BY <2>1 DEF Legal, ServerLabels, Calling, Bottom, Running, RunLabels, LoopLabels,
          StopLabels, MainLabels, Closers, ClientSuspended, Suspended, Frame
    <2>4. LifeAs(t, "return", f, f)
      BY <1>7, <2>1 DEF ClientClosed, LifeAs, Brings, Frame
    <2>5. KeepAs(t, "return", f, f)
      BY <1>7, <2>1, ReadyFacts, OwnerKept DEF ClientClosed, Brings, LoopLabels,
          SendPath, Frame
    <2>6. QED
      BY <2>2, <2>3, <2>4, <2>5 DEF SteadyStep
  <1>8. CASE ClientConnect(t)
    <2>1. Ready(t) /\ f.at = "clientConnect" /\ UNCHANGED made
      BY <1>8, ReadyAt DEF ClientConnect, ServerLabels
    <2>2. Moves(t, "call", Frame("clientRestart", c, x), Frame("callback", c, "connecting"))
      BY <1>8, <2>1, CallMoves DEF ClientConnect, Ready, Call, Emit
    <2>3. Legal(f, "call", Frame("clientRestart", c, x), Frame("callback", c, "connecting"))
      BY <2>1 DEF Legal, ServerLabels, Calling, Bottom, Running, RunLabels, LoopLabels,
          StopLabels, MainLabels, Closers, ClientSuspended, Suspended, Frame
    <2>4. LifeAs(t, "call", Frame("clientRestart", c, x), Frame("callback", c, "connecting"))
      BY <1>8, <2>1 DEF ClientConnect, LifeAs, Brings, Frame
    <2>5. KeepAs(t, "call", Frame("clientRestart", c, x), Frame("callback", c, "connecting"))
      BY <1>8, <2>1, ReadyFacts, OwnerKept DEF ClientConnect, Emit, Brings, LoopLabels,
          SendPath, Frame
    <2>6. QED
      BY <2>2, <2>3, <2>4, <2>5 DEF SteadyStep
  <1>9. CASE ClientRestart(t)
    <2>1. Ready(t) /\ f.at = "clientRestart" /\ UNCHANGED made
      BY <1>9, ReadyAt DEF ClientRestart, ServerLabels
    <2>2. CASE Call(t, "wsStart", "wsStop", "")
      <3>1. Moves(t, "call", Frame("wsStart", c, x), Frame("wsStop", c, ""))
        BY <1>9, <2>1, <2>2, CallMoves DEF ClientRestart, Ready, Call, Emit
      <3>2. Legal(f, "call", Frame("wsStart", c, x), Frame("wsStop", c, ""))
        BY <2>1 DEF Legal, ServerLabels, Calling, Bottom, Running, RunLabels,
            LoopLabels, StopLabels, MainLabels, Closers, ClientSuspended, Suspended,
            Frame
      <3>3. LifeAs(t, "call", Frame("wsStart", c, x), Frame("wsStop", c, ""))
        BY <1>9, <2>1, <2>2 DEF ClientRestart, LifeAs, Brings, Frame
      <3>4. KeepAs(t, "call", Frame("wsStart", c, x), Frame("wsStop", c, ""))
        BY <1>9, <2>1, <2>2, ReadyFacts, OwnerKept DEF ClientRestart, Brings,
            LoopLabels, SendPath, Frame
      <3>5. QED
        BY <3>1, <3>2, <3>3, <3>4 DEF SteadyStep
    <2>3. CASE Jump(t, "wsStart")
      <3>1. Moves(t, "jump", Frame("wsStart", c, x), f)
        BY <1>9, <2>1, <2>3, JumpMoves DEF ClientRestart, Ready, Jump
      <3>2. Legal(f, "jump", Frame("wsStart", c, x), f)
        BY <2>1 DEF Legal, ServerLabels, Calling, Bottom, Running, RunLabels,
            LoopLabels, StopLabels, MainLabels, Closers, ClientSuspended, Suspended,
            Frame
      <3>3. LifeAs(t, "jump", Frame("wsStart", c, x), f)
        BY <1>9, <2>1, <2>3 DEF ClientRestart, LifeAs, Brings, Frame
      <3>4. KeepAs(t, "jump", Frame("wsStart", c, x), f)
        BY <1>9, <2>1, <2>3, ReadyFacts, OwnerKept DEF ClientRestart, Brings,
            LoopLabels, SendPath, Frame
      <3>5. QED
        BY <3>1, <3>2, <3>3, <3>4 DEF SteadyStep
    <2>4. QED
      BY <1>9, <2>1, <2>2, <2>3 DEF ClientRestart
  <1>10. CASE ClientDestroy(t)
    <2>1. Ready(t) /\ f.at = "clientDestroy" /\ UNCHANGED made
      BY <1>10, ReadyAt DEF ClientDestroy, ServerLabels
    <2>2. Moves(t, "call", Frame("clientReset", c, x), Frame("clientClose", c, ""))
      BY <1>10, <2>1, CallMoves DEF ClientDestroy, Ready, Call, Emit
    <2>3. Legal(f, "call", Frame("clientReset", c, x), Frame("clientClose", c, ""))
      BY <2>1 DEF Legal, ServerLabels, Calling, Bottom, Running, RunLabels, LoopLabels,
          StopLabels, MainLabels, Closers, ClientSuspended, Suspended, Frame
    <2>4. LifeAs(t, "call", Frame("clientReset", c, x), Frame("clientClose", c, ""))
      BY <1>10, <2>1 DEF ClientDestroy, LifeAs, Brings, Frame
    <2>5. KeepAs(t, "call", Frame("clientReset", c, x), Frame("clientClose", c, ""))
      BY <1>10, <2>1, ReadyFacts, OwnerKept DEF ClientDestroy, Brings, LoopLabels,
          SendPath, Frame
    <2>6. QED
      BY <2>2, <2>3, <2>4, <2>5 DEF SteadyStep
  <1>11. CASE Destroyed(t)
    <2>1. Ready(t) /\ f.at = "destroyed" /\ UNCHANGED made
      BY <1>11, ReadyAt DEF Destroyed, ServerLabels
    <2>2. Moves(t, "return", f, f)
      BY <1>11, <2>1, ReturnMoves DEF Destroyed, Ready
    <2>3. Legal(f, "return", f, f)
      BY <2>1 DEF Legal, ServerLabels, Calling, Bottom, Running, RunLabels, LoopLabels,
          StopLabels, MainLabels, Closers, ClientSuspended, Suspended, Frame
    <2>4. LifeAs(t, "return", f, f)
      BY <1>11, <2>1 DEF Destroyed, LifeAs, Brings, Frame
    <2>5. KeepAs(t, "return", f, f)
      BY <1>11, <2>1, ReadyFacts, OwnerKept DEF Destroyed, Brings, LoopLabels, SendPath,
          Frame
    <2>6. QED
      BY <2>2, <2>3, <2>4, <2>5 DEF SteadyStep
  <1>12. CASE WsStop(t)
    <2>1. Ready(t) /\ f.at = "wsStop" /\ UNCHANGED made
      BY <1>12, ReadyAt DEF WsStop, ServerLabels
    <2>2. CASE Jump(t, "stop")
      <3>1. Moves(t, "jump", Frame("stop", c, x), f)
        BY <1>12, <2>1, <2>2, JumpMoves DEF WsStop, Ready, Jump
      <3>2. Legal(f, "jump", Frame("stop", c, x), f)
        BY <2>1 DEF Legal, ServerLabels, Calling, Bottom, Running, RunLabels,
            LoopLabels, StopLabels, MainLabels, Closers, ClientSuspended, Suspended,
            Frame
      <3>3. LifeAs(t, "jump", Frame("stop", c, x), f)
        BY <1>12, <2>1, <2>2 DEF WsStop, LifeAs, Brings, Frame
      <3>4. KeepAs(t, "jump", Frame("stop", c, x), f)
        BY <1>12, <2>1, <2>2, ReadyFacts, OwnerKept DEF WsStop, Brings, LoopLabels,
            SendPath, Frame
      <3>5. QED
        BY <3>1, <3>2, <3>3, <3>4 DEF SteadyStep
    <2>3. CASE Return(t)
      <3>1. Moves(t, "return", f, f)
        BY <1>12, <2>1, <2>3, ReturnMoves DEF WsStop, Ready
      <3>2. Legal(f, "return", f, f)
        BY <2>1 DEF Legal, ServerLabels, Calling, Bottom, Running, RunLabels,
            LoopLabels, StopLabels, MainLabels, Closers, ClientSuspended, Suspended,
            Frame
      <3>3. LifeAs(t, "return", f, f)
        BY <1>12, <2>1, <2>3 DEF WsStop, LifeAs, Brings, Frame
      <3>4. KeepAs(t, "return", f, f)
        BY <1>12, <2>1, <2>3, ReadyFacts, OwnerKept DEF WsStop, Brings, LoopLabels,
            SendPath, Frame
      <3>5. QED
        BY <3>1, <3>2, <3>3, <3>4 DEF SteadyStep
    <2>4. QED
      BY <1>12, <2>1, <2>2, <2>3 DEF WsStop
  <1>13. CASE WsStart(t)
    <2>1. Ready(t) /\ f.at = "wsStart" /\ UNCHANGED made
      BY <1>13, ReadyAt DEF WsStart, ServerLabels
    <2>2. CASE Call(t, "wsReset", "stop", "")
      <3>1. Moves(t, "call", Frame("wsReset", c, x), Frame("stop", c, ""))
        BY <1>13, <2>1, <2>2, CallMoves DEF WsStart, Ready, Call, Emit
      <3>2. Legal(f, "call", Frame("wsReset", c, x), Frame("stop", c, ""))
        BY <2>1 DEF Legal, ServerLabels, Calling, Bottom, Running, RunLabels,
            LoopLabels, StopLabels, MainLabels, Closers, ClientSuspended, Suspended,
            Frame
      <3>3. LifeAs(t, "call", Frame("wsReset", c, x), Frame("stop", c, ""))
        BY <1>13, <2>1, <2>2 DEF WsStart, LifeAs, Brings, Frame
      <3>4. KeepAs(t, "call", Frame("wsReset", c, x), Frame("stop", c, ""))
        BY <1>13, <2>1, <2>2, ReadyFacts, OwnerKept DEF WsStart, Brings, LoopLabels,
            SendPath, Frame
      <3>5. QED
        BY <3>1, <3>2, <3>3, <3>4 DEF SteadyStep
    <2>3. CASE Jump(t, "wsReset")
      <3>1. Moves(t, "jump", Frame("wsReset", c, x), f)
        BY <1>13, <2>1, <2>3, JumpMoves DEF WsStart, Ready, Jump
      <3>2. Legal(f, "jump", Frame("wsReset", c, x), f)
        BY <2>1 DEF Legal, ServerLabels, Calling, Bottom, Running, RunLabels,
            LoopLabels, StopLabels, MainLabels, Closers, ClientSuspended, Suspended,
            Frame
      <3>3. LifeAs(t, "jump", Frame("wsReset", c, x), f)
        BY <1>13, <2>1, <2>3 DEF WsStart, LifeAs, Brings, Frame
      <3>4. KeepAs(t, "jump", Frame("wsReset", c, x), f)
        BY <1>13, <2>1, <2>3, ReadyFacts, OwnerKept DEF WsStart, Brings, LoopLabels,
            SendPath, Frame
      <3>5. QED
        BY <3>1, <3>2, <3>3, <3>4 DEF SteadyStep
    <2>4. QED
      BY <1>13, <2>1, <2>2, <2>3 DEF WsStart
  <1>14. QED
    BY <1>1, <1>2, <1>3, <1>4, <1>5, <1>6, <1>7, <1>8, <1>9, <1>10, <1>11, <1>12, <1>13

\* The callback sends or closes, or returns.
LEMMA CallbackSteps ==
    ASSUME Usage, NEW t \in Threads, TransportOK, Callback(t)
    PROVE  SteadyStep(t)
  <1> DEFINE f == Top(t)
             c == Top(t).c
  <1>1. Ready(t) /\ f.at = "callback" /\ UNCHANGED <<ws, log, made>>
    BY ReadyAt DEF Callback, ServerLabels
  <1>2. CASE Return(t)
    <2>1. Moves(t, "return", f, f)
      BY <1>1, <1>2, ReturnMoves DEF Ready
    <2>2. Legal(f, "return", f, f)
      BY <1>1 DEF Legal, ServerLabels, StopLabels
    <2>3. LifeAs(t, "return", f, f)
      BY <1>1 DEF LifeAs, Brings
    <2>4. KeepAs(t, "return", f, f)
      BY <1>1, ReadyFacts, OwnerKept DEF Brings, LoopLabels, SendPath
    <2>5. QED
      BY <2>1, <2>2, <2>3, <2>4 DEF SteadyStep
  <1>3. ASSUME NEW op \in Calls, <<f.arg, op>> \in CallbackCalls, JumpWith(t, Entry(op), "data")
        PROVE  SteadyStep(t)
    <2> DEFINE g == Frame(Entry(op), c, "data")
    <2>1. f.arg \in ClientEvents /\ op \in {"send", "close"}
      BY <1>3, ClientAssumption DEF Usage, Calls
    <2>2. g.at \in {"send", "clientClose"} /\ g.c = c
      BY <2>1 DEF Entry, Frame
    <2>3. Moves(t, "jump", g, f)
      BY <1>1, <1>3, JumpMoves DEF Ready
    <2>4. QuietClose => f.arg # "close"
      BY <1>3 DEF QuietClose
    <2> HIDE DEF g
    <2>5. Legal(f, "jump", g, f)
      BY <1>1, <2>2, <2>4 DEF Legal, ServerLabels, Bottom, Running, RunLabels,
          LoopLabels, StopLabels, MainLabels, Closers
    <2>6. LifeAs(t, "jump", g, f)
      BY <1>1, <2>2 DEF LifeAs, Brings
    <2>7. KeepAs(t, "jump", g, f)
      BY <1>1, <2>2, ReadyFacts, OwnerKept DEF Brings, LoopLabels, SendPath
    <2>8. QED
      BY <2>3, <2>5, <2>6, <2>7 DEF SteadyStep
  <1>4. QED
    BY <1>1, <1>2, <1>3 DEF Callback

(***************************************************************************)
(* The steps that give the websocket up: they go on only when stop() has   *)
(* returned, unless there is none.                                         *)
(***************************************************************************)
ResetAs(t, m, g, h) ==
    /\ m # "return"
    /\ Top(t).at \in {"wsReset", "clientReset", "wsRelease"}
    /\ g.at \in {"wsNew", "wsRelease", "destroyed"}
    /\ m = "jump" => ~made[Top(t).c] /\ Top(t).at # "wsRelease"
    /\ m = "call" => h.at # "stopped"
    /\ \A d \in Conns \ {Top(t).c} : made'[d] = made[d]
    /\ UNCHANGED ws

ResetStep(t) ==
    \E m, g, h : /\ Moves(t, m, g, h) /\ Legal(Top(t), m, g, h)
                 /\ ResetAs(t, m, g, h) /\ KeepAs(t, m, g, h)

LEMMA ResetSteps ==
    ASSUME NEW t \in Threads, TransportOK, made \in [Conns -> BOOLEAN],
           WsReset(t) \/ ClientReset(t) \/ WsRelease(t)
    PROVE  ResetStep(t)
  <1> DEFINE f == Top(t)
             c == Top(t).c
             x == Top(t).arg
  <1>1. CASE WsReset(t)
    <2>1. Ready(t) /\ f.at = "wsReset" /\ UNCHANGED <<ws, log>>
      BY <1>1, ReadyAt DEF WsReset, ServerLabels
    <2>2. \A d \in Conns \ {c} : made'[d] = made[d]
      BY <1>1 DEF WsReset
    <2>3. CASE Call(t, "wsNew", "stop", "")
      <3>1. Moves(t, "call", Frame("wsNew", c, x), Frame("stop", c, ""))
        BY <2>1, <2>3, CallMoves DEF Ready, Call
      <3>2. Legal(f, "call", Frame("wsNew", c, x), Frame("stop", c, ""))
        BY <2>1 DEF Legal, ServerLabels, Calling, Bottom, Running, RunLabels,
            LoopLabels, StopLabels, MainLabels, Closers, ClientSuspended, Suspended,
            Frame
      <3>3. ResetAs(t, "call", Frame("wsNew", c, x), Frame("stop", c, ""))
        BY <2>1, <2>2, <2>3 DEF ResetAs, Frame
      <3>4. KeepAs(t, "call", Frame("wsNew", c, x), Frame("stop", c, ""))
        BY <2>1, ReadyFacts, OwnerKept DEF Brings, LoopLabels, SendPath, Frame
      <3>5. QED
        BY <3>1, <3>2, <3>3, <3>4 DEF ResetStep
    <2>4. CASE Jump(t, "wsNew") /\ ~made[c]
      <3>1. Moves(t, "jump", Frame("wsNew", c, x), f)
        BY <2>1, <2>4, JumpMoves DEF Ready, Jump
      <3>2. Legal(f, "jump", Frame("wsNew", c, x), f)
        BY <2>1 DEF Legal, ServerLabels, Calling, Bottom, Running, RunLabels,
            LoopLabels, StopLabels, MainLabels, Closers, ClientSuspended, Suspended,
            Frame
      <3>3. ResetAs(t, "jump", Frame("wsNew", c, x), f)
        BY <2>1, <2>2, <2>4 DEF ResetAs, Frame
      <3>4. KeepAs(t, "jump", Frame("wsNew", c, x), f)
        BY <2>1, ReadyFacts, OwnerKept DEF Brings, LoopLabels, SendPath, Frame
      <3>5. QED
        BY <3>1, <3>2, <3>3, <3>4 DEF ResetStep
    <2>5. QED
      BY <1>1, <2>1, <2>3, <2>4 DEF WsReset
  <1>2. CASE ClientReset(t)
    <2>1. Ready(t) /\ f.at = "clientReset" /\ UNCHANGED <<ws, log>>
      BY <1>2, ReadyAt DEF ClientReset, ServerLabels
    <2>2. \A d \in Conns \ {c} : made'[d] = made[d]
      BY <1>2 DEF ClientReset
    <2>3. CASE Call(t, "wsRelease", "wsStop", "")
      <3>1. Moves(t, "call", Frame("wsRelease", c, x), Frame("wsStop", c, ""))
        BY <2>1, <2>3, CallMoves DEF Ready, Call
      <3>2. Legal(f, "call", Frame("wsRelease", c, x), Frame("wsStop", c, ""))
        BY <2>1 DEF Legal, ServerLabels, Calling, Bottom, Running, RunLabels,
            LoopLabels, StopLabels, MainLabels, Closers, ClientSuspended, Suspended,
            Frame
      <3>3. ResetAs(t, "call", Frame("wsRelease", c, x), Frame("wsStop", c, ""))
        BY <2>1, <2>2, <2>3 DEF ResetAs, Frame
      <3>4. KeepAs(t, "call", Frame("wsRelease", c, x), Frame("wsStop", c, ""))
        BY <2>1, ReadyFacts, OwnerKept DEF Brings, LoopLabels, SendPath, Frame
      <3>5. QED
        BY <3>1, <3>2, <3>3, <3>4 DEF ResetStep
    <2>4. CASE Jump(t, "destroyed") /\ ~made[c]
      <3>1. Moves(t, "jump", Frame("destroyed", c, x), f)
        BY <2>1, <2>4, JumpMoves DEF Ready, Jump
      <3>2. Legal(f, "jump", Frame("destroyed", c, x), f)
        BY <2>1 DEF Legal, ServerLabels, Calling, Bottom, Running, RunLabels,
            LoopLabels, StopLabels, MainLabels, Closers, ClientSuspended, Suspended,
            Frame
      <3>3. ResetAs(t, "jump", Frame("destroyed", c, x), f)
        BY <2>1, <2>2, <2>4 DEF ResetAs, Frame
      <3>4. KeepAs(t, "jump", Frame("destroyed", c, x), f)
        BY <2>1, ReadyFacts, OwnerKept DEF Brings, LoopLabels, SendPath, Frame
      <3>5. QED
        BY <3>1, <3>2, <3>3, <3>4 DEF ResetStep
    <2>5. QED
      BY <1>2, <2>1, <2>3, <2>4 DEF ClientReset
  <1>3. CASE WsRelease(t)
    <2>1. Ready(t) /\ f.at = "wsRelease" /\ UNCHANGED <<ws, log>>
      BY <1>3, ReadyAt DEF WsRelease, ServerLabels
    <2>2. \A d \in Conns \ {c} : made'[d] = made[d]
      BY <1>3 DEF WsRelease
    <2>3. CASE Call(t, "destroyed", "stop", "")
      <3>1. Moves(t, "call", Frame("destroyed", c, x), Frame("stop", c, ""))
        BY <2>1, <2>3, CallMoves DEF Ready, Call
      <3>2. Legal(f, "call", Frame("destroyed", c, x), Frame("stop", c, ""))
        BY <2>1 DEF Legal, ServerLabels, Calling, Bottom, Running, RunLabels,
            LoopLabels, StopLabels, MainLabels, Closers, ClientSuspended, Suspended,
            Frame
      <3>3. ResetAs(t, "call", Frame("destroyed", c, x), Frame("stop", c, ""))
        BY <2>1, <2>2, <2>3 DEF ResetAs, Frame
      <3>4. KeepAs(t, "call", Frame("destroyed", c, x), Frame("stop", c, ""))
        BY <2>1, ReadyFacts, OwnerKept DEF Brings, LoopLabels, SendPath, Frame
      <3>5. QED
        BY <3>1, <3>2, <3>3, <3>4 DEF ResetStep
    <2>4. QED
      BY <1>3, <2>1, <2>3 DEF WsRelease
  <1>4. QED
    BY <1>1, <1>2, <1>3

\* What the application's thread alone runs is alone in it.
LEMMA MainTop ==
    ASSUME NEW t \in Threads, StacksOK, Placed, stk[t] # <<>>, Top(t).at \in MainLabels
    PROVE  t \in Apps /\ Len(stk[t]) = 1 /\ stk[t][1] = Top(t)
  <1> DEFINE n == Len(stk[t])
  <1>1. n \in Nat /\ n >= 1 /\ Top(t) = stk[t][n]
    BY LastFrame
  <1>2. ASSUME n > 1
        PROVE  Calling(stk[t][n - 1], stk[t][n])
    BY <1>1, <1>2 DEF Placed
  <1>3. n = 1
    <2>1. ~(n > 1)
      BY <1>1, <1>2 DEF Calling, Bottom
    <2> HIDE DEF n
    <2>2. QED
      BY <1>1, <2>1
  <1>4. t \notin Conns
    BY <1>1, <1>3 DEF Placed
  <1>5. QED
    BY <1>1, <1>3, <1>4 DEF Threads

\* The thread of a websocket given up is known to have ended when stop() returns.
LEMMA ResetLife ==
    ASSUME Usage, NEW t \in Threads, StacksOK, StacksOK', stk[t] # <<>>, Placed, ThreadLife,
           NEW m, NEW g, NEW h, Moves(t, m, g, h), Legal(Top(t), m, g, h),
           ResetAs(t, m, g, h), NEW c \in Conns, c = Top(t).c
    PROVE  ThreadLife'
  <1>1. t \in Apps /\ Len(stk[t]) = 1 /\ stk[t][1] = Top(t) /\ \A u \in Apps : u = t
    BY MainTop DEF ResetAs, MainLabels, Usage
  <1>2. \A d \in Conns : stk'[d] = stk[d]
    BY <1>1, TransportAssumption DEF Moves, Threads
  <1>3. stk'[t] # <<>> /\ stk'[t][1] = g /\ g.c = c
    BY <1>1 DEF Moves, StacksOK, ResetAs, Legal
  <1>4. Top(t).at \in {"wsReset", "clientReset", "wsRelease"}
        /\ g.at \in {"wsNew", "wsRelease", "destroyed"} /\ m # "return"
    BY DEF ResetAs
  <1>5. ASSUME NEW d \in Conns, ~made[d], stk[d] # <<>>
        PROVE  d = c /\ m # "jump"
    <2>1. First(t, d, {"wsNew", "wsRelease", "destroyed"})
      BY <1>1, <1>5 DEF ThreadLife, UnmadeEnded
    <2>2. d = c /\ Top(t).at = "wsRelease"
      BY <1>1, <1>4, <2>1 DEF First
    <2>3. QED
      BY <2>2 DEF ResetAs
  <1>6. RunsJoinable'
    BY <1>2 DEF ThreadLife, RunsJoinable, ResetAs
  <1>7. UnmadeEnded'
    <2> SUFFICES ASSUME NEW d \in Conns, ~made'[d], stk[d] # <<>>
                 PROVE  First(t, d, {"wsNew", "wsRelease", "destroyed"})'
      BY <1>1, <1>2 DEF UnmadeEnded
    <2>1. d = c
      BY <1>5 DEF ResetAs
    <2>2. QED
      BY <1>3, <1>4, <2>1 DEF First
  <1>8. StartsNew'
    BY <1>1, <1>3, <1>4 DEF StartsNew, First
  <1>9. StoppedEnded'
    <2> SUFFICES ASSUME NEW d \in Conns, g.c = d, g.at \in {"wsNew", "destroyed"},
                        Len(stk'[t]) = 1 \/ stk'[t][2].at = "stopped"
                 PROVE  stk[d] = <<>>
      BY <1>1, <1>2, <1>3 DEF StoppedEnded, First
    <2>1. d = c
      BY <1>3
    <2>2. m = "jump" \/ m = "call"
      BY <1>4 DEF Moves
    <2>3. CASE m = "jump"
      BY <1>5, <2>1, <2>3 DEF ResetAs
    <2>4. CASE m = "call"
      BY <1>1, <2>4 DEF Moves, ResetAs
    <2>5. QED
      BY <2>2, <2>3, <2>4
  <1>10. QED
    BY <1>6, <1>7, <1>8, <1>9 DEF ThreadLife

-----------------------------------------------------------------------------
(* The steps keep ClientInv.                                               *)

\* A thread that moves is on a connection.
LEMMA LegalFrame ==
    ASSUME NEW t \in Threads, StacksOK, NEW m, NEW g, NEW h, Moves(t, m, g, h),
           Legal(Top(t), m, g, h)
    PROVE  stk[t] # <<>> /\ Top(t).c \in Conns
  <1>1. stk[t] # <<>>
    BY DEF Moves
  <1>2. Len(stk[t]) \in 1 .. Len(stk[t]) /\ Top(t) = stk[t][Len(stk[t])]
    BY <1>1, LastFrame
  <1>3. QED
    BY <1>1, <1>2 DEF Legal, StacksOK, FrameOK

LEMMA SteadyKept ==
    ASSUME NEW t \in Threads, TransportOK, StacksOK', ClientInv, SteadyStep(t)
    PROVE  ClientInv'
  <1>1. PICK m, g, h : /\ Moves(t, m, g, h) /\ Legal(Top(t), m, g, h)
                       /\ LifeAs(t, m, g, h) /\ KeepAs(t, m, g, h)
    BY DEF SteadyStep
  <1>2. StacksOK /\ SocketsOK /\ Placed /\ ThreadLife /\ stk[t] # <<>>
    BY <1>1, LegalFrame DEF TransportOK, ClientInv
  <1>3. Placed' /\ ThreadLife'
    BY <1>1, <1>2, PlacedStep, LifeKept
  <1>4. ASSUME NEW d \in Conns
        PROVE  ConnectionOK(d)'
    <2>1. ConnectionOK(d)
      BY DEF ClientInv, ConnectionLife
    <2>2. CASE d = Top(t).c
      BY <1>1, <1>2, <2>1, <2>2, ConnectionKept
    <2>3. CASE d # Top(t).c
      <3>1. Untouched(d)
        BY <1>1, <2>3 DEF KeepAs
      <3>2. QED
        BY <1>1, <1>2, <2>1, <2>3, <3>1, OtherConnection
    <2>4. QED
      BY <2>2, <2>3
  <1>5. QED
    BY <1>3, <1>4 DEF ClientInv, ConnectionLife

LEMMA OpeningInv ==
    ASSUME NEW t \in Threads, TransportOK, StacksOK', ClientInv, OpeningStep(t)
    PROVE  ClientInv'
  <1>1. PICK m, g, h : /\ Moves(t, m, g, h) /\ Legal(Top(t), m, g, h)
                       /\ LifeAs(t, m, g, h) /\ OpenAs(t, m, g, h)
    BY DEF OpeningStep
  <1>2. StacksOK /\ SocketsOK /\ Placed /\ ThreadLife /\ stk[t] # <<>>
    BY <1>1, LegalFrame DEF TransportOK, ClientInv
  <1>3. Placed' /\ ThreadLife'
    BY <1>1, <1>2, PlacedStep, LifeKept
  <1>4. ASSUME NEW d \in Conns
        PROVE  ConnectionOK(d)'
    <2>1. ConnectionOK(d)
      BY DEF ClientInv, ConnectionLife
    <2>2. CASE d = Top(t).c
      BY <1>1, <1>2, <2>1, <2>2, OpeningKept
    <2>3. CASE d # Top(t).c
      <3>1. Untouched(d)
        BY <1>1, <2>3 DEF OpenAs
      <3>2. QED
        BY <1>1, <1>2, <2>1, <2>3, <3>1, OtherConnection
    <2>4. QED
      BY <2>2, <2>3
  <1>5. QED
    BY <1>3, <1>4 DEF ClientInv, ConnectionLife

LEMMA ResetInv ==
    ASSUME Usage, NEW t \in Threads, TransportOK, StacksOK', ClientInv, ResetStep(t)
    PROVE  ClientInv'
  <1>1. PICK m, g, h : /\ Moves(t, m, g, h) /\ Legal(Top(t), m, g, h)
                       /\ ResetAs(t, m, g, h) /\ KeepAs(t, m, g, h)
    BY DEF ResetStep
  <1>2. StacksOK /\ SocketsOK /\ Placed /\ ThreadLife /\ stk[t] # <<>> /\ Top(t).c \in Conns
    BY <1>1, LegalFrame DEF TransportOK, ClientInv
  <1>3. Placed' /\ ThreadLife'
    BY <1>1, <1>2, PlacedStep, ResetLife
  <1>4. ASSUME NEW d \in Conns
        PROVE  ConnectionOK(d)'
    <2>1. ConnectionOK(d)
      BY DEF ClientInv, ConnectionLife
    <2>2. CASE d = Top(t).c
      BY <1>1, <1>2, <2>1, <2>2, ConnectionKept
    <2>3. CASE d # Top(t).c
      <3>1. Untouched(d)
        BY <1>1, <2>3 DEF KeepAs
      <3>2. QED
        BY <1>1, <1>2, <2>1, <2>3, <3>1, OtherConnection
    <2>4. QED
      BY <2>2, <2>3
  <1>5. QED
    BY <1>3, <1>4 DEF ClientInv, ConnectionLife

\* start() writes two fields.
LEMMA StartedSocket ==
    ASSUME NEW old \in SocketType, NEW new,
           new = [old EXCEPT !.joinable = TRUE, !.first = TRUE]
    PROVE  /\ new.joinable /\ new.first
           /\ new.st = old.st /\ new.sk = old.sk /\ new.tx = old.tx /\ new.fd = old.fd
  BY DEF SocketType

\* A new websocket: its thread has ended, and it has no connection yet.
LEMMA NewInv ==
    ASSUME Usage, NEW t \in Threads, TypeOK, StacksOK', ClientInv, WsNew(t),
           NEW c \in Conns, c = Top(t).c
    PROVE  ClientInv'
  <1> DEFINE f == Top(t)
             x == Top(t).arg
             g == Frame("start", c, x)
             h == Frame("close", c, "")
  <1>1. Ready(t) /\ f.at = "wsNew" /\ TransportOK /\ StacksOK /\ SocketsOK
    BY ReadyAt DEF WsNew, ServerLabels, TypeOK, TransportOK
  <1>2. Placed /\ ThreadLife
    BY DEF ClientInv
  <1>3. t \in Apps /\ Len(stk[t]) = 1 /\ stk[t][1] = f /\ \A u \in Apps : u = t
    BY <1>1, <1>2, MainTop DEF Ready, MainLabels, Usage
  <1>4. Moves(t, "call", g, h)
    BY <1>1, CallMoves DEF WsNew, Ready, Call
  <1>5. Legal(f, "call", g, h)
    BY <1>1 DEF Legal, ServerLabels, Calling, Bottom, Running, RunLabels, LoopLabels,
        StopLabels, MainLabels, Closers, ClientSuspended, Suspended, Frame
  <1>6. Placed'
    BY <1>1, <1>2, <1>4, <1>5, PlacedStep DEF Ready
  <1>7. stk[c] = <<>>
    <2>1. First(t, c, {"wsNew", "destroyed"})
      BY <1>1, <1>3 DEF First, Ready
    <2>2. QED
      BY <1>2, <1>3, <2>1 DEF ThreadLife, StoppedEnded
  <1>8. \A d \in Conns : stk'[d] = stk[d]
    BY <1>3, <1>4, TransportAssumption DEF Moves, Threads
  <1>f. g.at = "start" /\ g.c = c /\ h.at = "close" /\ h.c = c
    BY DEF Frame
  <1>9. stk'[t] # <<>> /\ stk'[t][1] = g /\ stk'[t][2] = h /\ Len(stk'[t]) = 2
    <2>1. Len(stk'[t]) = 1 + 1 /\ stk'[t][1] = g /\ stk'[t][1 + 1] = h
      BY <1>3, <1>4 DEF Moves
    <2>2. stk'[t] \in Seq(FrameType)
      BY DEF StacksOK
    <2>3. 1 + 1 = 2
      OBVIOUS
    <2> HIDE DEF g, h
    <2>4. Len(stk'[t]) = 2 /\ stk'[t][1] = g /\ stk'[t][2] = h
      BY <2>1, <2>3
    <2>5. stk'[t] # <<>>
      BY <2>2, <2>4, FewFrames
    <2>6. QED
      BY <2>4, <2>5
  <1> HIDE DEF g, h
  <1>10. /\ \A d \in Conns \ {c} : ws'[d] = ws[d] /\ log'[d] = log[d] /\ made'[d] = made[d]
         /\ ws'[c] = Fresh /\ log'[c] = <<>> /\ made'[c]
    BY <1>1 DEF WsNew, TypeOK, TransportOK, SocketsOK, LogsOK
  <1>11. ThreadLife'
    <2>1. RunsJoinable'
      BY <1>2, <1>7, <1>8, <1>10 DEF ThreadLife, RunsJoinable
    <2>2. \A d \in Conns \ {c} : ~First(t, d, {"wsNew", "wsRelease", "destroyed"})
      BY <1>3 DEF First
    <2>3. UnmadeEnded'
      BY <1>2, <1>3, <1>8, <1>10, <2>2 DEF ThreadLife, UnmadeEnded
    <2>4. StartsNew'
      BY <1>3, <1>7, <1>8, <1>9, <1>10, <1>f DEF StartsNew, First, Fresh
    <2>5. StoppedEnded'
      BY <1>3, <1>9, <1>f DEF StoppedEnded, First
    <2>6. QED
      BY <2>1, <2>3, <2>4, <2>5 DEF ThreadLife
  <1>12. ASSUME NEW S, "start" \notin S, "close" \notin S
         PROVE  Nowhere(c, S)'
    <2> SUFFICES ASSUME NEW u \in Threads, NEW i \in 1 .. Len(stk'[u]), stk'[u][i].c = c
                 PROVE  stk'[u][i].at \notin S
      BY DEF Nowhere
    <2>1. CASE u = t
      <3>1. i \in {1, 2}
        BY <1>9, <2>1, FewFrames DEF StacksOK
      <3>2. QED
        BY <1>9, <1>12, <1>f, <2>1, <3>1
    <2>2. CASE u \in Conns
      <3>1. stk'[u] = stk[u] /\ stk[u] \in Seq(FrameType)
        BY <1>1, <1>8, <2>2 DEF StacksOK
      <3>2. stk[u] # <<>>
        BY <3>1, FewFrames
      <3>3. stk[u][i].c = u
        BY <1>2, <2>2, <3>1, <3>2 DEF Placed
      <3>4. QED
        BY <1>7, <3>1, <3>2, <3>3
    <2>3. QED
      BY <1>3, <2>1, <2>2 DEF Threads
  <1>13. ConnectionOK(c)'
    <2>1. HandshakeLock(c)' /\ SendLock(c)'
      BY <1>10 DEF HandshakeLock, SendLock, Fresh
    <2>2. FirstAttempt(c)'
      BY <1>7, <1>8 DEF FirstAttempt
    <2>3. \A e : ~Logged(c, e)'
      BY <1>10 DEF Logged
    <2>4. Nowhere(c, SendPath)'
      BY <1>12 DEF SendPath
    <2>5. UnopenedClosed(c)' /\ NoOutcomeYet(c)'
      BY <1>10, <2>3, <2>4 DEF UnopenedClosed, NoOutcomeYet, Fresh
    <2>6. EndShut(c)'
      BY <1>10 DEF EndShut, Fresh
    <2>7. QED
      BY <2>1, <2>2, <2>5, <2>6 DEF ConnectionOK
  <1>14. ASSUME NEW d \in Conns, d # c
         PROVE  ConnectionOK(d)'
    <2>1. Untouched(d)
      BY <1>10, <1>14 DEF Untouched
    <2>2. QED
      BY <1>1, <1>2, <1>4, <1>5, <1>14, <2>1, OtherConnection DEF Ready, ClientInv, ConnectionLife
  <1>15. QED
    BY <1>6, <1>11, <1>13, <1>14 DEF ClientInv, ConnectionLife

\* The thread of a new websocket begins.
LEMMA StartInv ==
    ASSUME Usage, NEW t \in Threads, TypeOK, StacksOK', ClientInv, UNCHANGED made,
           NEW c \in Conns, c = Top(t).c, At(t, "start"), UNCHANGED log,
           ws' = [ws EXCEPT ![c].joinable = TRUE, ![c].first = TRUE],
           stk' = [stk EXCEPT ![t] = Pop(@), ![c] = <<Frame("check", c, "")>>]
    PROVE  ClientInv'
  <1> DEFINE f == Top(t)
             g == Frame("check", c, "")
  <1>1. Ready(t) /\ f.at = "start" /\ TransportOK /\ StacksOK /\ SocketsOK
    BY ReadyAt DEF ServerLabels, TypeOK, TransportOK
  <1>2. Placed /\ ThreadLife
    BY DEF ClientInv
  <1>3. t \in Apps /\ Len(stk[t]) = 1 /\ stk[t][1] = f /\ \A u \in Apps : u = t
    BY <1>1, <1>2, MainTop DEF Ready, MainLabels, Usage
  <1>4. stk[c] = <<>> /\ made[c] /\ ws[c].first
    <2>1. First(t, c, {"start"})
      BY <1>1, <1>3 DEF First, Ready
    <2>2. QED
      BY <1>2, <1>3, <2>1 DEF ThreadLife, StartsNew
  <1>5. t # c
    BY <1>3, TransportAssumption
  <1>6. /\ stk'[t] = <<>> /\ stk'[c] = <<g>>
        /\ \A u \in Threads \ {t, c} : stk'[u] = stk[u]
    <2>1. Pop(stk[t]) = <<>>
      <3>1. stk[t] \in Seq(FrameType)
        BY <1>1 DEF StacksOK
      <3>2. QED
        BY <1>3, <3>1, PopOne
    <2>2. QED
      BY <1>1, <1>5, <2>1 DEF StacksOK, Threads
  <1>7. \A d \in Conns \ {c} : stk'[d] = stk[d] /\ ws'[d] = ws[d] /\ log'[d] = log[d]
    BY <1>1, <1>3, <1>6, TransportAssumption DEF Threads, SocketsOK
  <1>8. /\ ws'[c].joinable /\ ws'[c].first /\ log'[c] = log[c]
        /\ ws'[c].st = ws[c].st /\ ws'[c].sk = ws[c].sk /\ ws'[c].tx = ws[c].tx
        /\ ws'[c].fd = ws[c].fd
    <2>1. ws[c] \in SocketType /\ ws'[c] = [ws[c] EXCEPT !.joinable = TRUE, !.first = TRUE]
      BY <1>1 DEF SocketsOK
    <2>2. QED
      BY <2>1, StartedSocket
  <1>10. g.at = "check" /\ g.c = c
    BY DEF Frame
  <1> HIDE DEF g
  <1>9. Len(stk'[c]) = 1 /\ stk'[c][1] = g /\ stk'[c] # <<>>
    BY <1>6, OneFrame
  <1>s. \A u \in Threads : stk'[u] \in Seq(FrameType) /\ stk[u] \in Seq(FrameType)
    BY <1>1 DEF StacksOK
  <1>11. Placed'
    <2> SUFFICES ASSUME NEW u \in Threads
                 PROVE  /\ \A i \in 1 .. Len(stk'[u]) : stk'[u][i].c = stk'[u][1].c
                        /\ \A i \in 1 .. Len(stk'[u]) - 1 :
                              Calling(stk'[u][i], stk'[u][i + 1])
                        /\ u \in Conns /\ stk'[u] # <<>> =>
                              stk'[u][1].c = u /\ stk'[u][1].at \notin MainLabels
      BY DEF Placed
    <2>1. CASE u = t
      <3>1. stk'[u] = <<>> /\ Len(stk'[u]) = 0
        BY <1>6, <1>s, <2>1, FewFrames
      <3>2. (\A i : i \notin 1 .. Len(stk'[u])) /\ (\A i : i \notin 1 .. Len(stk'[u]) - 1)
        BY <1>s, <3>1, FewFrames
      <3>3. QED
        BY <3>1, <3>2
    <2>2. CASE u = c
      BY <1>9, <1>10, <1>s, <2>2, FewFrames DEF MainLabels
    <2>3. CASE u \in Threads \ {t, c}
      <3>1. stk'[u] = stk[u]
        BY <1>6, <2>3
      <3>2. /\ \A i \in 1 .. Len(stk[u]) : stk[u][i].c = stk[u][1].c
            /\ \A i \in 1 .. Len(stk[u]) - 1 : Calling(stk[u][i], stk[u][i + 1])
            /\ u \in Conns /\ stk[u] # <<>> =>
                  stk[u][1].c = u /\ stk[u][1].at \notin MainLabels
        BY <1>2 DEF Placed
      <3>3. QED
        BY <3>1, <3>2
    <2>4. QED
      BY <2>1, <2>2, <2>3
  <1>12. ThreadLife'
    <2>1. RunsJoinable'
      BY <1>2, <1>7, <1>8 DEF ThreadLife, RunsJoinable
    <2>2. \A d \in Conns : ~First(t, d, {"wsNew", "wsRelease", "destroyed"})
      BY <1>1, <1>3 DEF First
    <2>3. UnmadeEnded'
      BY <1>2, <1>3, <1>4, <1>7, <2>2 DEF ThreadLife, UnmadeEnded
    <2>4. StartsNew' /\ StoppedEnded'
      BY <1>3, <1>6 DEF StartsNew, StoppedEnded, First
    <2>5. QED
      BY <2>1, <2>3, <2>4 DEF ThreadLife
  <1>13. ASSUME NEW d \in Conns, NEW S, Nowhere(d, S), "check" \notin S
         PROVE  Nowhere(d, S)'
    <2> SUFFICES ASSUME NEW u \in Threads, NEW i \in 1 .. Len(stk'[u]), stk'[u][i].c = d
                 PROVE  stk'[u][i].at \notin S
      BY DEF Nowhere
    <2>1. u # t
      BY <1>6, <1>s, FewFrames
    <2>2. CASE u = c
      <3>1. i = 1
        BY <1>9, <1>s, <2>2, FewFrames
      <3>2. QED
        BY <1>9, <1>10, <1>13, <2>2, <3>1
    <2>3. CASE u # c
      BY <1>6, <1>13, <2>1, <2>3 DEF Nowhere
    <2>4. QED
      BY <2>2, <2>3
  <1>14. ASSUME NEW d \in Conns, ConnectionOK(d)
         PROVE  SendLock(d)'
    <2> DEFINE u == ws[d].tx
    <2> SUFFICES ASSUME u # Nobody
                 PROVE  \E i \in 1 .. Len(stk'[u]) :
                            stk'[u][i].c = d /\ stk'[u][i].at \in Pushers
      <3>1. ws'[d].tx = ws[d].tx
        BY <1>7, <1>8
      <3>2. QED
        BY <3>1 DEF SendLock
    <2>0. u \in Threads
      BY <1>1 DEF SocketsOK, SocketType
    <2>1. PICK i \in 1 .. Len(stk[u]) : stk[u][i].c = d /\ stk[u][i].at \in Pushers
      BY <1>14 DEF ConnectionOK, SendLock
    <2>2. u # c
      BY <1>4, <1>s, <2>0, <2>1, FewFrames
    <2>3. u # t
      <3>1. f.at \notin Pushers
        BY <1>1 DEF Pushers
      <3>2. u = t => i = 1
        BY <1>3, <1>s, <2>0, <2>1, FewFrames
      <3>3. QED
        BY <1>3, <2>1, <3>1, <3>2
    <2>4. stk'[u] = stk[u]
      BY <1>6, <2>0, <2>2, <2>3
    <2>5. QED
      BY <2>1, <2>4
  <1>15. ConnectionOK(c)'
    <2>1. ConnectionOK(c) /\ Unopened(c)
      BY <1>4 DEF ClientInv, ConnectionLife, Unopened
    <2>2. HandshakeLock(c)'
      BY <1>4, <1>8, <2>1 DEF ConnectionOK, HandshakeLock, First
    <2>3. FirstAttempt(c)'
      BY <1>9, <1>10 DEF FirstAttempt
    <2>4. \A e : Logged(c, e)' <=> Logged(c, e)
      BY DEF Logged
    <2>5. Nowhere(c, SendPath)'
      BY <1>13, <2>1 DEF ConnectionOK, UnopenedClosed, SendPath
    <2>6. UnopenedClosed(c)' /\ NoOutcomeYet(c)'
      BY <1>8, <2>1, <2>4, <2>5 DEF ConnectionOK, UnopenedClosed, NoOutcomeYet
    <2>7. EndShut(c)'
      BY <1>8, <2>1, <2>4, <2>5
         DEF ConnectionOK, UnopenedClosed, EndShut, Nowhere, Closers, SendPath
    <2>8. QED
      BY <1>14, <2>1, <2>2, <2>3, <2>6, <2>7 DEF ConnectionOK
  <1>16. ASSUME NEW d \in Conns, d # c
         PROVE  ConnectionOK(d)'
    <2>1. ConnectionOK(d) /\ stk'[d] = stk[d] /\ ws'[d] = ws[d] /\ log'[d] = log[d]
      BY <1>7, <1>16 DEF ClientInv, ConnectionLife
    <2>2. Nowhere(d, SendPath) => Nowhere(d, SendPath)'
      BY <1>13 DEF SendPath
    <2>3. Nowhere(d, Closers) => Nowhere(d, Closers)'
      BY <1>13 DEF Closers
    <2>4. SendLock(d)'
      BY <1>14, <2>1
    <2>5. QED
      BY <2>1, <2>2, <2>3, <2>4 DEF ConnectionOK, HandshakeLock, FirstAttempt, UnopenedClosed,
         NoOutcomeYet, EndShut, Unopened, First, Logged
  <1>17. QED
    BY <1>11, <1>12, <1>15, <1>16 DEF ClientInv, ConnectionLife

\* start() begins a thread, or finds one.
LEMMA StartSteps ==
    ASSUME Usage, NEW t \in Threads, TypeOK, StacksOK', ClientInv, Start(t), UNCHANGED made
    PROVE  ClientInv'
  <1> DEFINE f == Top(t)
             c == Top(t).c
  <1>1. Ready(t) /\ f.at = "start" /\ TransportOK /\ UNCHANGED log
    BY ReadyAt DEF Start, ServerLabels, TypeOK
  <1>2. CASE Return(t) /\ UNCHANGED ws
    <2>1. Moves(t, "return", f, f)
      BY <1>1, <1>2, ReturnMoves DEF Ready
    <2>2. Legal(f, "return", f, f)
      BY <1>1 DEF Legal, ServerLabels, StopLabels
    <2>3. LifeAs(t, "return", f, f)
      BY <1>1, <1>2 DEF LifeAs, Brings
    <2>4. KeepAs(t, "return", f, f)
      BY <1>1, <1>2, ReadyFacts, OwnerKept DEF Brings, LoopLabels, SendPath
    <2>5. QED
      BY <1>1, <2>1, <2>2, <2>3, <2>4, SteadyKept DEF SteadyStep
  <1>3. CASE /\ ws' = [ws EXCEPT ![c].joinable = TRUE, ![c].first = TRUE]
             /\ stk' = [stk EXCEPT ![t] = Pop(@), ![c] = <<Frame("check", c, "")>>]
    BY <1>1, <1>3, StartInv DEF Ready, At
  <1>4. QED
    BY <1>2, <1>3 DEF Start

\* The application's one thread makes a call.
LEMMA CallInv ==
    ASSUME Usage, NEW t \in Apps, NEW c \in Conns, NEW op \in Calls, TypeOK, StacksOK',
           ClientInv, AppCall(t, c, op)
    PROVE  ClientInv'
  <1> DEFINE g == Frame(Entry(op), c, "data")
  <1>1. StacksOK /\ SocketsOK /\ Placed /\ ThreadLife
    BY DEF TypeOK, TransportOK, ClientInv
  <1>2. UNCHANGED <<ws, log, made>> /\ stk[t] = <<>>
    BY DEF AppCall
  <1>3. t \in Threads /\ t \notin Conns /\ \A u \in Apps : u = t
    BY TransportAssumption DEF Threads, Usage
  <1>4. g.at \in {"clientConnect", "clientClose", "send", "clientDestroy"} /\ g.c = c
    BY DEF Frame, Entry, Calls
  <1>5. stk'[t] = <<g>> /\ \A u \in Threads \ {t} : stk'[u] = stk[u]
    BY <1>1, <1>3 DEF AppCall, StacksOK
  <1> HIDE DEF g
  <1>6. Len(stk'[t]) = 1 /\ stk'[t][1] = g /\ stk'[t] # <<>>
    BY <1>5, OneFrame
  <1>7. \A u \in Threads : stk'[u] \in Seq(FrameType) /\ stk[u] \in Seq(FrameType)
    BY <1>1 DEF StacksOK
  <1>8. \A d \in Conns : stk'[d] = stk[d]
    BY <1>3, <1>5 DEF Threads
  <1>9. Placed'
    <2> SUFFICES ASSUME NEW u \in Threads
                 PROVE  /\ \A i \in 1 .. Len(stk'[u]) : stk'[u][i].c = stk'[u][1].c
                        /\ \A i \in 1 .. Len(stk'[u]) - 1 :
                              Calling(stk'[u][i], stk'[u][i + 1])
                        /\ u \in Conns /\ stk'[u] # <<>> =>
                              stk'[u][1].c = u /\ stk'[u][1].at \notin MainLabels
      BY DEF Placed
    <2>1. CASE u = t
      BY <1>3, <1>6, <1>7, <2>1, FewFrames
    <2>2. CASE u # t
      <3>1. stk'[u] = stk[u]
        BY <1>5, <2>2
      <3>2. /\ \A i \in 1 .. Len(stk[u]) : stk[u][i].c = stk[u][1].c
            /\ \A i \in 1 .. Len(stk[u]) - 1 : Calling(stk[u][i], stk[u][i + 1])
            /\ u \in Conns /\ stk[u] # <<>> =>
                  stk[u][1].c = u /\ stk[u][1].at \notin MainLabels
        BY <1>1 DEF Placed
      <3>3. QED
        BY <3>1, <3>2
    <2>3. QED
      BY <2>1, <2>2
  <1>10. ThreadLife'
    <2>1. RunsJoinable'
      BY <1>1, <1>2, <1>8 DEF ThreadLife, RunsJoinable
    <2>2. UnmadeEnded'
      BY <1>1, <1>2, <1>3, <1>8 DEF ThreadLife, UnmadeEnded, First
    <2>3. StartsNew' /\ StoppedEnded'
      BY <1>3, <1>4, <1>6 DEF StartsNew, StoppedEnded, First
    <2>4. QED
      BY <2>1, <2>2, <2>3 DEF ThreadLife
  <1>11. ASSUME NEW d \in Conns, NEW S, Nowhere(d, S), g.at \notin S
         PROVE  Nowhere(d, S)'
    <2> SUFFICES ASSUME NEW u \in Threads, NEW i \in 1 .. Len(stk'[u]), stk'[u][i].c = d
                 PROVE  stk'[u][i].at \notin S
      BY DEF Nowhere
    <2>1. CASE u = t
      <3>1. i = 1
        BY <1>6, <1>7, <2>1, FewFrames
      <3>2. QED
        BY <1>6, <1>11, <2>1, <3>1
    <2>2. CASE u # t
      BY <1>5, <1>11, <2>2 DEF Nowhere
    <2>3. QED
      BY <2>1, <2>2
  <1>12. ASSUME NEW d \in Conns
         PROVE  ConnectionOK(d)'
    <2>1. ConnectionOK(d)
      BY DEF ClientInv, ConnectionLife
    <2>2. Nowhere(d, SendPath) => Nowhere(d, SendPath)'
      BY <1>4, <1>11 DEF SendPath
    <2>3. Nowhere(d, Closers) => Nowhere(d, Closers)'
      BY <1>4, <1>11 DEF Closers
    <2>4. SendLock(d)'
      <3> DEFINE u == ws[d].tx
      <3> SUFFICES ASSUME u # Nobody
                   PROVE  \E i \in 1 .. Len(stk'[u]) :
                              stk'[u][i].c = d /\ stk'[u][i].at \in Pushers
        BY <1>2 DEF SendLock
      <3>1. u \in Threads
        BY <1>1 DEF SocketsOK, SocketType
      <3>2. PICK i \in 1 .. Len(stk[u]) : stk[u][i].c = d /\ stk[u][i].at \in Pushers
        BY <2>1 DEF ConnectionOK, SendLock
      <3>3. u # t
        BY <1>2, <1>7, <3>1, <3>2, FewFrames
      <3>4. QED
        BY <1>5, <3>1, <3>2, <3>3
    <2>5. QED
      BY <1>2, <1>8, <2>1, <2>2, <2>3, <2>4
         DEF ConnectionOK, HandshakeLock, FirstAttempt, UnopenedClosed, NoOutcomeYet,
             EndShut, Unopened, First, Logged
  <1>13. QED
    BY <1>9, <1>10, <1>12 DEF ClientInv, ConnectionLife

\* The peer, the network and the clock change nothing that ClientInv speaks of.
LEMMA QuietInv ==
    ASSUME ClientInv, UNCHANGED <<stk, log, made>>,
           \A d \in Conns : Untouched(d) /\ ws'[d].joinable = ws[d].joinable
    PROVE  ClientInv'
  <1>1. Placed'
    BY DEF ClientInv, Placed
  <1>2. ThreadLife'
    BY DEF ClientInv, ThreadLife, RunsJoinable, UnmadeEnded, StartsNew, StoppedEnded, First,
       Untouched
  <1>3. ASSUME NEW d \in Conns
        PROVE  ConnectionOK(d)'
    <2>1. ConnectionOK(d)
      BY DEF ClientInv, ConnectionLife
    <2>2. QED
      BY <2>1 DEF ConnectionOK, HandshakeLock, FirstAttempt, UnopenedClosed, NoOutcomeYet,
         EndShut, SendLock, Unopened, First, Logged, Nowhere, Untouched
  <1>4. QED
    BY <1>1, <1>2, <1>3 DEF ClientInv, ConnectionLife

LEMMA EnvironmentInv ==
    ASSUME NEW c \in Conns, TransportOK, ClientInv, Environment(c), UNCHANGED made
    PROVE  ClientInv'
  <1>1. UNCHANGED <<stk, log>>
    BY DEF Environment, PeerSend, PeerAnswer, PeerPong, Break, ClosingDelay, PingInterval
  <1>2. ASSUME NEW d \in Conns
        PROVE  Untouched(d) /\ ws'[d].joinable = ws[d].joinable
    <2>1. CASE UNCHANGED ws
      BY <1>1, <2>1 DEF Untouched
    <2>2. CASE ws' = [ws EXCEPT ![c].late = TRUE]
      BY <1>1, <2>2 DEF Untouched, TransportOK, SocketsOK, SocketType
    <2>3. CASE ws' = [ws EXCEPT ![c].pingDue = TRUE]
      BY <1>1, <2>3 DEF Untouched, TransportOK, SocketsOK, SocketType
    <2>4. QED
      BY <2>1, <2>2, <2>3
         DEF Environment, PeerSend, PeerAnswer, PeerPong, Break, ClosingDelay, PingInterval
  <1>3. QED
    BY <1>1, <1>2, QuietInv

LEMMA InitInv == Init => ClientInv
  <1> SUFFICES ASSUME Init PROVE ClientInv
    OBVIOUS
  <1>1. /\ \A t \in Threads : stk[t] = <<>> /\ Len(stk[t]) = 0
        /\ \A i : i \notin 1 .. 0 /\ i \notin 1 .. 0 - 1
    BY DEF Init
  <1>2. \A c \in Conns : ws[c] = Fresh /\ log[c] = <<>>
    BY DEF Init
  <1>3. Placed
    BY <1>1 DEF Placed
  <1>4. ThreadLife
    BY <1>1 DEF ThreadLife, RunsJoinable, UnmadeEnded, StartsNew, StoppedEnded, First, Threads
  <1>5. ASSUME NEW c \in Conns
        PROVE  ConnectionOK(c)
    <2>1. \A S : Nowhere(c, S)
      BY <1>1 DEF Nowhere
    <2>2. \A e : ~Logged(c, e)
      BY <1>2 DEF Logged
    <2>3. QED
      BY <1>1, <1>2, <2>1, <2>2
         DEF ConnectionOK, HandshakeLock, FirstAttempt, UnopenedClosed, NoOutcomeYet,
             EndShut, SendLock, Fresh, Threads
  <1>6. QED
    BY <1>3, <1>4, <1>5 DEF ClientInv, ConnectionLife

\* The kinds of steps a thread takes.
LEMMA ThreadKinds ==
    ASSUME Usage, NEW t \in Threads, TypeOK, ClientInv, ThreadStep(t)
    PROVE  \/ SteadyStep(t) \/ OpeningStep(t) \/ ResetStep(t) \/ WsNew(t)
           \/ Start(t) /\ UNCHANGED made
  <1>1. TransportOK /\ Placed /\ ThreadLife /\ made \in [Conns -> BOOLEAN]
    BY DEF TypeOK, ClientInv
  <1>2. CASE WebSocketStep(t) /\ UNCHANGED made
    <2>1. CASE PlainStep(t)
      BY <1>1, <1>2, <2>1, PlainSteady
    <2>2. CASE \/ Connect(t) \/ Handshake(t) \/ Upgrade(t) \/ UpgradeFails(t)
               \/ Upgraded(t) \/ Open(t)
      BY <1>1, <1>2, <2>2, OpeningSteps
    <2>3. CASE Check(t)
      BY <1>1, <1>2, <2>3, CheckSteps
    <2>4. CASE Stop(t) \/ StopThread(t) \/ Join(t) \/ Stopped(t)
      BY <1>1, <1>2, <2>4, OwnerSteps
    <2>5. QED
      BY <1>1, <1>2, <2>1, <2>2, <2>3, <2>4, WebSocketSteps
  <1>3. CASE \/ ClientClose(t) \/ ClientStop(t) \/ ClientClosed(t)
             \/ ClientConnect(t) \/ ClientRestart(t) \/ ClientDestroy(t) \/ Destroyed(t)
             \/ WsStop(t) \/ WsStart(t)
    BY <1>1, <1>3, OwnerSteps
  <1>4. CASE Callback(t)
    BY <1>1, <1>4, CallbackSteps
  <1>5. CASE WsReset(t) \/ ClientReset(t) \/ WsRelease(t)
    BY <1>1, <1>5, ResetSteps
  <1>6. QED
    BY <1>2, <1>3, <1>4, <1>5 DEF ThreadStep

\* A thread's step.
LEMMA ThreadInv ==
    ASSUME Usage, NEW t \in Threads, TypeOK, TypeOK', ClientInv, ThreadStep(t)
    PROVE  ClientInv'
  <1>1. TransportOK /\ StacksOK'
    BY DEF TypeOK, TransportOK
  <1>2. CASE SteadyStep(t) \/ OpeningStep(t)
    BY <1>1, <1>2, SteadyKept, OpeningInv
  <1>3. CASE ResetStep(t)
    BY <1>1, <1>3, ResetInv
  <1>4. CASE WsNew(t)
    <2>1. Ready(t)
      BY <1>1, <1>4, ReadyAt DEF WsNew, ServerLabels
    <2>2. QED
      BY <1>1, <1>4, <2>1, NewInv DEF Ready
  <1>5. CASE Start(t) /\ UNCHANGED made
    BY <1>1, <1>5, StartSteps
  <1>6. QED
    BY <1>2, <1>3, <1>4, <1>5, ThreadKinds

-----------------------------------------------------------------------------
(* The invariant.                                                          *)

LEMMA NextInv ==
    ASSUME Usage, TypeOK, TypeOK', ClientInv, [Next]_vars
    PROVE  ClientInv'
  <1>1. TransportOK /\ StacksOK'
    BY DEF TypeOK, TransportOK
  <1>2. ASSUME NEW t \in Apps, NEW c \in Conns, NEW op \in Calls, AppCall(t, c, op)
        PROVE  ClientInv'
    BY <1>1, <1>2, CallInv
  <1>3. ASSUME NEW t \in Threads, ThreadStep(t)
        PROVE  ClientInv'
    BY <1>3, ThreadInv
  <1>4. ASSUME NEW c \in Conns, Environment(c), UNCHANGED <<made, calls>>
        PROVE  ClientInv'
    BY <1>1, <1>4, EnvironmentInv
  <1>5. CASE UNCHANGED vars
    BY <1>5, QuietInv DEF vars, Untouched
  <1>6. QED
    BY <1>2, <1>3, <1>4, <1>5 DEF Next, Finished

(***************************************************************************)
(* Whatever the peer, the network and the interleaving, and however often  *)
(* the application connects, closes and sends, ClientInv holds, if one of  *)
(* its threads owns the client and the callback does not connect.          *)
(***************************************************************************)
THEOREM InvariantHolds == ASSUME Usage PROVE Spec => []ClientInv
  <1>1. TypeOK /\ TypeOK' /\ ClientInv /\ [Next]_vars => ClientInv'
    BY NextInv
  <1>2. QED
    BY <1>1, InitInv, TypeCorrect, PTL DEF Spec

=============================================================================

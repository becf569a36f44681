---------------------------- MODULE ServerProofs ----------------------------
(***************************************************************************)
(* The safety of the server: its types, the lists that the acceptor, the   *)
(* connections' threads, the collector and stop() keep, the order in which *)
(* stop() ends the threads, and the map of the endpoints, for any number   *)
(* of connections and users.                                               *)
(***************************************************************************)
EXTENDS ServerInvariant, ControlProofs

-----------------------------------------------------------------------------
(* Threads and their stages.                                               *)

\* What a thread runs first, nobody calls.
LEMMA RolesOuter ==
    ASSUME NEW t
    PROVE  Role(t) \cap Inner = {} /\ "none" \notin Role(t)
  BY DEF Role, Inner, LoopLabels, MethodLabels

LEMMA Roles ==
    /\ Acceptor \in Threads /\ Acceptor \notin Conns
    /\ Collector \in Threads /\ Collector \notin Conns /\ Acceptor # Collector
    /\ \A u \in Users : u \in Threads /\ u \notin Conns /\ u # Acceptor /\ u # Collector
    /\ \A t \in Threads : t \in Conns \/ t = Acceptor \/ t = Collector \/ t \in Users
  BY ServerAssumption, TransportAssumption DEF Threads, Users

LEMMA StageRole ==
    ASSUME NEW t \in Threads, Placed
    PROVE  /\ Stage(t) = "none" <=> stk[t] = <<>>
           /\ Stage(t) # "none" => Stage(t) \in Role(t)
  BY RolesOuter DEF Placed, Stage

\* A thread in what it runs first has one frame ...
LEMMA OuterTop ==
    ASSUME NEW t \in Threads, StacksOK, Placed, stk[t] # <<>>, Top(t).at \notin Inner
    PROVE  /\ Len(stk[t]) = 1 /\ stk[t][1] = Top(t)
           /\ Stage(t) = Top(t).at /\ Top(t).at \in Role(t)
           /\ t \in Conns => Top(t).c = t
  <1> DEFINE n == Len(stk[t])
  <1>1. n \in Nat /\ n >= 1 /\ Top(t) = stk[t][n]
    BY LastFrame
  <1>2. \A i \in 2 .. n : stk[t][i].at \in Inner
    BY DEF Placed
  <1> HIDE DEF n
  <1>3. n = 1
    <2>1. n \notin 2 .. n
      BY <1>1, <1>2
    <2>2. QED
      BY <1>1, <2>1
  <1>4. 1 \in 1 .. n
    BY <1>3
  <1>5. QED
    BY <1>1, <1>3, <1>4 DEF n, Stage, Placed

\* ... and one in what it has called has more.
LEMMA InnerTop ==
    ASSUME NEW t \in Threads, StacksOK, Placed, stk[t] # <<>>, Top(t).at \in Inner
    PROVE  /\ Len(stk[t]) > 1 /\ Stage(t) = stk[t][1].at
           /\ Stage(t) \in {"served", "srvClose"}
           /\ t # Acceptor /\ t # Collector
           /\ t \in Conns => Stage(t) = "served" /\ Top(t).c = t
  <1> DEFINE n == Len(stk[t])
  <1>1. n \in Nat /\ n >= 1 /\ Top(t) = stk[t][n]
    BY LastFrame
  <1>2. n # 1
    BY <1>1, RolesOuter DEF Placed
  <1>3. n > 1 /\ n \in 1 .. n
    <2> HIDE DEF n
    <2>1. QED
      BY <1>1, <1>2
  <1>4. stk[t][1].at \in {"served", "srvClose"} /\ stk[t][1].at \in Role(t)
    BY <1>3 DEF Placed
  <1>5. QED
    BY <1>1, <1>3, <1>4, Roles DEF Stage, Role, Placed

-----------------------------------------------------------------------------
(* How the stages change.                                                  *)

\* Thread t comes to stage s, and the others stay where they are.
Stages(t, s) ==
    /\ Stage(t)' = s
    /\ \A u \in Threads \ {t} : stk'[u] = stk[u] /\ Stage(u)' = Stage(u)

\* A step inside a called method.
InnerMove(t) ==
    \E m, g, h :
        /\ Moves(t, m, g, h) /\ Top(t).at \in Inner
        /\ m # "return" => g.at \in Inner /\ g.c = Top(t).c
        /\ m = "call" => h.at \in Inner /\ h.c = Top(t).c

LEMMA InnerKept ==
    ASSUME NEW t \in Threads, StacksOK, StacksOK', Placed, InnerMove(t)
    PROVE  /\ Placed' /\ Stages(t, Stage(t))
           /\ t # Acceptor /\ t # Collector
  <1>1. PICK m, g, h :
            /\ Moves(t, m, g, h) /\ Top(t).at \in Inner
            /\ m # "return" => g.at \in Inner /\ g.c = Top(t).c
            /\ m = "call" => h.at \in Inner /\ h.c = Top(t).c
    BY DEF InnerMove
  <1> DEFINE n == Len(stk[t])
             k == Len(stk'[t])
  <1>2. n \in Nat /\ n > 1 /\ Top(t) = stk[t][n] /\ t # Acceptor /\ t # Collector
    BY <1>1, InnerTop, LastFrame DEF Moves
  <1>3. k \in Nat /\ k >= 1 /\ stk'[t][1] = stk[t][1]
    <2>1. k \in Nat /\ k \in {n - 1, n, n + 1} /\ \A i \in 1 .. n - 1 : stk'[t][i] = stk[t][i]
      BY <1>1 DEF Moves, StacksOK
    <2> HIDE DEF n, k
    <2>2. QED
      BY <1>2, <2>1
  <1>4. stk'[t] # <<>>
    BY <1>3
  <1>5. Stage(t)' = Stage(t)
    BY <1>1, <1>3, <1>4 DEF Stage, Moves
  <1>6. \A u \in Threads \ {t} : stk'[u] = stk[u] /\ Stage(u)' = Stage(u)
    BY <1>1 DEF Moves, Stage
  <1>7. ASSUME NEW i \in 1 .. k
        PROVE  \/ i < n /\ stk'[t][i] = stk[t][i]
               \/ i = n /\ m # "return" /\ stk'[t][i] = g
               \/ i = n + 1 /\ m = "call" /\ stk'[t][i] = h
    BY <1>1, FramesAfter DEF Moves
  <1>8. \A i \in 2 .. k : stk'[t][i].at \in Inner
    <2> SUFFICES ASSUME NEW i \in 2 .. k PROVE stk'[t][i].at \in Inner
      OBVIOUS
    <2>1. i \in 1 .. k /\ (i < n => i \in 2 .. n)
      <3> HIDE DEF n, k
      <3>1. QED
        BY <1>2, <1>3
    <2>2. CASE i < n /\ stk'[t][i] = stk[t][i]
      BY <1>1, <2>1, <2>2 DEF Placed, Moves
    <2>3. QED
      BY <1>1, <1>7, <2>1, <2>2
  <1>9. t \in Conns => \A i \in 1 .. k : stk'[t][i].c = t
    <2> SUFFICES ASSUME t \in Conns, NEW i \in 1 .. k PROVE stk'[t][i].c = t
      OBVIOUS
    <2>1. \A j \in 1 .. n : stk[t][j].c = t
      BY <1>1 DEF Placed, Moves
    <2>2. Top(t).c = t /\ (i < n => i \in 1 .. n)
      <3> HIDE DEF n, k
      <3>1. n \in 1 .. n /\ (i < n => i \in 1 .. n)
        BY <1>2, <1>3
      <3>2. QED
        BY <1>2, <2>1, <3>1
    <2>3. QED
      BY <1>1, <1>7, <2>1, <2>2
  <1>10. Placed'
    <2> SUFFICES ASSUME NEW u \in Threads, stk'[u] # <<>>
                 PROVE  /\ stk'[u][1].at \in Role(u)
                        /\ Len(stk'[u]) > 1 => stk'[u][1].at \in {"served", "srvClose"}
                        /\ \A i \in 2 .. Len(stk'[u]) : stk'[u][i].at \in Inner
                        /\ u \in Conns => \A i \in 1 .. Len(stk'[u]) : stk'[u][i].c = u
      BY DEF Placed
    <2>1. CASE u = t
      <3>1. stk[t][1].at \in Role(t) /\ stk[t][1].at \in {"served", "srvClose"}
        BY <1>1, <1>2 DEF Placed, Moves
      <3>2. QED
        BY <1>3, <1>8, <1>9, <2>1, <3>1
    <2>2. CASE u # t
      BY <1>6, <2>2 DEF Placed
    <2>3. QED
      BY <2>1, <2>2
  <1>11. QED
    BY <1>2, <1>5, <1>6, <1>10 DEF Stages

\* A step of what a thread runs first.
LEMMA OuterKept ==
    ASSUME NEW t \in Threads, StacksOK, StacksOK', Placed, stk[t] # <<>>,
           NEW m, NEW g, NEW h, Moves(t, m, g, h), Top(t).at \notin Inner,
           m # "return" => g.at \in Role(t) /\ (t \in Conns => g.c = t),
           m = "call" => /\ g.at \in {"served", "srvClose"} /\ h.at \in Inner
                         /\ t \in Conns => h.c = t
    PROVE  /\ Placed' /\ Stages(t, IF m = "return" THEN "none" ELSE g.at)
           /\ m # "return" => stk'[t] # <<>> /\ stk'[t][1] = g
  <1>1. Len(stk[t]) = 1 /\ stk[t][1] = Top(t)
    BY OuterTop
  <1>2. \A u \in Threads \ {t} : stk'[u] = stk[u] /\ Stage(u)' = Stage(u)
    BY DEF Moves, Stage
  <1>3. ASSUME stk'[t] # <<>> =>
                  /\ stk'[t][1].at \in Role(t)
                  /\ Len(stk'[t]) > 1 => stk'[t][1].at \in {"served", "srvClose"}
                  /\ \A i \in 2 .. Len(stk'[t]) : stk'[t][i].at \in Inner
                  /\ t \in Conns => \A i \in 1 .. Len(stk'[t]) : stk'[t][i].c = t
        PROVE  Placed'
    BY <1>2, <1>3 DEF Placed
  <1>4. stk'[t] \in Seq(FrameType) /\ m \in {"return", "jump", "call"}
    BY DEF StacksOK, Moves
  <1>5. CASE m = "return"
    <2>1. stk'[t] = <<>>
      <3>1. Len(stk'[t]) = 1 - 1 /\ 1 - 1 = 0
        BY <1>1, <1>5 DEF Moves
      <3>2. QED
        BY <1>4, <3>1, FewFrames
    <2>2. QED
      BY <1>2, <1>5, <2>1 DEF Placed, Stages, Stage
  <1>6. CASE m = "jump"
    <2>1. Len(stk'[t]) = 1 /\ stk'[t][1] = g
      BY <1>1, <1>6 DEF Moves
    <2>2. /\ stk'[t] # <<>> /\ \A i \in 1 .. Len(stk'[t]) : i = 1
          /\ \A i \in 2 .. Len(stk'[t]) : FALSE
      <3>1. stk'[t] # <<>> /\ \A i \in 1 .. Len(stk'[t]) : i = 1
        BY <1>4, <2>1, FewFrames
      <3>2. \A i \in 2 .. 1 : FALSE
        OBVIOUS
      <3>3. QED
        BY <2>1, <3>1, <3>2
    <2>3. Placed'
      BY <1>6, <1>3, <2>1, <2>2
    <2>4. Stage(t)' = g.at
      BY <2>1, <2>2 DEF Stage
    <2>5. QED
      BY <1>2, <1>6, <2>1, <2>2, <2>3, <2>4 DEF Stages
  <1>7. CASE m = "call"
    <2>1. Len(stk'[t]) = 2 /\ stk'[t][1] = g /\ stk'[t][2] = h
      <3>1. Len(stk'[t]) = 1 + 1 /\ stk'[t][1] = g /\ stk'[t][1 + 1] = h /\ 1 + 1 = 2
        BY <1>1, <1>7 DEF Moves
      <3> HIDE DEF Moves
      <3>2. QED
        BY <3>1
    <2>2. /\ stk'[t] # <<>> /\ \A i \in 1 .. Len(stk'[t]) : i \in {1, 2}
          /\ \A i \in 2 .. Len(stk'[t]) : i = 2
      <3>1. stk'[t] # <<>> /\ \A i \in 1 .. Len(stk'[t]) : i \in {1, 2}
        BY <1>4, <2>1, FewFrames
      <3>2. \A i \in 2 .. 2 : i = 2
        OBVIOUS
      <3>3. QED
        BY <2>1, <3>1, <3>2
    <2>3. Placed'
      BY <1>7, <1>3, <2>1, <2>2
    <2>4. Stage(t)' = g.at
      BY <2>1, <2>2 DEF Stage
    <2>5. QED
      BY <1>2, <1>7, <2>1, <2>2, <2>3, <2>4 DEF Stages
  <1>8. QED
    BY <1>4, <1>5, <1>6, <1>7

-----------------------------------------------------------------------------
(* The steps of ix::WebSocket and its transport.                           *)

\* A move inside, when the frames it leaves and calls are known.
LEMMA JumpInner ==
    ASSUME NEW t \in Threads, StacksOK, stk[t] # <<>>, Top(t).at \in Inner,
           NEW label \in Inner, NEW x, JumpWith(t, label, x)
    PROVE  InnerMove(t)
  <1>1. Moves(t, "jump", Frame(label, Top(t).c, x), Top(t))
    BY JumpMoves
  <1>2. QED
    BY <1>1 DEF InnerMove, Frame

LEMMA ReturnInner ==
    ASSUME NEW t \in Threads, StacksOK, stk[t] # <<>>, Top(t).at \in Inner, Return(t)
    PROVE  InnerMove(t)
  <1>1. Moves(t, "return", Top(t), Top(t))
    BY ReturnMoves
  <1>2. QED
    BY <1>1 DEF InnerMove

LEMMA CallInner ==
    ASSUME NEW t \in Threads, StacksOK, stk[t] # <<>>, Top(t).at \in Inner,
           NEW label \in Inner, NEW callee \in Inner, NEW y, NEW x,
           CallFrom(t, label, y, callee, x)
    PROVE  InnerMove(t)
  <1>1. Moves(t, "call", Frame(label, Top(t).c, y), Frame(callee, Top(t).c, x))
    BY CallMoves
  <1>2. QED
    BY <1>1 DEF InnerMove, Frame

\* The connection's thread and stop() run the transport inside their own work.
LEMMA TransportInner ==
    ASSUME NEW t \in Threads, TransportOK, Placed, WebSocketStep(t)
    PROVE  InnerMove(t)
  <1>1. StacksOK
    BY DEF TransportOK
  <1>2. LoopLabels \subseteq Inner /\ MethodLabels \ {"start"} \subseteq Inner
    BY DEF Inner, LoopLabels
  <1>3. CASE PlainStep(t)
    <2>1. PICK m, g, h : Moves(t, m, g, h) /\ PlainAs(t, m, g, h)
      BY <1>3 DEF PlainStep
    <2>2. PlainPoints \subseteq Inner /\ Followers \subseteq Inner /\ Callees \subseteq Inner
      BY DEF PlainPoints, Followers, Callees, Inner, LoopLabels, MethodLabels, RunLabels,
         SendPath
    <2>3. QED
      BY <2>1, <2>2 DEF PlainAs, Passes, InnerMove
  <1>4. ASSUME NEW label \in LoopLabels \cup (MethodLabels \ {"start"}), At(t, label)
        PROVE  Top(t).at \in Inner /\ stk[t] # <<>>
    BY <1>2, <1>4 DEF At
  <1>5. {"check", "connect", "handshake", "upgrade", "upgraded", "open", "opened", "loop"}
            \subseteq LoopLabels
    BY DEF LoopLabels
  <1>6. {"callback", "stop", "stopThread", "join", "stopped", "close"}
            \subseteq MethodLabels \ {"start"}
    BY DEF MethodLabels
  <1>7. CASE Check(t)
    BY <1>1, <1>2, <1>4, <1>5, <1>7, JumpInner DEF Check
  <1>8. CASE Connect(t)
    BY <1>1, <1>2, <1>4, <1>5, <1>6, <1>8, JumpInner, CallInner DEF Connect, Jump, Emit, Call
  <1>9. CASE Handshake(t) \/ Upgrade(t) \/ Upgraded(t)
    BY <1>1, <1>2, <1>4, <1>5, <1>9, JumpInner DEF Handshake, Upgrade, Upgraded, Jump
  <1>10. CASE UpgradeFails(t) \/ Open(t)
    BY <1>1, <1>2, <1>4, <1>5, <1>6, <1>10, CallInner DEF UpgradeFails, Open, Emit, Call
  <1>11. CASE Start(t)
    <2>1. stk[t] # <<>> /\ Top(t).at = "start" /\ "start" \notin Inner
      BY <1>11 DEF Start, At, Inner
    <2>2. "start" \in Role(t)
      BY <1>1, <2>1, OuterTop
    <2>3. QED
      BY <2>2 DEF Role
  <1>12. CASE Stop(t)
    BY <1>1, <1>2, <1>4, <1>6, <1>12, CallInner DEF Stop, Call
  <1>13. CASE StopThread(t) \/ Join(t)
    BY <1>1, <1>2, <1>4, <1>6, <1>13, JumpInner DEF StopThread, Join, Jump
  <1>14. CASE Stopped(t)
    BY <1>1, <1>2, <1>4, <1>6, <1>14, ReturnInner DEF Stopped
  <1>15. QED
    BY <1>3, <1>7, <1>8, <1>9, <1>10, <1>11, <1>12, <1>13, <1>14, WebSocketSteps

-----------------------------------------------------------------------------
(* Types.                                                                  *)

\* The frames of the server's code that run on a connection.
LEMMA ServeFrame ==
    ASSUME NEW c \in Conns, NEW x \in Args, NEW label \in ServeLabels
    PROVE  GoodFrame(c, Frame(label, c, x))
  BY DEF GoodFrame, FrameOK, FrameType, Frame, Labels, LoopLabels, ServeLabels,
         ServerLabels, MethodLabels, OwnerLabels

LEMMA BudgetStep ==
    ASSUME NEW op \in Calls, calls \in [Calls -> Nat], calls[op] > 0,
           calls' = [calls EXCEPT ![op] = @ - 1]
    PROVE  calls' \in [Calls -> Nat]
  OBVIOUS

EndpointsOK == eps \in [of : SUBSET Taken, mutex : Threads \cup {Nobody}]

CallsOK == calls \in [Calls -> Nat]

\* The steps inside a connection's thread or a stop().
InnerStep(t) ==
    \/ WebSocketStep(t) /\ UNCHANGED <<srv, eps, calls>>
    \/ ConnectToSocket(t) \/ ServerHandshake(t) \/ ServerUpgrade(t) \/ ServerUpgradeFails(t)
    \/ OnOpen(t) \/ OpenDone(t) \/ OnMessage(t) \/ Erase(t) \/ Release(t) \/ Event(t)

LEMMA HandshakeTypes ==
    ASSUME NEW t \in Threads, TypeOK, Placed,
           ConnectToSocket(t) \/ ServerHandshake(t) \/ ServerUpgrade(t) \/ ServerUpgradeFails(t)
    PROVE  /\ TransportOK' /\ InnerMove(t)
           /\ UNCHANGED <<srv, eps, calls>>
  <1> USE DEF TransportOK
  <1> DEFINE c == Top(t).c
             x == Top(t).arg
             hs == {"connectToSocket", "serverHandshake", "serverUpgrade"}
             here == /\ c \in Conns /\ x \in Args /\ stk[t] # <<>> /\ ws[c] \in SocketType
                     /\ net[c] \in PeerType /\ t = c /\ Top(t).at \in Inner
  <1>1. TransportOK /\ StacksOK /\ hs \subseteq ServeLabels /\ hs \subseteq Inner
        /\ "upgraded" \in LoopLabels /\ "upgraded" \in Inner
    BY DEF TypeOK, ServeLabels, Inner, LoopLabels
  <1>2. ASSUME NEW label \in hs, At(t, label)
        PROVE  here
    <2>1. label \notin ServerLabels
      BY DEF ServerLabels
    <2>2. QED
      BY <1>1, <1>2, <2>1, AtFrame
  <1>3. CASE ConnectToSocket(t)
    <2>1. here
      BY <1>2, <1>3 DEF ConnectToSocket
    <2>2. StacksOK' /\ InnerMove(t)
      BY <1>1, <1>3, <2>1, ServeFrame, JumpOK, JumpInner DEF ConnectToSocket, Jump
    <2>3. [ws[c] EXCEPT !.sk = t, !.fd = "open"] \in SocketType
      BY <2>1 DEF SocketType
    <2>4. SocketsOK'
      <3>1. ws' = [ws EXCEPT ![c] = [ws[c] EXCEPT !.sk = t, !.fd = "open"]]
        BY <1>3 DEF ConnectToSocket
      <3>2. QED
        BY <1>1, <2>1, <2>3, <3>1, SocketStep
    <2>5. QED
      BY <1>1, <1>3, <2>2, <2>4 DEF ConnectToSocket, PeersOK, LogsOK
  <1>4. CASE ServerHandshake(t)
    <2>1. here
      BY <1>2, <1>4 DEF ServerHandshake
    <2>2. StacksOK' /\ InnerMove(t)
      BY <1>1, <1>4, <2>1, ServeFrame, JumpOK, JumpInner DEF ServerHandshake, Jump
    <2>3. [ws[c] EXCEPT !.cancel = FALSE] \in SocketType
      BY <2>1 DEF SocketType
    <2>4. SocketsOK'
      BY <1>1, <1>4, <2>1, <2>3, SocketStep DEF ServerHandshake
    <2>5. QED
      BY <1>1, <1>4, <2>2, <2>4 DEF ServerHandshake, PeersOK, LogsOK
  <1>5. CASE ServerUpgrade(t)
    <2>1. here
      BY <1>2, <1>5 DEF ServerUpgrade
    <2>2. StacksOK' /\ InnerMove(t)
      BY <1>1, <1>5, <2>1, LoopFrame, JumpOK, JumpInner DEF ServerUpgrade, Jump
    <2>3. [net[c] EXCEPT !.up = TRUE] \in PeerType
      BY <2>1 DEF PeerType
    <2>4. PeersOK'
      BY <1>1, <1>5, <2>1, <2>3, PeerStep DEF ServerUpgrade
    <2>5. QED
      BY <1>1, <1>5, <2>2, <2>4 DEF ServerUpgrade, SocketsOK, LogsOK
  <1>6. CASE ServerUpgradeFails(t)
    <2>1. here
      BY <1>2, <1>6 DEF ServerUpgradeFails
    <2>2. StacksOK' /\ InnerMove(t)
      BY <1>1, <1>6, <2>1, ReturnOK, ReturnInner DEF ServerUpgradeFails
    <2>3. [ws[c] EXCEPT !.sk = Nobody] \in SocketType
      BY <2>1 DEF SocketType
    <2>4. SocketsOK'
      BY <1>1, <1>6, <2>1, <2>3, SocketStep DEF ServerUpgradeFails
    <2>5. QED
      BY <1>1, <1>6, <2>2, <2>4 DEF ServerUpgradeFails, PeersOK, LogsOK
  <1>7. QED
    BY <1>3, <1>4, <1>5, <1>6

\* The map of the endpoints has connections that were accepted.
LEMMA EndpointTypes ==
    ASSUME NEW t \in Threads, TypeOK, Placed, Accounted,
           OnOpen(t) \/ OpenDone(t) \/ OnMessage(t) \/ Erase(t) \/ Release(t) \/ Event(t)
    PROVE  /\ TransportOK' /\ EndpointsOK' /\ CallsOK' /\ InnerMove(t)
           /\ UNCHANGED srv
  <1> USE DEF TransportOK
  <1> DEFINE c == Top(t).c
             x == Top(t).arg
             own == {"event", "openDone", "erase", "release"}
             mine == own \cup {"callback", "stop", "send", "close"}
             here == c \in Conns /\ x \in Args /\ stk[t] # <<>> /\ Top(t).at \in Inner
  <1>1. TransportOK /\ StacksOK /\ mine \subseteq Inner
        /\ own \cup {"stop", "close"} \subseteq PlainLabels
        /\ {"open", "data"} \subseteq Args
    BY DEF TypeOK, Inner, MethodLabels, PlainLabels, SendLabels, Labels, LoopLabels,
       ServeLabels, ServerLabels, OwnerLabels, Args, Kinds, Events, LoopEvents
  <1>2. ASSUME NEW label \in mine, At(t, label)
        PROVE  here
    <2>1. label \notin ServerLabels
      BY DEF ServerLabels
    <2>2. QED
      BY <1>1, <1>2, <2>1, AtFrame
  <1>3. EndpointsOK /\ CallsOK
    BY DEF TypeOK, EndpointsOK, CallsOK, Taken
  <1>4. UNCHANGED srv => Taken' = Taken
    BY DEF Taken
  <1>5. ASSUME NEW label \in own \cup {"stop", "close"}, NEW y \in Args, c \in Conns
        PROVE  GoodFrame(t, Frame(label, c, y))
    BY <1>1, <1>5, PlainFrame
  <1>6. CASE OnOpen(t)
    <2>1. here
      BY <1>2, <1>6 DEF OnOpen
    <2>2. StacksOK' /\ InnerMove(t)
      BY <1>1, <1>5, <1>6, <2>1, CallOK, CallInner DEF OnOpen, Call
    <2>3. c \in Taken
      BY <1>6 DEF OnOpen, Accounted
    <2>4. EndpointsOK'
      BY <1>3, <1>4, <1>6, <2>3 DEF OnOpen, EndpointsOK
    <2>5. QED
      BY <1>1, <1>3, <1>6, <2>2, <2>4 DEF OnOpen, CallsOK, SocketsOK, PeersOK, LogsOK
  <1>7. CASE OpenDone(t)
    <2>1. here
      BY <1>2, <1>7 DEF OpenDone
    <2>2. StacksOK' /\ InnerMove(t)
      BY <1>1, <1>7, <2>1, ReturnOK, ReturnInner DEF OpenDone
    <2>3. EndpointsOK'
      BY <1>3, <1>4, <1>7 DEF OpenDone, EndpointsOK
    <2>4. QED
      BY <1>1, <1>3, <1>7, <2>2, <2>3 DEF OpenDone, CallsOK, SocketsOK, PeersOK, LogsOK
  <1>8. CASE OnMessage(t)
    <2>1. here
      BY <1>2, <1>8 DEF OnMessage
    <2>2. StacksOK' /\ InnerMove(t)
      <3>1. CASE Return(t)
        BY <1>1, <2>1, <3>1, ReturnOK, ReturnInner
      <3>2. ASSUME NEW label \in {"erase", "release"}, Call(t, label, "event", x)
            PROVE  StacksOK' /\ InnerMove(t)
        BY <1>1, <1>5, <2>1, <3>2, CallOK, CallInner DEF Call
      <3>3. QED
        BY <1>8, <3>1, <3>2 DEF OnMessage
    <2>3. QED
      BY <1>1, <1>3, <1>4, <1>8, <2>2
         DEF OnMessage, EndpointsOK, CallsOK, SocketsOK, PeersOK, LogsOK
  <1>9. CASE Erase(t)
    <2>1. here
      BY <1>2, <1>9 DEF Erase
    <2>2. StacksOK' /\ InnerMove(t)
      BY <1>1, <1>5, <1>9, <2>1, JumpOK, JumpInner DEF Erase, Jump
    <2>3. EndpointsOK'
      BY <1>3, <1>4, <1>9 DEF Erase, EndpointsOK
    <2>4. QED
      BY <1>1, <1>3, <1>9, <2>2, <2>3 DEF Erase, CallsOK, SocketsOK, PeersOK, LogsOK
  <1>10. CASE Release(t)
    <2>1. here
      BY <1>2, <1>10 DEF Release
    <2>2. StacksOK' /\ InnerMove(t)
      BY <1>1, <1>5, <1>10, <2>1, JumpOK, JumpInner, ReturnOK, ReturnInner DEF Release, Jump
    <2>3. QED
      BY <1>1, <1>3, <1>4, <1>10, <2>2
         DEF Release, EndpointsOK, CallsOK, SocketsOK, PeersOK, LogsOK
  <1>11. CASE Event(t)
    <2>1. here
      BY <1>2, <1>11 DEF Event
    <2>2. CASE Return(t) /\ UNCHANGED calls
      BY <1>1, <1>3, <1>4, <1>11, <2>1, <2>2, ReturnOK, ReturnInner
         DEF Event, EndpointsOK, CallsOK, SocketsOK, PeersOK, LogsOK
    <2>3. ASSUME NEW op \in {"send", "close"}, calls[op] > 0,
                 calls' = [calls EXCEPT ![op] = @ - 1], JumpWith(t, op, "data")
          PROVE  StacksOK' /\ InnerMove(t) /\ CallsOK'
      <3>1. GoodFrame(t, Frame(op, c, "data"))
        BY <1>1, <1>5, <2>1, SendFrame DEF Kinds, SendLabels
      <3>2. op \in Inner /\ op \in Calls
        BY <1>1 DEF Calls
      <3>3. QED
        BY <1>1, <1>3, <2>1, <2>3, <3>1, <3>2, JumpOK, JumpInner, BudgetStep DEF CallsOK
    <2>4. QED
      BY <1>1, <1>3, <1>4, <1>11, <2>2, <2>3
         DEF Event, EndpointsOK, SocketsOK, PeersOK, LogsOK
  <1>12. QED
    BY <1>6, <1>7, <1>8, <1>9, <1>10, <1>11

-----------------------------------------------------------------------------
(* What a thread runs first.                                               *)

\* The frames that run on no connection.
LEMMA ServerLabelFrame ==
    ASSUME NEW t, NEW c \in Conns \cup {Nobody}, NEW x \in Args, NEW label \in ServerLabels
    PROVE  GoodFrame(t, Frame(label, c, x))
  BY DEF GoodFrame, FrameOK, FrameType, Frame, Labels, LoopLabels, ServeLabels, ServerLabels

LEMMA AcceptedFrame ==
    ASSUME NEW t, NEW c \in Conns, NEW x \in Args
    PROVE  GoodFrame(t, Frame("accepted", c, x))
  BY DEF GoodFrame, FrameOK, FrameType, Frame, Labels, LoopLabels, ServeLabels, ServerLabels,
         OwnerLabels

LEMMA OuterAt ==
    ASSUME NEW t \in Threads, StacksOK, Placed, NEW label, label \notin Inner, At(t, label)
    PROVE  /\ stk[t] # <<>> /\ GoodFrame(t, Top(t)) /\ Top(t).at = label
           /\ Top(t).c \in Conns \cup {Nobody} /\ Top(t).arg \in Args
           /\ label \in Role(t) /\ Stage(t) = label
           /\ Len(stk[t]) = 1 /\ stk[t][1] = Top(t)
           /\ t \in Conns => Top(t).c = t
  <1>1. stk[t] # <<>> /\ Top(t).at = label
    BY DEF At
  <1>2. GoodFrame(t, Top(t))
    BY <1>1, TopGood
  <1>3. Top(t).c \in Conns \cup {Nobody} /\ Top(t).arg \in Args
    BY <1>2 DEF GoodFrame, FrameType
  <1>4. QED
    BY <1>1, <1>2, <1>3, OuterTop

\* Whose the labels are.
LEMMA WhoseRole ==
    ASSUME NEW t \in Threads, NEW label \in Role(t)
    PROVE  /\ label \in {"serve", "served", "unlist", "terminate", "wakeCollector"} <=> t \in Conns
           /\ label \in {"accept", "acceptPoll", "accepted"} <=> t = Acceptor
           /\ label \in {"collect", "collectNext", "collectWait"} <=> t = Collector
           /\ label \in { "srvStart", "srvStop", "srvClose", "joinAcceptor", "stopCollector",
                          "joinCollector", "srvStopped" } <=> t \in Users
  <1>1. CASE t \in Conns
    BY <1>1, Roles DEF Role
  <1>2. CASE t = Acceptor
    BY <1>2, Roles DEF Role
  <1>3. CASE t = Collector
    BY <1>3, Roles DEF Role
  <1>4. CASE t \in Users
    BY <1>4, Roles DEF Role
  <1>5. QED
    BY <1>1, <1>2, <1>3, <1>4, Roles

\* Threads may end, and start with one frame.
LEMMA PlacedFrom ==
    ASSUME Placed,
           \A u \in Threads :
              \/ stk'[u] = stk[u]
              \/ stk'[u] = <<>>
              \/ /\ Len(stk'[u]) = 1 /\ stk'[u][1].at \in Role(u)
                 /\ u \in Conns => stk'[u][1].c = u
    PROVE  Placed'
  <1>1. \A n : n = 1 => ~(n > 1) /\ (\A i \in 2 .. n : FALSE) /\ \A i \in 1 .. n : i = 1
    OBVIOUS
  <1>2. SUFFICES ASSUME NEW u \in Threads, stk'[u] # <<>>
                 PROVE  /\ stk'[u][1].at \in Role(u)
                        /\ Len(stk'[u]) > 1 => stk'[u][1].at \in {"served", "srvClose"}
                        /\ \A i \in 2 .. Len(stk'[u]) : stk'[u][i].at \in Inner
                        /\ u \in Conns => \A i \in 1 .. Len(stk'[u]) : stk'[u][i].c = u
    BY DEF Placed
  <1>3. CASE stk'[u] = stk[u]
    BY <1>2, <1>3 DEF Placed
  <1>4. CASE /\ Len(stk'[u]) = 1 /\ stk'[u][1].at \in Role(u)
             /\ u \in Conns => stk'[u][1].c = u
    BY <1>1, <1>4
  <1>5. QED
    BY <1>2, <1>3, <1>4

\* Frame f takes the place of the one that t has.
LEMMA OuterSet ==
    ASSUME NEW t \in Threads, StacksOK, Placed, NEW label, label \notin Inner, At(t, label),
           NEW f, GoodFrame(t, f), f.at \in Role(t), t \in Conns => f.c = t,
           stk' = [stk EXCEPT ![t] = SetTop(@, f)]
    PROVE  /\ StacksOK' /\ Placed' /\ Stages(t, f.at)
           /\ stk'[t] # <<>> /\ stk'[t][1] = f
  <1>1. stk[t] # <<>> /\ Top(t).at \notin Inner
    BY OuterAt
  <1>2. StacksOK'
    BY <1>1, StacksGood, SetTopOK, StackStep
  <1>3. Moves(t, "jump", f, f)
    <2>1. stk[t] \in Seq(FrameType) /\ Len(stk[t]) \in Nat /\ Len(stk[t]) >= 1
      BY <1>1, LastIndex
    <2>2. stk'[t] = SetTop(stk[t], f)
      BY DEF StacksOK
    <2>3. QED
      BY <1>1, <2>1, <2>2 DEF SetTop, Moves, StacksOK
  <1>4. QED
    BY <1>1, <1>2, <1>3, OuterKept

LEMMA OuterJump ==
    ASSUME NEW t \in Threads, StacksOK, Placed, NEW label, label \notin Inner, At(t, label),
           NEW next \in Role(t), NEW x, GoodFrame(t, Frame(next, Top(t).c, x)),
           JumpWith(t, next, x)
    PROVE  StacksOK' /\ Placed' /\ Stages(t, next)
  <1> DEFINE f == Frame(next, Top(t).c, x)
  <1>1. f.at = next /\ f.c = Top(t).c
    BY DEF Frame
  <1>2. stk' = [stk EXCEPT ![t] = SetTop(@, f)] /\ GoodFrame(t, f)
    BY DEF JumpWith
  <1> HIDE DEF f
  <1>3. QED
    BY <1>1, <1>2, OuterAt, OuterSet

LEMMA OuterReturn ==
    ASSUME NEW t \in Threads, StacksOK, Placed, NEW label, label \notin Inner, At(t, label),
           Return(t)
    PROVE  StacksOK' /\ Placed' /\ Stages(t, "none")
  <1>1. stk[t] # <<>> /\ Top(t).at \notin Inner
    BY OuterAt
  <1>2. StacksOK' /\ Moves(t, "return", Top(t), Top(t))
    BY <1>1, ReturnOK, ReturnMoves
  <1>3. QED
    BY <1>1, <1>2, OuterKept

\* The labels of the server's threads are in none of their calls.
LEMMA OuterLabels ==
    { "accept", "acceptPoll", "accepted", "collect", "collectNext", "collectWait",
      "serve", "served", "unlist", "terminate", "wakeCollector",
      "srvStart", "srvStop", "srvClose", "joinAcceptor", "stopCollector",
      "joinCollector", "srvStopped" } \cap Inner = {}
  BY DEF Inner, LoopLabels, MethodLabels

\* The first frame of a connection's thread is on that connection.
LEMMA FirstOwn ==
    ASSUME StacksOK', Placed', NEW c \in Conns, stk'[c] # <<>>
    PROVE  stk'[c][1].c = c
  <1> DEFINE n == Len(stk'[c])
  <1>1. n \in Nat /\ n # 0
    BY FewFrames DEF StacksOK, Threads
  <1>2. 1 \in 1 .. n
    <2> HIDE DEF n
    <2>1. QED
      BY <1>1
  <1>3. QED
    BY <1>2 DEF Placed, Threads

\* A step that leaves the endpoints ...
LEMMA TypesAfter ==
    ASSUME TypeOK, TransportOK', Placed', ServerOK', CallsOK', Taken \subseteq Taken',
           UNCHANGED eps
    PROVE  TypeOK'
  <1>1. StacksOK'
    BY DEF TransportOK
  <1>2. eps' \in [of : SUBSET Taken', mutex : Threads \cup {Nobody}]
    BY DEF TypeOK, Taken
  <1>3. \A c \in Conns : stk'[c] # <<>> => stk'[c][1].c = c
    BY <1>1, FirstOwn
  <1>4. QED
    BY <1>2, <1>3 DEF TypeOK, CallsOK, Taken

\* ... and the transport.
LEMMA TypesKept ==
    ASSUME TypeOK, StacksOK', Placed', ServerOK', CallsOK', Taken \subseteq Taken',
           UNCHANGED <<ws, net, log, eps>>
    PROVE  TypeOK'
  <1>1. TransportOK'
    BY DEF TypeOK, TransportOK, SocketsOK, PeersOK, LogsOK
  <1>2. QED
    BY <1>1, TypesAfter

\* A step that leaves the connections' threads and the collector.
LEMMA ListsKept ==
    ASSUME ServerOK, Lists, Taken \subseteq Taken', srv.canGc => srv'.canGc,
           srv'.threads = srv.threads, srv'.bound = srv.bound, srv'.ended = srv.ended,
           srv'.clients = srv.clients, srv'.pass = srv.pass,
           \A t \in Conns \cup {Collector} : Stage(t)' = Stage(t),
           \/ Stage(Acceptor)' # "accepted"
           \/ stk'[Acceptor] = stk[Acceptor]
           \/ stk'[Acceptor][1].c \in Taken' \ (srv.threads \cup srv.ended)
    PROVE  Lists'
  <1>1. Accounted'
    BY DEF Lists, Accounted, Stage
  <1>2. ListedServed'
    BY DEF Lists, ListedServed
  <1>3. srv.threads \subseteq Conns
    BY DEF ServerOK, ServerType
  <1>4. EndedTerminated'
    BY <1>3 DEF Lists, EndedTerminated
  <1>5. EndNoticed'
    BY <1>3 DEF Lists, EndNoticed
  <1>6. QED
    BY <1>1, <1>2, <1>4, <1>5 DEF Lists

\* A step that leaves the users, the collector and what stop() waits for.
LEMMA StopKept ==
    ASSUME StopInv, srv'.accept = srv.accept, srv'.collect = srv.collect,
           srv'.stopGc = srv.stopGc, srv'.threads = srv.threads,
           \A u \in Users \cup {Collector} : Stage(u)' = Stage(u),
           Stage(Acceptor)' # "none" => Stage(Acceptor) # "none"
    PROVE  StopInv'
  BY DEF StopInv, CollectorLast, StopOrder, UserAt

\* A step inside a connection's thread or a stop() leaves all of them.
LEMMA InnerInv ==
    ASSUME NEW t \in Threads, TypeOK, ServerInv, InnerStep(t)
    PROVE  /\ TypeOK' /\ ServerInv'
           /\ StopInv => StopInv'
  <1>1. TransportOK /\ StacksOK /\ Placed /\ Accounted /\ ServerOK /\ EndpointsOK /\ CallsOK
    BY DEF TypeOK, TransportOK, ServerInv, Lists, EndpointsOK, CallsOK, Taken
  <1>2. /\ TransportOK' /\ InnerMove(t) /\ UNCHANGED srv
        /\ EndpointsOK' /\ CallsOK'
    <2>1. CASE WebSocketStep(t) /\ UNCHANGED <<srv, eps, calls>>
      BY <1>1, <2>1, WebSocketTypes, TransportInner DEF EndpointsOK, CallsOK, Taken
    <2>2. CASE \/ ConnectToSocket(t) \/ ServerHandshake(t) \/ ServerUpgrade(t)
               \/ ServerUpgradeFails(t)
      BY <1>1, <2>2, HandshakeTypes DEF EndpointsOK, CallsOK, Taken
    <2>3. CASE \/ OnOpen(t) \/ OpenDone(t) \/ OnMessage(t) \/ Erase(t) \/ Release(t)
               \/ Event(t)
      BY <1>1, <2>3, EndpointTypes
    <2>4. QED
      BY <2>1, <2>2, <2>3 DEF InnerStep
  <1>3. StacksOK'
    BY <1>2 DEF TransportOK
  <1>4. /\ Placed' /\ Stages(t, Stage(t)) /\ t # Acceptor /\ t # Collector
    BY <1>1, <1>2, <1>3, InnerKept
  <1>5. \A u \in Threads : Stage(u)' = Stage(u)
    BY <1>4 DEF Stages
  <1>6. stk'[Acceptor] = stk[Acceptor]
    BY <1>4, Roles DEF Stages
  <1>7. Lists'
    BY <1>1, <1>2, <1>5, <1>6, Roles, ListsKept DEF ServerInv, Taken, Threads
  <1>8. NotJoined'
    BY <1>2, <1>5, Roles DEF ServerInv, NotJoined
  <1>9. TypeOK'
    <2>1. \A c \in Conns : stk'[c] # <<>> => stk'[c][1].c = c
      BY <1>3, <1>4, FirstOwn
    <2>2. QED
      BY <1>1, <1>2, <2>1 DEF TypeOK, EndpointsOK, CallsOK, Taken, ServerOK
  <1>10. StopInv => StopInv'
    BY <1>2, <1>5, Roles DEF StopInv, CollectorLast, StopOrder, UserAt
  <1>11. QED
    BY <1>4, <1>7, <1>8, <1>9, <1>10 DEF ServerInv

-----------------------------------------------------------------------------
(* The acceptor.                                                           *)

LEMMA InvParts ==
    ASSUME TypeOK, ServerInv
    PROVE  /\ TransportOK /\ StacksOK /\ Placed /\ Accounted /\ ServerOK /\ CallsOK
           /\ Lists /\ NotJoined /\ srv \in ServerType
           /\ srv.threads \cup srv.bound \cup srv.ended \subseteq Taken
  BY DEF TypeOK, TransportOK, ServerInv, Lists, CallsOK, ServerOK, Accounted

\* It takes codes from the pipe and connections from the port.
LEMMA AcceptInv ==
    ASSUME NEW t \in Threads, TypeOK, ServerInv,
           Accept(t) \/ AcceptWoken(t) \/ AcceptPoll(t)
    PROVE  /\ TypeOK' /\ ServerInv'
           /\ StopInv => StopInv'
  <1>1. /\ TransportOK /\ StacksOK /\ Placed /\ Accounted /\ ServerOK /\ CallsOK
        /\ Lists /\ NotJoined /\ srv \in ServerType
        /\ srv.threads \cup srv.bound \cup srv.ended \subseteq Taken
    BY InvParts
  <1> DEFINE mine == {"accept", "acceptPoll", "accepted"}
             c == Top(t).c
  <1>2. ASSUME NEW label \in mine, At(t, label)
        PROVE  /\ label \notin Inner /\ t = Acceptor /\ Role(t) = mine /\ t \notin Conns
               /\ Stage(t) = label /\ Top(t).c \in Conns \cup {Nobody} /\ Top(t).arg \in Args
    <2>1. label \notin Inner
      BY <1>2, OuterLabels
    <2>2. /\ stk[t] # <<>> /\ Top(t).c \in Conns \cup {Nobody} /\ Top(t).arg \in Args
          /\ label \in Role(t) /\ Stage(t) = label /\ stk[t][1] = Top(t)
          /\ t \in Conns => Top(t).c = t
      BY <1>1, <1>2, <2>1, OuterAt
    <2>3. t = Acceptor /\ t \notin Conns
      BY <1>2, <2>2, WhoseRole, Roles
    <2>4. QED
      BY <2>1, <2>2, <2>3 DEF Role
  <1>3. mine \ {"accepted"} \subseteq ServerLabels /\ "" \in Args
    BY DEF ServerLabels, Args
  <1>41. /\ srv = [srv EXCEPT !.wake = srv.wake, !.queue = srv.queue]
         /\ srv.wake \in Nat /\ srv.queue \in SUBSET srv.queue
         /\ \A w : [srv EXCEPT !.wake = w] = [srv EXCEPT !.wake = w, !.queue = srv.queue]
    BY <1>1 DEF ServerType
  <1>4. /\ t = Acceptor /\ StacksOK' /\ Placed' /\ Stage(Acceptor) # "none"
        /\ \E s : Stages(Acceptor, s)
        /\ \E w \in Nat, q \in SUBSET srv.queue :
              srv' = [srv EXCEPT !.wake = w, !.queue = q]
        /\ UNCHANGED <<ws, net, log, eps, calls>>
        /\ \/ Stage(Acceptor)' # "accepted"
           \/ stk'[Acceptor][1].c \in Taken' \ (srv.threads \cup srv.ended)
    <2>1. CASE Accept(t)
      <3>1. t = Acceptor /\ Stage(Acceptor) = "accept"
        BY <1>2, <2>1 DEF Accept
      <3>2. CASE Return(t)
        BY <1>1, <1>2, <1>41, <2>1, <3>1, <3>2, OuterReturn DEF Accept, Stages
      <3>3. CASE Jump(t, "acceptPoll")
        <4>1. GoodFrame(t, Frame("acceptPoll", c, Top(t).arg))
          BY <1>2, <1>3, <2>1, ServerLabelFrame DEF Accept
        <4>2. StacksOK' /\ Placed' /\ Stages(t, "acceptPoll")
          BY <1>1, <1>2, <2>1, <3>3, <4>1, OuterJump DEF Accept, Jump
        <4>3. QED
          BY <1>41, <2>1, <3>1, <4>2 DEF Accept, Stages
      <3>4. QED
        BY <2>1, <3>2, <3>3 DEF Accept
    <2>2. CASE AcceptWoken(t)
      <3>1. t = Acceptor /\ Stage(Acceptor) = "acceptPoll"
        BY <1>2, <2>2 DEF AcceptWoken
      <3>2. GoodFrame(t, Frame("accept", c, Top(t).arg))
        BY <1>2, <1>3, <2>2, ServerLabelFrame DEF AcceptWoken
      <3>3. StacksOK' /\ Placed' /\ Stages(t, "accept")
        BY <1>1, <1>2, <2>2, <3>2, OuterJump DEF AcceptWoken, Jump
      <3>4. srv.wake - 1 \in Nat /\ srv' = [srv EXCEPT !.wake = srv.wake - 1, !.queue = srv.queue]
        <4>1. srv' = [srv EXCEPT !.wake = srv.wake - 1] /\ srv.wake > 0
          BY <2>2 DEF AcceptWoken
        <4>2. srv.wake - 1 \in Nat
          <5>1. srv.wake \in Nat /\ srv.wake > 0
            BY <1>41, <4>1
          <5> DEFINE w == srv.wake
          <5> HIDE DEF w
          <5>2. w \in Nat /\ w > 0 => w - 1 \in Nat
            OBVIOUS
          <5>3. QED
            BY <5>1, <5>2 DEF w
        <4>3. QED
          BY <1>41, <4>1, <4>2
      <3>5. QED
        BY <2>2, <3>1, <3>3, <3>4 DEF AcceptWoken, Stages
    <2>3. CASE AcceptPoll(t)
      <3>1. t = Acceptor /\ Stage(Acceptor) = "acceptPoll"
        BY <1>2, <2>3 DEF AcceptPoll
      <3>2. PICK d \in srv.queue :
               /\ srv' = [srv EXCEPT !.queue = @ \ {d}]
               /\ stk' = [stk EXCEPT ![t] =
                             SetTop(@, IF Cardinality(srv.clients) >= MaxConnections
                                       THEN ServerFrame("accept") ELSE Frame("accepted", d, ""))]
        BY <2>3 DEF AcceptPoll
      <3>3. d \in Conns /\ d \in srv.came /\ d \notin srv.threads \cup srv.ended
        BY <1>1, <3>2 DEF ServerOK, ServerType, Taken
      <3>4. /\ srv.wake \in Nat
            /\ srv' = [srv EXCEPT !.wake = srv.wake, !.queue = srv.queue \ {d}]
            /\ Taken' = srv.came \ (srv.queue \ {d})
        BY <1>1, <3>2 DEF ServerType, Taken
      <3>5. ASSUME NEW f, GoodFrame(t, f), f.at \in mine,
                   stk' = [stk EXCEPT ![t] = SetTop(@, f)]
            PROVE  StacksOK' /\ Placed' /\ Stages(t, f.at) /\ stk'[t][1] = f
        BY <1>1, <1>2, <2>3, <3>5, OuterSet DEF AcceptPoll
      <3>6. CASE Cardinality(srv.clients) >= MaxConnections
        <4>1. GoodFrame(t, ServerFrame("accept")) /\ ServerFrame("accept").at = "accept"
          BY <1>3, ServerLabelFrame DEF ServerFrame, Frame
        <4>2. StacksOK' /\ Placed' /\ Stages(t, "accept")
          BY <3>2, <3>5, <3>6, <4>1
        <4>3. QED
          BY <2>3, <3>1, <3>4, <4>2 DEF AcceptPoll, Stages
      <3>7. CASE ~(Cardinality(srv.clients) >= MaxConnections)
        <4>1. GoodFrame(t, Frame("accepted", d, ""))
          BY <1>3, <3>3, AcceptedFrame
        <4>2. Frame("accepted", d, "").at = "accepted" /\ Frame("accepted", d, "").c = d
          BY DEF Frame
        <4>3. StacksOK' /\ Placed' /\ Stages(t, "accepted") /\ stk'[t][1].c = d
          BY <3>2, <3>5, <3>7, <4>1, <4>2
        <4>4. QED
          BY <2>3, <3>1, <3>3, <3>4, <4>3 DEF AcceptPoll, Stages
      <3>8. QED
        BY <3>6, <3>7
    <2>4. QED
      BY <2>1, <2>2, <2>3
  <1>5. /\ ServerOK' /\ Taken \subseteq Taken'
        /\ srv'.threads = srv.threads /\ srv'.bound = srv.bound /\ srv'.ended = srv.ended
        /\ srv'.clients = srv.clients /\ srv'.pass = srv.pass /\ srv'.canGc = srv.canGc
        /\ srv'.accept = srv.accept /\ srv'.collect = srv.collect /\ srv'.stopGc = srv.stopGc
    <2>1. PICK w \in Nat, q \in SUBSET srv.queue : srv' = [srv EXCEPT !.wake = w, !.queue = q]
      BY <1>4
    <2>2. srv' \in ServerType
      BY <1>1, <2>1 DEF ServerType
    <2>3. QED
      BY <1>1, <2>1, <2>2 DEF ServerOK, ServerType, Taken
  <1>6. \A u \in Threads \ {Acceptor} : Stage(u)' = Stage(u)
    BY <1>4 DEF Stages
  <1>7. TypeOK'
    BY <1>1, <1>4, <1>5, TypesKept DEF CallsOK
  <1>8. Lists'
    BY <1>1, <1>4, <1>5, <1>6, Roles, ListsKept DEF Threads
  <1>9. NotJoined'
    BY <1>1, <1>4, <1>5, <1>6, Roles DEF NotJoined
  <1>10. StopInv => StopInv'
    BY <1>4, <1>5, <1>6, Roles, StopKept
  <1>11. QED
    BY <1>4, <1>7, <1>8, <1>9, <1>10 DEF ServerInv


\* It gives a connection that it has accepted to a thread, which starts.
LEMMA AcceptedInv ==
    ASSUME NEW t \in Threads, TypeOK, ServerInv, Accepted(t)
    PROVE  /\ TypeOK' /\ ServerInv'
           /\ StopInv => StopInv'
  <1>1. /\ TransportOK /\ StacksOK /\ Placed /\ Accounted /\ ServerOK /\ CallsOK
        /\ Lists /\ NotJoined /\ srv \in ServerType
        /\ srv.threads \cup srv.bound \cup srv.ended \subseteq Taken
    BY InvParts
  <1>0. PICK c : c = Top(t).c
    OBVIOUS
  <1>2. /\ "accepted" \notin Inner /\ t = Acceptor /\ t \notin Conns /\ stk[t] # <<>>
        /\ Stage(t) = "accepted" /\ stk[t][1] = Top(t) /\ At(t, "accepted")
        /\ {"accept", "acceptPoll", "accepted"} = Role(t)
    <2>1. At(t, "accepted") /\ "accepted" \notin Inner
      BY OuterLabels DEF Accepted
    <2>2. /\ stk[t] # <<>> /\ stk[t][1] = Top(t)
          /\ "accepted" \in Role(t) /\ Stage(t) = "accepted"
      BY <1>1, <2>1, OuterAt
    <2>3. t = Acceptor /\ t \notin Conns
      BY <2>2, WhoseRole, Roles
    <2>4. QED
      BY <2>1, <2>2, <2>3 DEF Role
  <1>3. CASE srv.stop
    <2>1. Return(t) /\ UNCHANGED <<ws, net, log, srv, eps, calls>>
      BY <1>3 DEF Accepted
    <2>2. StacksOK' /\ Placed' /\ Stages(t, "none")
      BY <1>1, <1>2, <2>1, OuterReturn
    <2>3. ServerOK' /\ CallsOK' /\ Taken' = Taken
      BY <1>1, <2>1 DEF ServerOK, CallsOK, Taken
    <2>4. Stage(Acceptor)' = "none" /\ \A u \in Threads \ {Acceptor} : Stage(u)' = Stage(u)
      BY <1>2, <2>2 DEF Stages
    <2>5. TypeOK'
      BY <2>1, <2>2, <2>3, TypesKept
    <2>6. Lists'
      BY <1>1, <2>1, <2>3, <2>4, Roles, ListsKept DEF Threads
    <2>7. NotJoined'
      BY <1>1, <2>1, <2>4, Roles DEF NotJoined
    <2>8. StopInv => StopInv'
      BY <2>1, <2>4, Roles, StopKept
    <2>9. QED
      BY <2>2, <2>5, <2>6, <2>7, <2>8 DEF ServerInv
  <1>4. CASE ~srv.stop
    <2> DEFINE f == ServerFrame("accept")
               g == Frame("serve", c, "")
    <2>1. /\ ~At(Collector, "collectNext")
          /\ srv' = [srv EXCEPT !.threads = @ \cup {c}]
          /\ stk' = [stk EXCEPT ![t] = SetTop(@, f), ![c] = <<g>>]
          /\ UNCHANGED <<ws, net, log, eps, calls>>
      BY <1>0, <1>4 DEF Accepted
    <2>2. /\ c \in Conns /\ c \in Taken /\ c \notin srv.threads \cup srv.ended
          /\ c \in Threads /\ c # t
      BY <1>0, <1>1, <1>2 DEF Accounted, Taken, ServerType, Threads
    <2>3. Stage(c) = "none" /\ c \notin srv.clients
      BY <1>1, <2>2 DEF Accounted, Lists, ListedServed
    <2>4. /\ GoodFrame(t, f) /\ f.at = "accept"
          /\ GoodFrame(c, g) /\ g.at = "serve" /\ g.c = c
      <3>1. "" \in Args /\ "serve" \in ServeLabels /\ "accept" \in ServerLabels
        BY DEF Args, ServeLabels, ServerLabels
      <3>2. QED
        BY <2>2, <3>1, ServerLabelFrame, ServeFrame DEF ServerFrame, Frame
    <2>5. /\ stk'[t] = SetTop(stk[t], f) /\ stk'[c] = <<g>>
          /\ \A u \in Threads \ {t, c} : stk'[u] = stk[u]
      BY <1>1, <2>1, <2>2 DEF StacksOK
    <2>6. StacksOK'
      <3>1. StackOK(t, SetTop(stk[t], f)) /\ StackOK(c, <<g>>)
        BY <1>1, <1>2, <2>4, StacksGood, SetTopOK, NewStackOK
      <3>2. DOMAIN stk' = Threads
        BY <1>1, <2>1 DEF StacksOK
      <3>3. stk' = [u \in Threads |-> stk'[u]]
        BY <1>1, <2>1 DEF StacksOK
      <3>4. \A u \in Threads : StackOK(u, stk'[u])
        BY <1>1, <2>5, <3>1, StacksGood
      <3>5. QED
        BY <3>3, <3>4 DEF StacksOK, StackOK
    <2> HIDE DEF f, g
    <2>7. Len(<<g>>) = 1 /\ <<g>>[1] = g /\ <<g>> # <<>>
      BY OneFrame
    <2>8. Len(SetTop(stk[t], f)) = 1 /\ SetTop(stk[t], f)[1] = f /\ SetTop(stk[t], f) # <<>>
      <3>1. Len(stk[t]) = 1 /\ stk[t] \in Seq(FrameType)
        BY <1>1, <1>2, OuterAt, LastIndex DEF Accepted
      <3>2. QED
        BY <3>1 DEF SetTop
    <2>9. /\ Stage(t)' = "accept" /\ Stage(c)' = "serve"
          /\ \A u \in Threads \ {t, c} : Stage(u)' = Stage(u)
      BY <2>4, <2>5, <2>7, <2>8 DEF Stage
    <2>10. Placed'
      <3>1. "serve" \in Role(c)
        BY <2>2 DEF Role
      <3>2. stk'[t][1].at \in Role(t) /\ Len(stk'[t]) = 1 /\ t \notin Conns
        BY <1>2, <2>4, <2>5, <2>8
      <3>3. stk'[c][1].at \in Role(c) /\ Len(stk'[c]) = 1 /\ stk'[c][1].c = c
        BY <2>4, <2>5, <2>7, <3>1
      <3>4. QED
        BY <1>1, <2>5, <3>2, <3>3, PlacedFrom
    <2>11. /\ ServerOK' /\ CallsOK' /\ Taken' = Taken /\ srv'.threads = srv.threads \cup {c}
           /\ srv'.bound = srv.bound /\ srv'.ended = srv.ended /\ srv'.clients = srv.clients
           /\ srv'.canGc = srv.canGc /\ srv'.pass = srv.pass /\ srv'.accept = srv.accept
           /\ srv'.collect = srv.collect /\ srv'.stopGc = srv.stopGc
      BY <1>1, <2>1, <2>2 DEF ServerOK, ServerType, Taken, CallsOK
    <2>12. TypeOK'
      BY <2>1, <2>6, <2>10, <2>11, TypesKept
    <2>13. Lists'
      <3>1. Accounted'
        BY <1>1, <1>2, <2>2, <2>9, <2>11, Roles DEF Accounted, Threads
      <3>2. ListedServed'
        BY <1>1, <1>2, <2>3, <2>9, <2>11, Roles DEF Lists, ListedServed, Threads
      <3>3. EndedTerminated'
        BY <1>1, <1>2, <2>2, <2>9, <2>11, Roles DEF Lists, EndedTerminated, Threads, ServerType
      <3>4. EndNoticed'
        BY <1>1, <1>2, <2>2, <2>9, <2>11, Roles DEF Lists, EndNoticed, Threads, ServerType
      <3>5. QED
        BY <3>1, <3>2, <3>3, <3>4 DEF Lists
    <2>14. NotJoined'
      BY <1>1, <1>2, <2>2, <2>9, <2>11, Roles DEF NotJoined
    <2>15. StopInv => StopInv'
      BY <1>2, <2>2, <2>9, <2>11, Roles DEF StopInv, CollectorLast, StopOrder, UserAt
    <2>16. QED
      BY <2>10, <2>12, <2>13, <2>14, <2>15 DEF ServerInv
  <1>5. QED
    BY <1>3, <1>4


-----------------------------------------------------------------------------
(* The connections' threads.                                               *)

\* What a connection's thread leaves alone.
LEMMA ServeKept ==
    ASSUME NEW t \in Conns, NEW s, TypeOK, ServerInv,
           StacksOK', SocketsOK', Placed', Stages(t, s),
           srv' \in ServerType, srv'.clients \subseteq srv.came \ srv.queue,
           srv'.came = srv.came, srv'.queue = srv.queue, srv'.threads = srv.threads,
           srv'.pass = srv.pass, srv'.accept = srv.accept, srv'.collect = srv.collect,
           srv'.stopGc = srv.stopGc, UNCHANGED <<net, log, eps, calls>>
    PROVE  /\ TypeOK' /\ NotJoined' /\ (StopInv => StopInv')
           /\ Taken' = Taken /\ stk'[Acceptor] = stk[Acceptor]
           /\ Stage(t)' = s
           /\ \A u \in (Conns \ {t}) \cup {Acceptor, Collector} : Stage(u)' = Stage(u)
  <1>1. /\ TransportOK /\ Lists /\ NotJoined /\ ServerOK /\ CallsOK
    BY InvParts
  <1>2. \A u \in (Conns \ {t}) \cup {Acceptor, Collector} \cup Users :
            u \in Threads \ {t}
    BY Roles DEF Threads
  <1>3. /\ Stage(t)' = s /\ stk'[Acceptor] = stk[Acceptor]
        /\ \A u \in (Conns \ {t}) \cup {Acceptor, Collector} \cup Users : Stage(u)' = Stage(u)
    BY <1>2 DEF Stages
  <1>4. Taken' = Taken /\ ServerOK' /\ CallsOK' /\ TransportOK'
    BY <1>1 DEF Taken, ServerOK, CallsOK, TransportOK, PeersOK, LogsOK
  <1>5. TypeOK'
    BY <1>4, TypesAfter
  <1>6. NotJoined'
    BY <1>1, <1>3 DEF NotJoined
  <1>7. StopInv => StopInv'
    BY <1>3, StopKept
  <1>8. QED
    BY <1>3, <1>4, <1>5, <1>6, <1>7

\* It registers its connection, serves it, and reports its end.
LEMMA ServeInv ==
    ASSUME NEW t \in Threads, TypeOK, ServerInv,
           Serve(t) \/ Served(t) \/ Unlist(t) \/ SetTerminated(t) \/ OnSetTerminated(t)
    PROVE  /\ TypeOK' /\ ServerInv'
           /\ StopInv => StopInv'
  <1>1. /\ TransportOK /\ StacksOK /\ SocketsOK /\ Placed /\ Accounted /\ ServerOK /\ CallsOK
        /\ Lists /\ NotJoined /\ srv \in ServerType
        /\ srv.threads \cup srv.bound \cup srv.ended \subseteq Taken
    BY InvParts DEF TransportOK
  <1> DEFINE mine == {"serve", "served", "unlist", "terminate", "wakeCollector"}
             x == Top(t).arg
  <1>2. ASSUME NEW label \in mine, At(t, label)
        PROVE  /\ label \notin Inner /\ t \in Conns /\ Role(t) = mine /\ Top(t).c = t
               /\ Stage(t) = label /\ Top(t).arg \in Args /\ stk[t] # <<>>
               /\ t \in srv.threads /\ t \in srv.came \ srv.queue
    <2>1. label \notin Inner
      BY <1>2, OuterLabels
    <2>2. /\ stk[t] # <<>> /\ Top(t).c \in Conns \cup {Nobody} /\ Top(t).arg \in Args
          /\ label \in Role(t) /\ Stage(t) = label /\ stk[t][1] = Top(t)
          /\ t \in Conns => Top(t).c = t
      BY <1>1, <1>2, <2>1, OuterAt
    <2>3. t \in Conns
      BY <1>2, <2>2, WhoseRole
    <2>4. Stage(t) # "none"
      BY <1>2, <2>2
    <2>5. t \in srv.threads /\ t \in srv.came \ srv.queue
      BY <1>1, <2>3, <2>4 DEF Accounted, Taken
    <2>6. QED
      BY <2>1, <2>2, <2>3, <2>5 DEF Role
  <1>3. ASSUME NEW label \in mine, At(t, label)
        PROVE  GoodFrame(t, Frame(label, t, x)) 
    BY <1>2, <1>3, ServeFrame DEF ServeLabels
  <1>4. ASSUME NEW label \in mine, At(t, label), NEW next \in mine, Jump(t, next)
        PROVE  StacksOK' /\ Placed' /\ Stages(t, next)
    <2>1. GoodFrame(t, Frame(next, Top(t).c, x))
      BY <1>2, <1>4, ServeFrame DEF ServeLabels
    <2>2. QED
      BY <1>1, <1>2, <1>4, <2>1, OuterJump DEF Jump
  <1>5. ASSUME NEW s,
               TypeOK' /\ NotJoined' /\ (StopInv => StopInv') /\ Placed' /\ Lists'
        PROVE  /\ TypeOK' /\ ServerInv'
               /\ StopInv => StopInv'
    BY <1>5 DEF ServerInv
  <1> DEFINE kept == /\ TypeOK' /\ NotJoined' /\ (StopInv => StopInv')
                     /\ Taken' = Taken /\ stk'[Acceptor] = stk[Acceptor]
                     /\ \A u \in (Conns \ {t}) \cup {Acceptor, Collector} :
                            Stage(u)' = Stage(u)
  <1>6. CASE Serve(t)
    <2>1. /\ At(t, "serve") /\ Top(t).c = t /\ t \in Conns /\ Stage(t) = "serve"
          /\ t \in srv.threads /\ t \in srv.came \ srv.queue
      BY <1>2, <1>6 DEF Serve
    <2>2. /\ StacksOK' /\ Placed' /\ Stages(t, "served")
      <3> DEFINE g == Frame("served", t, x)
                 h == Frame("connectToSocket", t, "")
      <3>1. GoodFrame(t, g) /\ GoodFrame(t, h) /\ g.at = "served" /\ g.c = t
            /\ h.at \in Inner /\ h.c = t
        BY <1>2, <2>1, ServeFrame DEF ServeLabels, Args, Frame, Inner
      <3>2. StacksOK' /\ Moves(t, "call", g, h)
        BY <1>1, <1>2, <1>6, <2>1, <3>1, CallOK, CallMoves DEF Serve, Call
      <3> HIDE DEF g, h
      <3>3. QED
        BY <1>1, <1>2, <2>1, <3>1, <3>2, OuterKept DEF At
    <2>3. srv' = [srv EXCEPT !.bound = @ \cup {t}, !.clients = @ \cup {t}]
          /\ UNCHANGED <<ws, net, log, eps, calls>>
      BY <1>6, <2>1 DEF Serve
    <2>4. /\ srv' \in ServerType /\ srv'.clients \subseteq srv.came \ srv.queue
          /\ srv'.came = srv.came /\ srv'.queue = srv.queue /\ srv'.threads = srv.threads
          /\ srv'.pass = srv.pass /\ srv'.accept = srv.accept /\ srv'.collect = srv.collect
          /\ srv'.stopGc = srv.stopGc /\ srv'.canGc = srv.canGc /\ srv'.ended = srv.ended
          /\ srv'.bound = srv.bound \cup {t} /\ srv'.clients = srv.clients \cup {t}
      BY <1>1, <2>1, <2>3 DEF ServerOK, ServerType
    <2>5. kept /\ Stage(t)' = "served"
      BY <1>1, <2>1, <2>2, <2>3, <2>4, ServeKept DEF SocketsOK
    <2>6. Lists'
      <3>1. Accounted'
        BY <1>1, <2>1, <2>4, <2>5 DEF Accounted
      <3>2. ListedServed'
        BY <1>1, <2>4, <2>5 DEF Lists, ListedServed
      <3>3. EndedTerminated'
        BY <1>1, <2>1, <2>4, <2>5 DEF Lists, EndedTerminated, ServerType
      <3>4. EndNoticed'
        BY <1>1, <2>4, <2>5 DEF Lists, EndNoticed, ServerType
      <3>5. QED
        BY <3>1, <3>2, <3>3, <3>4 DEF Lists
    <2>7. QED
      BY <1>5, <2>2, <2>5, <2>6
  <1>7. CASE Served(t)
    <2>1. /\ At(t, "served") /\ Top(t).c = t /\ t \in Conns /\ Stage(t) = "served"
          /\ t \in srv.threads
      BY <1>2, <1>7 DEF Served
    <2>2. /\ StacksOK' /\ Placed' /\ Stages(t, "unlist")
      BY <1>4, <1>7 DEF Served
    <2>3. srv' = [srv EXCEPT !.bound = @ \ {t}] /\ UNCHANGED <<ws, net, log, eps, calls>>
      BY <1>7, <2>1 DEF Served
    <2>4. /\ srv' \in ServerType /\ srv'.clients \subseteq srv.came \ srv.queue
          /\ srv'.came = srv.came /\ srv'.queue = srv.queue /\ srv'.threads = srv.threads
          /\ srv'.pass = srv.pass /\ srv'.accept = srv.accept /\ srv'.collect = srv.collect
          /\ srv'.stopGc = srv.stopGc /\ srv'.canGc = srv.canGc /\ srv'.ended = srv.ended
          /\ srv'.bound = srv.bound \ {t} /\ srv'.clients = srv.clients
      BY <1>1, <2>1, <2>3 DEF ServerOK, ServerType
    <2>5. kept /\ Stage(t)' = "unlist"
      BY <1>1, <2>1, <2>2, <2>3, <2>4, ServeKept DEF SocketsOK
    <2>6. Lists'
      <3>1. Accounted'
        BY <1>1, <2>1, <2>4, <2>5 DEF Accounted
      <3>2. ListedServed'
        BY <1>1, <2>4, <2>5 DEF Lists, ListedServed
      <3>3. EndedTerminated'
        BY <1>1, <2>1, <2>4, <2>5 DEF Lists, EndedTerminated, ServerType
      <3>4. EndNoticed'
        BY <1>1, <2>4, <2>5 DEF Lists, EndNoticed, ServerType
      <3>5. QED
        BY <3>1, <3>2, <3>3, <3>4 DEF Lists
    <2>7. QED
      BY <1>5, <2>2, <2>5, <2>6
  <1>8. CASE Unlist(t)
    <2>1. /\ At(t, "unlist") /\ Top(t).c = t /\ t \in Conns /\ Stage(t) = "unlist"
          /\ t \in srv.threads
      BY <1>2, <1>8 DEF Unlist
    <2>2. /\ StacksOK' /\ Placed' /\ Stages(t, "terminate")
      BY <1>4, <1>8 DEF Unlist
    <2>3. srv' = [srv EXCEPT !.clients = @ \ {t}] /\ UNCHANGED <<net, log, eps, calls>>
      BY <1>8, <2>1 DEF Unlist
    <2>4. /\ srv' \in ServerType /\ srv'.clients \subseteq srv.came \ srv.queue
          /\ srv'.came = srv.came /\ srv'.queue = srv.queue /\ srv'.threads = srv.threads
          /\ srv'.pass = srv.pass /\ srv'.accept = srv.accept /\ srv'.collect = srv.collect
          /\ srv'.stopGc = srv.stopGc /\ srv'.canGc = srv.canGc /\ srv'.ended = srv.ended
          /\ srv'.bound = srv.bound /\ srv'.clients = srv.clients \ {t}
      BY <1>1, <2>1, <2>3 DEF ServerOK, ServerType
    <2>5. SocketsOK'
      <3>1. ws[t] \in SocketType
        BY <1>1, <2>1, SocketAt
      <3>2. [ws[t] EXCEPT !.fd = "shut"] \in SocketType
        BY <3>1 DEF SocketType
      <3>3. ws' = [ws EXCEPT ![t] = [ws[t] EXCEPT !.fd = "shut"]]
        BY <1>8, <2>1 DEF Unlist
      <3>4. QED
        BY <1>1, <2>1, <3>2, <3>3, SocketStep
    <2>6. kept /\ Stage(t)' = "terminate"
      BY <1>1, <2>1, <2>2, <2>3, <2>4, <2>5, ServeKept
    <2>7. Lists'
      <3>1. Accounted'
        BY <1>1, <2>1, <2>4, <2>6 DEF Accounted
      <3>2. ListedServed'
        BY <1>1, <2>4, <2>6 DEF Lists, ListedServed
      <3>3. EndedTerminated'
        BY <1>1, <2>1, <2>4, <2>6 DEF Lists, EndedTerminated, ServerType
      <3>4. EndNoticed'
        BY <1>1, <2>4, <2>6 DEF Lists, EndNoticed, ServerType
      <3>5. QED
        BY <3>1, <3>2, <3>3, <3>4 DEF Lists
    <2>8. QED
      BY <1>5, <2>2, <2>6, <2>7
  <1>9. CASE SetTerminated(t)
    <2>1. /\ At(t, "terminate") /\ Top(t).c = t /\ t \in Conns /\ Stage(t) = "terminate"
          /\ t \in srv.threads
      BY <1>2, <1>9 DEF SetTerminated
    <2>2. /\ StacksOK' /\ Placed' /\ Stages(t, "wakeCollector")
      BY <1>4, <1>9 DEF SetTerminated
    <2>3. srv' = [srv EXCEPT !.ended = @ \cup {t}] /\ UNCHANGED <<ws, net, log, eps, calls>>
      BY <1>9, <2>1 DEF SetTerminated
    <2>4. /\ srv' \in ServerType /\ srv'.clients \subseteq srv.came \ srv.queue
          /\ srv'.came = srv.came /\ srv'.queue = srv.queue /\ srv'.threads = srv.threads
          /\ srv'.pass = srv.pass /\ srv'.accept = srv.accept /\ srv'.collect = srv.collect
          /\ srv'.stopGc = srv.stopGc /\ srv'.canGc = srv.canGc
          /\ srv'.ended = srv.ended \cup {t}
          /\ srv'.bound = srv.bound /\ srv'.clients = srv.clients
      BY <1>1, <2>1, <2>3 DEF ServerOK, ServerType
    <2>5. kept /\ Stage(t)' = "wakeCollector"
      BY <1>1, <2>1, <2>2, <2>3, <2>4, ServeKept DEF SocketsOK
    <2>6. Lists'
      <3>1. Accounted'
        BY <1>1, <2>1, <2>4, <2>5 DEF Accounted
      <3>2. ListedServed'
        BY <1>1, <2>1, <2>4, <2>5 DEF Lists, ListedServed
      <3>3. EndedTerminated'
        BY <1>1, <2>1, <2>4, <2>5 DEF Lists, EndedTerminated, ServerType
      <3>4. EndNoticed'
        BY <1>1, <2>4, <2>5 DEF Lists, EndNoticed, ServerType
      <3>5. QED
        BY <3>1, <3>2, <3>3, <3>4 DEF Lists
    <2>7. QED
      BY <1>5, <2>2, <2>5, <2>6
  <1>10. CASE OnSetTerminated(t)
    <2>1. /\ At(t, "wakeCollector") /\ Top(t).c = t /\ t \in Conns
          /\ Stage(t) = "wakeCollector" /\ t \in srv.threads
      BY <1>2, <1>10 DEF OnSetTerminated
    <2>2. /\ StacksOK' /\ Placed' /\ Stages(t, "none")
      BY <1>1, <1>2, <1>10, OuterReturn DEF OnSetTerminated
    <2>3. srv' = [srv EXCEPT !.canGc = TRUE] /\ UNCHANGED <<ws, net, log, eps, calls>>
      BY <1>10, <2>1 DEF OnSetTerminated
    <2>4. /\ srv' \in ServerType /\ srv'.clients \subseteq srv.came \ srv.queue
          /\ srv'.came = srv.came /\ srv'.queue = srv.queue /\ srv'.threads = srv.threads
          /\ srv'.pass = srv.pass /\ srv'.accept = srv.accept /\ srv'.collect = srv.collect
          /\ srv'.stopGc = srv.stopGc /\ srv'.canGc /\ srv'.ended = srv.ended
          /\ srv'.bound = srv.bound /\ srv'.clients = srv.clients
      BY <1>1, <2>1, <2>3 DEF ServerOK, ServerType
    <2>5. kept /\ Stage(t)' = "none"
      BY <1>1, <2>1, <2>2, <2>3, <2>4, ServeKept DEF SocketsOK
    <2>6. Lists'
      <3>1. Accounted'
        BY <1>1, <2>1, <2>4, <2>5 DEF Accounted
      <3>2. ListedServed'
        BY <1>1, <2>1, <2>4, <2>5 DEF Lists, ListedServed
      <3>3. EndedTerminated'
        BY <1>1, <2>1, <2>4, <2>5 DEF Lists, EndedTerminated, ServerType
      <3>4. EndNoticed'
        BY <2>4 DEF EndNoticed
      <3>5. QED
        BY <3>1, <3>2, <3>3, <3>4 DEF Lists
    <2>7. QED
      BY <1>5, <2>2, <2>5, <2>6
  <1>11. QED
    BY <1>6, <1>7, <1>8, <1>9, <1>10


-----------------------------------------------------------------------------
(* The collector.                                                          *)

\* What the collector leaves alone.
LEMMA CollectKept ==
    ASSUME NEW s, TypeOK, ServerInv, StacksOK', Placed', Stages(Collector, s),
           srv' \in ServerType, srv'.pass \subseteq srv'.threads,
           srv'.came = srv.came, srv'.queue = srv.queue, srv'.clients = srv.clients,
           srv'.bound = srv.bound, srv'.ended = srv.ended,
           srv'.accept = srv.accept, srv'.collect = srv.collect, srv'.stopGc = srv.stopGc,
           srv'.threads \subseteq srv.threads,
           Stage(Collector) # "none",
           \A c \in srv.threads \ srv'.threads : Stage(c) = "none",
           s = "none" => srv.stopGc /\ srv.threads = {},
           UNCHANGED <<ws, net, log, eps, calls>>
    PROVE  /\ TypeOK' /\ NotJoined' /\ (StopInv => StopInv')
           /\ Accounted' /\ ListedServed' /\ EndedTerminated'
           /\ Stage(Collector)' = s /\ \A c \in Conns : Stage(c)' = Stage(c)
  <1>1. /\ TransportOK /\ Lists /\ NotJoined /\ ServerOK /\ CallsOK /\ srv \in ServerType
        /\ srv.threads \cup srv.bound \cup srv.ended \subseteq Taken
    BY InvParts
  <1>2. \A u \in Conns \cup {Acceptor} \cup Users : u \in Threads \ {Collector}
    BY Roles DEF Threads
  <1>3. /\ Stage(Collector)' = s /\ stk'[Acceptor] = stk[Acceptor]
        /\ \A u \in Conns \cup {Acceptor} \cup Users : Stage(u)' = Stage(u)
    BY <1>2 DEF Stages
  <1>4. Taken' = Taken /\ ServerOK' /\ CallsOK'
    BY <1>1 DEF Taken, ServerOK, CallsOK
  <1>5. TypeOK'
    BY <1>4, TypesKept
  <1>6. NotJoined'
    BY <1>1, <1>3 DEF NotJoined
  <1>7. StopInv => StopInv'
    <2> SUFFICES ASSUME StopInv PROVE StopInv'
      OBVIOUS
    <2>1. \A S : UserAt(S)' <=> UserAt(S)
      BY <1>3 DEF UserAt
    <2>2. StopOrder'
      <3>1. UserAt({"srvStopped"}) => Stage(Collector) = "none"
        BY DEF StopInv, StopOrder
      <3>2. QED
        BY <1>3, <2>1, <3>1 DEF StopInv, StopOrder
    <2>3. s = "none" => UserAt({"joinCollector"}) /\ Stage(Acceptor) = "none"
      <3>1. s = "none" => UserAt({"joinCollector"})
        BY DEF StopInv, CollectorLast
      <3>2. UserAt({"joinCollector"}) =>
                UserAt({"srvStart", "stopCollector", "joinCollector", "srvStopped"})
        BY DEF UserAt
      <3>3. QED
        BY <1>1, <3>1, <3>2 DEF StopInv, StopOrder, NotJoined
    <2>4. CollectorLast'
      BY <1>3, <2>1, <2>3 DEF StopInv, CollectorLast
    <2>5. QED
      BY <2>2, <2>4 DEF StopInv
  <1>8. Accounted'
    BY <1>1, <1>3, <1>4 DEF Lists, Accounted
  <1>9. ListedServed'
    BY <1>1, <1>3 DEF Lists, ListedServed
  <1>10. EndedTerminated'
    BY <1>1, <1>3 DEF Lists, EndedTerminated, ServerType
  <1>11. QED
    BY <1>3, <1>5, <1>6, <1>7, <1>8, <1>9, <1>10

\* It goes through the list, joins the threads that have ended, and waits.
LEMMA CollectInv ==
    ASSUME NEW t \in Threads, TypeOK, ServerInv,
           Collect(t) \/ CollectNext(t) \/ Collected(t) \/ CollectWait(t)
    PROVE  /\ TypeOK' /\ ServerInv'
           /\ StopInv => StopInv'
  <1>1. /\ StacksOK /\ Placed /\ ServerOK /\ Lists /\ srv \in ServerType
        /\ srv.threads \subseteq Conns /\ srv.pass \subseteq srv.threads
    BY InvParts DEF ServerOK, ServerType
  <1> DEFINE mine == {"collect", "collectNext", "collectWait"}
             x == Top(t).arg
  <1>2. ASSUME NEW label \in mine, At(t, label)
        PROVE  /\ label \notin Inner /\ t = Collector /\ Role(t) = mine
               /\ Stage(Collector) = label /\ t \in Threads
    <2>1. label \notin Inner
      BY <1>2, OuterLabels
    <2>2. /\ stk[t] # <<>> /\ Top(t).c \in Conns \cup {Nobody} /\ Top(t).arg \in Args
          /\ label \in Role(t) /\ Stage(t) = label /\ stk[t][1] = Top(t)
          /\ t \in Conns => Top(t).c = t
      BY <1>1, <1>2, <2>1, OuterAt
    <2>3. t = Collector /\ t \notin Conns /\ t # Acceptor
      BY <1>2, <2>2, WhoseRole, Roles
    <2>4. QED
      BY <2>1, <2>2, <2>3 DEF Role
  <1>3. ASSUME NEW label \in mine, At(t, label), NEW next \in mine, Jump(t, next)
        PROVE  StacksOK' /\ Placed' /\ Stages(Collector, next)
    <2>1. /\ Top(t).c \in Conns \cup {Nobody} /\ x \in Args
      BY <1>1, <1>2, <1>3, OuterAt
    <2>2. GoodFrame(t, Frame(next, Top(t).c, x))
      BY <2>1, ServerLabelFrame DEF ServerLabels
    <2>3. QED
      BY <1>1, <1>2, <1>3, <2>2, OuterJump DEF Jump
  <1>4. ASSUME NEW label \in mine, At(t, label), Return(t)
        PROVE  StacksOK' /\ Placed' /\ Stages(Collector, "none")
    BY <1>1, <1>2, <1>4, OuterReturn
  <1>5. ASSUME UNCHANGED stk, At(t, "collectNext")
        PROVE  StacksOK' /\ Placed' /\ Stages(Collector, "collectNext")
    BY <1>1, <1>2, <1>5 DEF StacksOK, Placed, Stages, Stage
  <1> DEFINE kept == /\ TypeOK' /\ NotJoined' /\ (StopInv => StopInv')
                     /\ Accounted' /\ ListedServed' /\ EndedTerminated'
                     /\ \A c \in Conns : Stage(c)' = Stage(c)
  <1>6. ASSUME kept, Placed', EndNoticed'
        PROVE  /\ TypeOK' /\ ServerInv'
               /\ StopInv => StopInv'
    BY <1>6 DEF ServerInv, Lists
  <1> DEFINE same == /\ srv' \in ServerType
                     /\ srv'.came = srv.came /\ srv'.queue = srv.queue
                     /\ srv'.clients = srv.clients /\ srv'.bound = srv.bound
                     /\ srv'.ended = srv.ended /\ srv'.accept = srv.accept
                     /\ srv'.collect = srv.collect /\ srv'.stopGc = srv.stopGc
  <1>7. CASE Collect(t)
    <2>1. /\ StacksOK' /\ Placed' /\ Stages(Collector, "collectNext")
          /\ Stage(Collector) = "collect"
      BY <1>2, <1>3, <1>7 DEF Collect
    <2>2. srv' = [srv EXCEPT !.pass = srv.threads] /\ UNCHANGED <<ws, net, log, eps, calls>>
      BY <1>7 DEF Collect
    <2>3. /\ same /\ srv'.threads = srv.threads /\ srv'.pass = srv.threads
      BY <1>1, <2>2 DEF ServerType
    <2>4. kept /\ Stage(Collector)' = "collectNext"
      BY <2>1, <2>2, <2>3, CollectKept
    <2>5. EndNoticed'
      BY <2>3, <2>4 DEF EndNoticed
    <2>6. QED
      BY <1>6, <2>1, <2>4, <2>5
  <1>8. CASE CollectNext(t)
    <2>1. /\ StacksOK' /\ Placed' /\ Stages(Collector, "collectNext")
          /\ Stage(Collector) = "collectNext"
      BY <1>2, <1>5, <1>8 DEF CollectNext
    <2>2. PICK c \in srv.pass :
             IF c \notin srv.ended
             THEN srv' = [srv EXCEPT !.pass = @ \ {c}]
             ELSE /\ stk[c] = <<>>
                  /\ srv' = [srv EXCEPT !.pass = @ \ {c}, !.threads = @ \ {c}]
      BY <1>8 DEF CollectNext
    <2>3. c \in Conns /\ c \in srv.threads
      BY <1>1
    <2>4. /\ same /\ srv'.pass = srv.pass \ {c} /\ srv'.canGc = srv.canGc
          /\ c \notin srv.ended => srv'.threads = srv.threads
          /\ c \in srv.ended => stk[c] = <<>> /\ srv'.threads = srv.threads \ {c}
      <3>1. CASE c \notin srv.ended
        <4>1. srv' = [srv EXCEPT !.pass = srv.pass \ {c}]
          BY <2>2, <3>1
        <4>2. QED
          BY <1>1, <3>1, <4>1 DEF ServerType
      <3>2. CASE c \in srv.ended
        <4>1. /\ srv' = [srv EXCEPT !.pass = srv.pass \ {c}, !.threads = srv.threads \ {c}]
              /\ stk[c] = <<>>
          BY <2>2, <3>2
        <4>2. QED
          BY <1>1, <3>2, <4>1 DEF ServerType
      <3>3. QED
        BY <3>1, <3>2
    <2>5. /\ c \in srv.ended => Stage(c) = "none"
          /\ c \notin srv.ended => Stage(c) # "none"
      BY <1>1, <2>3, <2>4 DEF Lists, EndedTerminated, Stage
    <2>6. /\ srv'.threads \subseteq srv.threads /\ srv'.pass \subseteq srv'.threads
          /\ \A d \in srv.threads \ srv'.threads : Stage(d) = "none"
      BY <1>1, <2>4, <2>5
    <2>7. kept /\ Stage(Collector)' = "collectNext"
      BY <1>8, <2>1, <2>4, <2>6, CollectKept DEF CollectNext
    <2>8. EndNoticed'
      <3> SUFFICES ASSUME NEW d \in srv'.threads, Stage(d)' = "none"
                   PROVE  srv'.canGc \/ (Stage(Collector)' = "collectNext" /\ d \in srv'.pass)
        BY DEF EndNoticed
      <3>1. d \in srv.threads /\ Stage(d) = "none"
        BY <1>1, <2>6, <2>7
      <3>2. srv.canGc \/ d \in srv.pass
        BY <1>1, <2>1, <3>1 DEF Lists, EndNoticed
      <3>3. d = c => c \in srv.ended /\ c \notin srv'.threads
        BY <2>4, <2>5, <3>1
      <3>4. QED
        BY <2>4, <2>7, <3>2, <3>3
    <2>9. QED
      BY <1>6, <2>1, <2>7, <2>8
  <1>9. CASE Collected(t)
    <2>1. /\ Stage(Collector) = "collectNext" /\ At(t, "collectNext") /\ srv.pass = {}
      BY <1>2, <1>9 DEF Collected
    <2>2. \A c \in srv.threads : Stage(c) = "none" => srv.canGc
      BY <1>1, <2>1 DEF Lists, EndNoticed
    <2>3. UNCHANGED <<ws, net, log, srv, eps, calls>> /\ same /\ srv'.threads = srv.threads
      BY <1>1, <1>9 DEF Collected
    <2>4. ASSUME NEW s, StacksOK', Placed', Stages(Collector, s),
                 s = "none" => srv.stopGc /\ srv.threads = {}
          PROVE  /\ TypeOK' /\ ServerInv'
                 /\ StopInv => StopInv'
      <3>1. kept
        BY <1>1, <2>1, <2>3, <2>4, CollectKept
      <3>2. EndNoticed'
        BY <1>1, <2>2, <2>3, <3>1 DEF EndNoticed
      <3>3. QED
        BY <1>6, <2>4, <3>1, <3>2
    <2>5. \/ srv.stopGc /\ srv.threads = {} /\ Return(t)
          \/ Jump(t, "collect") \/ Jump(t, "collectWait")
      BY <1>1, <1>9 DEF Collected, ServerType
    <2>6. CASE srv.stopGc /\ srv.threads = {} /\ Return(t)
      <3>1. StacksOK' /\ Placed' /\ Stages(Collector, "none")
        BY <1>4, <2>1, <2>6
      <3>2. QED
        BY <2>4, <2>6, <3>1
    <2>7. CASE Jump(t, "collect")
      <3>1. StacksOK' /\ Placed' /\ Stages(Collector, "collect")
        BY <1>3, <2>1, <2>7
      <3>2. QED
        BY <2>4, <3>1
    <2>8. CASE Jump(t, "collectWait")
      <3>1. StacksOK' /\ Placed' /\ Stages(Collector, "collectWait")
        BY <1>3, <2>1, <2>8
      <3>2. QED
        BY <2>4, <3>1
    <2>9. QED
      BY <2>5, <2>6, <2>7, <2>8
  <1>10. CASE CollectWait(t)
    <2>1. /\ StacksOK' /\ Placed' /\ Stages(Collector, "collect")
          /\ Stage(Collector) = "collectWait"
      BY <1>2, <1>3, <1>10 DEF CollectWait
    <2>2. srv' = [srv EXCEPT !.canGc = FALSE] /\ UNCHANGED <<ws, net, log, eps, calls>>
      BY <1>10 DEF CollectWait
    <2>3. /\ same /\ srv'.threads = srv.threads /\ srv'.pass = srv.pass
      BY <1>1, <2>2 DEF ServerType
    <2>4. kept /\ Stage(Collector)' = "collect"
      BY <1>1, <2>1, <2>2, <2>3, CollectKept
    <2>5. EndNoticed'
      BY <2>4 DEF EndNoticed
    <2>6. QED
      BY <1>6, <2>1, <2>4, <2>5
  <1>11. QED
    BY <1>7, <1>8, <1>9, <1>10


-----------------------------------------------------------------------------
(* The users' threads: start() and stop().                                 *)

\* What a user leaves alone ...
LEMMA UserKept ==
    ASSUME NEW t \in Users, NEW s, TypeOK, ServerInv,
           StacksOK', SocketsOK', Placed', Stages(t, s), CallsOK',
           srv' \in ServerType, srv'.queue \subseteq srv.queue,
           srv'.came = srv.came, srv'.threads = srv.threads, srv'.pass = srv.pass,
           srv'.clients = srv.clients, srv'.bound = srv.bound, srv'.ended = srv.ended,
           srv.canGc => srv'.canGc,
           Stage(Acceptor) # "none" => srv'.accept,
           Stage(Collector) # "none" => srv'.collect,
           UNCHANGED <<net, log, eps>>
    PROVE  TypeOK' /\ ServerInv'
  <1>1. /\ TransportOK /\ Lists /\ NotJoined /\ ServerOK /\ CallsOK /\ srv \in ServerType
    BY InvParts
  <1>2. \A u \in Conns \cup {Acceptor, Collector} : u \in Threads \ {t}
    BY Roles DEF Threads
  <1>3. /\ stk'[Acceptor] = stk[Acceptor]
        /\ \A u \in Conns \cup {Acceptor, Collector} : Stage(u)' = Stage(u)
    BY <1>2 DEF Stages
  <1>4. Taken \subseteq Taken' /\ ServerOK' /\ TransportOK'
    BY <1>1 DEF Taken, ServerOK, TransportOK, PeersOK, LogsOK, ServerType
  <1>5. TypeOK'
    BY <1>4, TypesAfter
  <1>6. Lists'
    BY <1>1, <1>3, <1>4, ListsKept
  <1>7. NotJoined'
    BY <1>1, <1>3 DEF NotJoined
  <1>8. QED
    BY <1>5, <1>6, <1>7 DEF ServerInv

\* ... and what it must leave for the other steps of stop().
LEMMA UserStop ==
    ASSUME OneUser, StopInv, NEW t \in Users, NEW s, Stages(t, s),
           srv'.threads = srv.threads,
           srv'.collect /\ Stage(Collector) = "none" => s = "joinCollector",
           srv'.stopGc => s = "joinCollector",
           s \in {"srvStart", "stopCollector", "joinCollector", "srvStopped"} => ~srv'.accept,
           s = "srvStopped" => Stage(Collector) = "none"
    PROVE  StopInv'
  <1>1. \A u \in {Acceptor, Collector} : u \in Threads \ {t}
    BY Roles
  <1>2. Stage(Acceptor)' = Stage(Acceptor) /\ Stage(Collector)' = Stage(Collector)
    BY <1>1 DEF Stages
  <1>3. \A S : UserAt(S)' <=> s \in S
    BY DEF UserAt, OneUser, Stages
  <1>4. CollectorLast'
    BY <1>2, <1>3 DEF StopInv, CollectorLast
  <1>5. StopOrder'
    BY <1>2, <1>3 DEF StopOrder
  <1>6. QED
    BY <1>4, <1>5 DEF StopInv

\* What StopInv says of the user's own stage.
LEMMA UserStage ==
    ASSUME StopInv, NEW t \in Users, OneUser
    PROVE  /\ srv.collect /\ Stage(Collector) = "none" => Stage(t) = "joinCollector"
           /\ srv.stopGc => Stage(t) = "joinCollector"
           /\ Stage(t) \in {"srvStart", "stopCollector", "joinCollector", "srvStopped"} =>
                 ~srv.accept
  BY DEF StopInv, CollectorLast, StopOrder, UserAt, OneUser

\* A call of start() or stop().
LEMMA UserCallInv ==
    ASSUME NEW t \in Users, NEW op \in {"start", "stop"}, TypeOK, ServerInv, UserCall(t, op)
    PROVE  /\ TypeOK' /\ ServerInv'
           /\ OneUser /\ StopInv => StopInv'
  <1>1. /\ TransportOK /\ StacksOK /\ SocketsOK /\ Placed /\ NotJoined /\ CallsOK
        /\ srv \in ServerType
    BY InvParts DEF TransportOK
  <1> DEFINE s == Entry(op)
             f == ServerFrame(s)
  <1>2. /\ t \in Threads /\ t \notin Conns /\ s \in {"srvStart", "srvStop"} /\ s \in Role(t)
        /\ op = "start" => s = "srvStart"
        /\ op = "stop" => s = "srvStop"
    BY Roles DEF Role, Entry
  <1>3. GoodFrame(t, f) /\ f.at = s
    <2>1. s \in ServerLabels /\ "" \in Args
      BY <1>2 DEF ServerLabels, Args
    <2>2. QED
      BY <2>1, ServerLabelFrame DEF ServerFrame, Frame
  <1>4. /\ stk[t] = <<>> /\ stk' = [stk EXCEPT ![t] = <<f>>] /\ calls[op] > 0
        /\ calls' = [calls EXCEPT ![op] = @ - 1]
        /\ op = "start" => ~srv.accept
        /\ UNCHANGED <<ws, net, log, srv, eps>>
    BY DEF UserCall
  <1> HIDE DEF s, f
  <1>5. StacksOK'
    BY <1>1, <1>2, <1>3, <1>4, NewStackOK, StackStep
  <1>6. /\ stk'[t] = <<f>> /\ \A u \in Threads \ {t} : stk'[u] = stk[u]
        /\ Len(<<f>>) = 1 /\ <<f>>[1] = f /\ <<f>> # <<>>
    BY <1>1, <1>2, <1>4, OneFrame DEF StacksOK
  <1>7. Stages(t, s)
    BY <1>3, <1>6 DEF Stages, Stage
  <1>8. Placed'
    BY <1>1, <1>2, <1>3, <1>6, PlacedFrom
  <1>9. CallsOK' /\ SocketsOK'
    BY <1>1, <1>4, BudgetStep DEF CallsOK, Calls, SocketsOK
  <1>10. TypeOK' /\ ServerInv'
    BY <1>1, <1>4, <1>5, <1>7, <1>8, <1>9, UserKept DEF NotJoined
  <1>11. OneUser /\ StopInv => StopInv'
    <2> SUFFICES ASSUME OneUser, StopInv PROVE StopInv'
      OBVIOUS
    <2>1. Stage(t) = "none"
      BY <1>4 DEF Stage
    <2>2. QED
      BY <1>2, <1>4, <1>7, <2>1, UserStage, UserStop
  <1>12. QED
    BY <1>10, <1>11


\* stop() closes the clients, then ends the acceptor and the collector.
LEMMA StopStepsInv ==
    ASSUME NEW t \in Threads, TypeOK, ServerInv,
           \/ SrvStop(t) \/ SrvClose(t) \/ StopAcceptor(t) \/ JoinAcceptor(t)
           \/ StopCollector(t) \/ JoinCollector(t) \/ SrvStopped(t)
    PROVE  /\ TypeOK' /\ ServerInv'
           /\ OneUser /\ StopInv => StopInv'
  <1>1. /\ TransportOK /\ StacksOK /\ SocketsOK /\ Placed /\ NotJoined /\ CallsOK
        /\ srv \in ServerType
    BY InvParts DEF TransportOK
  <1> DEFINE mine == { "srvStart", "srvStop", "srvClose", "joinAcceptor", "stopCollector",
                       "joinCollector", "srvStopped" }
             x == Top(t).arg
  <1>2. ASSUME NEW label \in mine, At(t, label)
        PROVE  /\ label \notin Inner /\ t \in Users /\ t \notin Conns /\ Role(t) = mine
               /\ Stage(t) = label /\ stk[t] # <<>>
    <2>1. label \notin Inner
      BY <1>2, OuterLabels
    <2>2. /\ stk[t] # <<>> /\ Top(t).c \in Conns \cup {Nobody} /\ Top(t).arg \in Args
          /\ label \in Role(t) /\ Stage(t) = label /\ stk[t][1] = Top(t)
          /\ t \in Conns => Top(t).c = t
      BY <1>1, <1>2, <2>1, OuterAt
    <2>3. t \in Users /\ t \notin Conns /\ t # Acceptor /\ t # Collector
      BY <1>2, <2>2, WhoseRole, Roles
    <2>4. QED
      BY <2>1, <2>2, <2>3 DEF Role
  <1>3. ASSUME NEW label \in mine, At(t, label), NEW next \in mine, Jump(t, next)
        PROVE  StacksOK' /\ Placed' /\ Stages(t, next)
    <2>1. /\ Top(t).c \in Conns \cup {Nobody} /\ x \in Args
      BY <1>1, <1>2, <1>3, OuterAt
    <2>2. GoodFrame(t, Frame(next, Top(t).c, x))
      BY <2>1, ServerLabelFrame DEF ServerLabels
    <2>3. QED
      BY <1>1, <1>2, <1>3, <2>2, OuterJump DEF Jump
  <1>4. UNCHANGED <<ws, net, log, eps, calls>> /\ SocketsOK' /\ CallsOK'
    BY <1>1 DEF SrvStop, SrvClose, StopAcceptor, JoinAcceptor, StopCollector,
       JoinCollector, SrvStopped, SocketsOK, CallsOK
  <1> DEFINE same == /\ srv' \in ServerType
                     /\ srv'.came = srv.came /\ srv'.threads = srv.threads
                     /\ srv'.pass = srv.pass /\ srv'.clients = srv.clients
                     /\ srv'.bound = srv.bound /\ srv'.ended = srv.ended
  <1>5. CASE SrvStop(t)
    <2>1. At(t, "srvStop") /\ t \in Users /\ Stage(t) = "srvStop"
      BY <1>2, <1>5 DEF SrvStop
    <2>2. StacksOK' /\ Placed' /\ Stages(t, "srvClose")
      BY <1>3, <1>5 DEF SrvStop
    <2>3. srv' = [srv EXCEPT !.stop = TRUE, !.todo = srv.clients]
      BY <1>5 DEF SrvStop
    <2>4. /\ same /\ srv'.queue = srv.queue /\ srv'.canGc = srv.canGc
          /\ srv'.accept = srv.accept /\ srv'.collect = srv.collect
          /\ srv'.stopGc = srv.stopGc
      BY <1>1, <2>3 DEF ServerType
    <2>5. TypeOK' /\ ServerInv'
      BY <1>1, <1>4, <2>1, <2>2, <2>4, UserKept DEF NotJoined
    <2>6. OneUser /\ StopInv => StopInv'
      BY <2>1, <2>2, <2>4, UserStage, UserStop
    <2>7. QED
      BY <2>5, <2>6
  <1>6. CASE SrvClose(t)
    <2>1. /\ At(t, "srvClose") /\ t \in Users /\ t \notin Conns /\ Stage(t) = "srvClose"
          /\ stk[t] # <<>> /\ Role(t) = mine /\ "srvClose" \notin Inner
      BY <1>2, <1>6 DEF SrvClose
    <2>2. PICK c \in srv.todo :
             /\ srv' = [srv EXCEPT !.todo = @ \ {c}]
             /\ stk' = [stk EXCEPT ![t] = Append(@, Frame("close", c, ""))]
      BY <1>6 DEF SrvClose
    <2> DEFINE h == Frame("close", c, "")
    <2>3. c \in Conns /\ GoodFrame(t, h) /\ h.at \in Inner
      <3>1. c \in Conns /\ "" \in Args /\ "close" \in PlainLabels /\ "close" \in Inner
        BY <1>1, MethodsPlain DEF ServerType, Args, Inner, MethodLabels
      <3>2. QED
        BY <3>1, PlainFrame DEF Frame
    <2>4. stk' = [stk EXCEPT ![t] = Append(stk[t], h)]
      BY <2>2
    <2> HIDE DEF h
    <2>5. StacksOK' /\ Moves(t, "call", Top(t), h)
      <3>1. StacksOK'
        BY <1>1, <2>3, <2>4, StacksGood, PushOK, StackStep
      <3>2. stk[t] \in Seq(FrameType) /\ Len(stk[t]) \in Nat /\ Len(stk[t]) >= 1
            /\ Top(t) = stk[t][Len(stk[t])]
        BY <1>1, <2>1, LastFrame, LastIndex
      <3>3. stk'[t] = Append(stk[t], h) /\ \A u \in Threads \ {t} : stk'[u] = stk[u]
        BY <1>1, <2>4 DEF StacksOK
      <3>4. /\ Len(stk'[t]) = Len(stk[t]) + 1 /\ stk'[t][Len(stk[t]) + 1] = h
            /\ \A i \in 1 .. Len(stk[t]) : stk'[t][i] = stk[t][i]
        BY <3>2, <3>3
      <3>5. QED
        BY <2>1, <3>1, <3>2, <3>3, <3>4 DEF Moves
    <2>6. Placed' /\ Stages(t, "srvClose")
      <3>1. Top(t).at = "srvClose"
        BY <2>1 DEF At
      <3>2. QED
        BY <1>1, <2>1, <2>3, <2>5, <3>1, OuterKept
    <2>7. /\ same /\ srv'.queue = srv.queue /\ srv'.canGc = srv.canGc
          /\ srv'.accept = srv.accept /\ srv'.collect = srv.collect
          /\ srv'.stopGc = srv.stopGc
      BY <1>1, <2>2 DEF ServerType
    <2>8. TypeOK' /\ ServerInv'
      BY <1>1, <1>4, <2>1, <2>5, <2>6, <2>7, UserKept DEF NotJoined
    <2>9. OneUser /\ StopInv => StopInv'
      BY <2>1, <2>6, <2>7, UserStage, UserStop
    <2>10. QED
      BY <2>8, <2>9
  <1>7. CASE StopAcceptor(t)
    <2>1. At(t, "srvClose") /\ t \in Users /\ Stage(t) = "srvClose"
      BY <1>2, <1>7 DEF StopAcceptor
    <2>2. CASE srv.accept
      <3>1. /\ srv' = [srv EXCEPT !.stop = TRUE, !.wake = @ + 1] /\ Jump(t, "joinAcceptor")
        BY <1>7, <2>2 DEF StopAcceptor
      <3>2. StacksOK' /\ Placed' /\ Stages(t, "joinAcceptor")
        BY <1>3, <2>1, <3>1
      <3>3. /\ same /\ srv'.queue = srv.queue /\ srv'.canGc = srv.canGc
            /\ srv'.accept = srv.accept /\ srv'.collect = srv.collect
            /\ srv'.stopGc = srv.stopGc
        <4> DEFINE w == srv.wake + 1
        <4>1. srv.wake \in Nat
          BY <1>1 DEF ServerType
        <4>2. w \in Nat /\ srv' = [srv EXCEPT !.stop = TRUE, !.wake = w]
          BY <3>1, <4>1
        <4> HIDE DEF w
        <4>3. QED
          BY <1>1, <4>2 DEF ServerType
      <3>4. TypeOK' /\ ServerInv'
        BY <1>1, <1>4, <2>1, <3>2, <3>3, UserKept DEF NotJoined
      <3>5. OneUser /\ StopInv => StopInv'
        BY <2>1, <3>2, <3>3, UserStage, UserStop
      <3>6. QED
        BY <3>4, <3>5
    <2>3. CASE ~srv.accept
      <3>1. UNCHANGED srv /\ Jump(t, "stopCollector")
        BY <1>7, <2>3 DEF StopAcceptor
      <3>2. StacksOK' /\ Placed' /\ Stages(t, "stopCollector")
        BY <1>3, <2>1, <3>1
      <3>3. TypeOK' /\ ServerInv'
        BY <1>1, <1>4, <2>1, <3>1, <3>2, UserKept DEF NotJoined
      <3>4. OneUser /\ StopInv => StopInv'
        BY <2>1, <2>3, <3>1, <3>2, UserStage, UserStop
      <3>5. QED
        BY <3>3, <3>4
    <2>4. QED
      BY <2>2, <2>3
  <1>8. CASE JoinAcceptor(t)
    <2>1. At(t, "joinAcceptor") /\ t \in Users /\ Stage(t) = "joinAcceptor"
      BY <1>2, <1>8 DEF JoinAcceptor
    <2>2. StacksOK' /\ Placed' /\ Stages(t, "stopCollector")
      BY <1>3, <1>8 DEF JoinAcceptor
    <2>3. srv' = [srv EXCEPT !.accept = FALSE, !.stop = FALSE] /\ Stage(Acceptor) = "none"
      BY <1>8 DEF JoinAcceptor, Stage
    <2>4. /\ same /\ srv'.queue = srv.queue /\ srv'.canGc = srv.canGc
          /\ ~srv'.accept /\ srv'.collect = srv.collect /\ srv'.stopGc = srv.stopGc
      BY <1>1, <2>3 DEF ServerType
    <2>5. TypeOK' /\ ServerInv'
      BY <1>1, <1>4, <2>1, <2>2, <2>3, <2>4, UserKept DEF NotJoined
    <2>6. OneUser /\ StopInv => StopInv'
      BY <2>1, <2>2, <2>4, UserStage, UserStop
    <2>7. QED
      BY <2>5, <2>6
  <1>9. CASE StopCollector(t)
    <2>1. At(t, "stopCollector") /\ t \in Users /\ Stage(t) = "stopCollector"
      BY <1>2, <1>9 DEF StopCollector
    <2>2. CASE srv.collect
      <3>1. srv' = [srv EXCEPT !.stopGc = TRUE, !.canGc = TRUE] /\ Jump(t, "joinCollector")
        BY <1>9, <2>2 DEF StopCollector
      <3>2. StacksOK' /\ Placed' /\ Stages(t, "joinCollector")
        BY <1>3, <2>1, <3>1
      <3>3. /\ same /\ srv'.queue = srv.queue /\ srv'.canGc
            /\ srv'.accept = srv.accept /\ srv'.collect = srv.collect
        BY <1>1, <3>1 DEF ServerType
      <3>4. TypeOK' /\ ServerInv'
        BY <1>1, <1>4, <2>1, <3>2, <3>3, UserKept DEF NotJoined
      <3>5. OneUser /\ StopInv => StopInv'
        BY <2>1, <3>2, <3>3, UserStage, UserStop
      <3>6. QED
        BY <3>4, <3>5
    <2>3. CASE ~srv.collect
      <3>1. UNCHANGED srv /\ Jump(t, "srvStopped")
        BY <1>9, <2>3 DEF StopCollector
      <3>2. StacksOK' /\ Placed' /\ Stages(t, "srvStopped")
        BY <1>3, <2>1, <3>1
      <3>3. TypeOK' /\ ServerInv'
        BY <1>1, <1>4, <2>1, <3>1, <3>2, UserKept DEF NotJoined
      <3>4. Stage(Collector) = "none"
        BY <1>1, <2>3 DEF NotJoined
      <3>5. OneUser /\ StopInv => StopInv'
        BY <2>1, <2>3, <3>1, <3>2, <3>4, UserStage, UserStop
      <3>6. QED
        BY <3>3, <3>5
    <2>4. QED
      BY <2>2, <2>3
  <1>10. CASE JoinCollector(t)
    <2>1. At(t, "joinCollector") /\ t \in Users /\ Stage(t) = "joinCollector"
      BY <1>2, <1>10 DEF JoinCollector
    <2>2. StacksOK' /\ Placed' /\ Stages(t, "srvStopped")
      BY <1>3, <1>10 DEF JoinCollector
    <2>3. /\ srv' = [srv EXCEPT !.collect = FALSE, !.stopGc = FALSE]
          /\ Stage(Collector) = "none"
      BY <1>10 DEF JoinCollector, Stage
    <2>4. /\ same /\ srv'.queue = srv.queue /\ srv'.canGc = srv.canGc
          /\ srv'.accept = srv.accept /\ ~srv'.collect /\ ~srv'.stopGc
      BY <1>1, <2>3 DEF ServerType
    <2>5. TypeOK' /\ ServerInv'
      BY <1>1, <1>4, <2>1, <2>2, <2>3, <2>4, UserKept DEF NotJoined
    <2>6. OneUser /\ StopInv => StopInv'
      BY <2>1, <2>2, <2>3, <2>4, UserStage, UserStop
    <2>7. QED
      BY <2>5, <2>6
  <1>11. CASE SrvStopped(t)
    <2>1. At(t, "srvStopped") /\ t \in Users /\ Stage(t) = "srvStopped"
      BY <1>2, <1>11 DEF SrvStopped
    <2>2. StacksOK' /\ Placed' /\ Stages(t, "none")
      BY <1>1, <1>2, <1>11, OuterReturn DEF SrvStopped
    <2>3. srv' = [srv EXCEPT !.queue = {}]
      BY <1>11 DEF SrvStopped
    <2>4. /\ same /\ srv'.queue = {} /\ srv'.canGc = srv.canGc
          /\ srv'.accept = srv.accept /\ srv'.collect = srv.collect
          /\ srv'.stopGc = srv.stopGc
      BY <1>1, <2>3 DEF ServerType
    <2>5. TypeOK' /\ ServerInv'
      BY <1>1, <1>4, <2>1, <2>2, <2>4, UserKept DEF NotJoined
    <2>6. OneUser /\ StopInv => StopInv'
      BY <2>1, <2>2, <2>4, UserStage, UserStop
    <2>7. QED
      BY <2>5, <2>6
  <1>12. QED
    BY <1>5, <1>6, <1>7, <1>8, <1>9, <1>10, <1>11


\* start() starts the threads that do not run.
LEMMA SrvStartInv ==
    ASSUME NEW t \in Threads, TypeOK, ServerInv, SrvStart(t)
    PROVE  /\ TypeOK' /\ ServerInv'
           /\ OneUser /\ StopInv => StopInv'
  <1>1. /\ TransportOK /\ StacksOK /\ Placed /\ NotJoined /\ CallsOK /\ ServerOK /\ Lists
        /\ srv \in ServerType
    BY InvParts
  <1>2. /\ At(t, "srvStart") /\ t \in Users /\ Stage(t) = "srvStart" /\ stk[t] # <<>>
        /\ Len(stk[t]) = 1 /\ stk[t] \in Seq(FrameType)
    <2>1. At(t, "srvStart") /\ "srvStart" \notin Inner
      BY OuterLabels DEF SrvStart
    <2>2. /\ stk[t] # <<>> /\ Len(stk[t]) = 1
          /\ "srvStart" \in Role(t) /\ Stage(t) = "srvStart"
      BY <1>1, <2>1, OuterAt
    <2>3. t \in Users
      BY <2>2, WhoseRole
    <2>4. QED
      BY <1>1, <2>1, <2>2, <2>3, LastIndex
  <1>3. /\ Acceptor \in Threads /\ Collector \in Threads /\ Acceptor # Collector
        /\ t # Acceptor /\ t # Collector /\ Acceptor \notin Conns /\ Collector \notin Conns
        /\ Role(Acceptor) = {"accept", "acceptPoll", "accepted"}
        /\ Role(Collector) = {"collect", "collectNext", "collectWait"}
    BY <1>2, Roles DEF Role
  <1> DEFINE f == ServerFrame("accept")
             g == ServerFrame("collect")
  <1>4. GoodFrame(Acceptor, f) /\ f.at = "accept" /\ GoodFrame(Collector, g) /\ g.at = "collect"
    <2>1. {"accept", "collect"} \subseteq ServerLabels /\ "" \in Args
      BY DEF ServerLabels, Args
    <2>2. QED
      BY <2>1, ServerLabelFrame DEF ServerFrame, Frame
  <1>5. /\ stk' = [stk EXCEPT ![t] = Pop(@),
                              ![Acceptor] = IF srv.accept THEN @ ELSE <<f>>,
                              ![Collector] = IF srv.collect THEN @ ELSE <<g>>]
        /\ srv' = [srv EXCEPT !.stop = FALSE, !.wake = 0, !.accept = TRUE, !.collect = TRUE]
        /\ UNCHANGED <<ws, net, log, eps, calls>>
    BY DEF SrvStart
  <1> HIDE DEF f, g
  <1>6. /\ stk'[t] = <<>>
        /\ stk'[Acceptor] = IF srv.accept THEN stk[Acceptor] ELSE <<f>>
        /\ stk'[Collector] = IF srv.collect THEN stk[Collector] ELSE <<g>>
        /\ \A u \in Threads \ {t, Acceptor, Collector} : stk'[u] = stk[u]
        /\ stk' = [u \in Threads |-> stk'[u]]
    BY <1>1, <1>2, <1>3, <1>5, PopOne DEF StacksOK
  <1>7. /\ Len(<<f>>) = 1 /\ <<f>>[1] = f /\ <<f>> # <<>>
        /\ Len(<<g>>) = 1 /\ <<g>>[1] = g /\ <<g>> # <<>>
    BY OneFrame
  <1>8. StacksOK'
    <2>1. \A u \in Threads : StackOK(u, stk[u])
      BY <1>1, StacksGood
    <2>2. StackOK(Acceptor, <<f>>) /\ StackOK(Collector, <<g>>) /\ StackOK(t, <<>>)
      <3>1. StackOK(t, Pop(stk[t])) /\ Pop(stk[t]) = <<>>
        BY <1>1, <1>2, StacksGood, PopOK, PopOne
      <3>2. QED
        BY <1>4, <3>1, NewStackOK
    <2>3. \A u \in Threads : StackOK(u, stk'[u])
      BY <1>6, <2>1, <2>2
    <2>4. QED
      BY <1>6, <2>3 DEF StacksOK, StackOK
  <1>9. Placed'
    <2>1. SUFFICES ASSUME NEW u \in Threads
                   PROVE  \/ stk'[u] = stk[u]
                          \/ stk'[u] = <<>>
                          \/ /\ Len(stk'[u]) = 1 /\ stk'[u][1].at \in Role(u)
                             /\ u \in Conns => stk'[u][1].c = u
      BY <1>1, PlacedFrom
    <2>2. CASE u = Acceptor
      BY <1>3, <1>4, <1>6, <1>7, <2>2
    <2>3. CASE u = Collector
      BY <1>3, <1>4, <1>6, <1>7, <2>3
    <2>4. QED
      BY <1>6, <2>2, <2>3
  <1>10. /\ \A u \in Threads \ {t, Acceptor, Collector} : Stage(u)' = Stage(u)
         /\ Stage(t)' = "none"
         /\ Stage(Acceptor)' = IF srv.accept THEN Stage(Acceptor) ELSE "accept"
         /\ Stage(Collector)' = IF srv.collect THEN Stage(Collector) ELSE "collect"
    BY <1>4, <1>6, <1>7 DEF Stage
  <1>11. /\ srv' \in ServerType /\ Taken' = Taken /\ srv'.queue = srv.queue
         /\ srv'.came = srv.came /\ srv'.threads = srv.threads /\ srv'.pass = srv.pass
         /\ srv'.clients = srv.clients /\ srv'.bound = srv.bound /\ srv'.ended = srv.ended
         /\ srv'.canGc = srv.canGc /\ srv'.stopGc = srv.stopGc
         /\ srv'.accept /\ srv'.collect
    BY <1>1, <1>5 DEF ServerType, Taken
  <1>12. TypeOK'
    BY <1>1, <1>5, <1>8, <1>9, <1>11, TypesKept DEF ServerOK, CallsOK
  <1>13. \A c \in Conns : Stage(c)' = Stage(c)
    <2>1. \A c \in Conns : c \in Threads \ {t, Acceptor, Collector}
      BY <1>2, <1>3, Roles DEF Threads
    <2>2. QED
      BY <1>10, <2>1
  <1>14. Stage(Collector) = "none" \/ srv.collect
    BY <1>1 DEF NotJoined
  <1>15. Lists'
    <2>1. Accounted'
      BY <1>1, <1>6, <1>10, <1>11, <1>13 DEF Lists, Accounted
    <2>2. ListedServed'
      BY <1>1, <1>11, <1>13 DEF Lists, ListedServed
    <2>3. EndedTerminated'
      BY <1>1, <1>11, <1>13 DEF Lists, EndedTerminated, ServerType
    <2>4. EndNoticed'
      BY <1>1, <1>10, <1>11, <1>13, <1>14 DEF Lists, EndNoticed, ServerType
    <2>5. QED
      BY <2>1, <2>2, <2>3, <2>4 DEF Lists
  <1>16. NotJoined'
    BY <1>11 DEF NotJoined
  <1>17. OneUser /\ StopInv => StopInv'
    <2> SUFFICES ASSUME OneUser, StopInv PROVE StopInv'
      OBVIOUS
    <2>1. \A S : "none" \notin S => ~UserAt(S)'
      BY <1>2, <1>10 DEF UserAt, OneUser
    <2>2. /\ ~srv.stopGc /\ ~(srv.collect /\ Stage(Collector) = "none")
      BY <1>2, UserStage
    <2>3. Stage(Collector)' # "none"
      BY <1>10, <1>14, <2>2
    <2>4. CollectorLast'
      BY <1>11, <2>2, <2>3 DEF CollectorLast
    <2>5. StopOrder'
      BY <2>1 DEF StopOrder
    <2>6. QED
      BY <2>4, <2>5 DEF StopInv
  <1>18. QED
    BY <1>9, <1>12, <1>15, <1>16, <1>17 DEF ServerInv

\* Only stop() can meet a connection without its callback: the call it makes
\* there ends with an exception.
LEMMA ThrownInv ==
    ASSUME NEW t \in Threads, TypeOK, ServerInv, Thrown(t)
    PROVE  /\ TypeOK' /\ ServerInv'
           /\ OneUser /\ StopInv => StopInv'
  <1>1. /\ TransportOK /\ StacksOK /\ SocketsOK /\ Placed /\ NotJoined /\ CallsOK /\ Lists
        /\ srv \in ServerType
    BY InvParts DEF TransportOK
  <1>2. PICK c : c = Top(t).c
    OBVIOUS
  <1>3. /\ At(t, "callback") /\ c \notin srv.bound /\ stk' = [stk EXCEPT ![t] = <<>>]
        /\ ws' = [ws EXCEPT ![c] = [ws[c] EXCEPT !.tx = IF @ = t THEN Nobody ELSE @]]
        /\ UNCHANGED <<net, log, srv, eps, calls>>
    BY <1>2 DEF Thrown
  <1>4. stk[t] # <<>> /\ c \in Conns /\ Top(t).at \in Inner /\ ws[c] \in SocketType
    <2>1. "callback" \notin ServerLabels /\ "callback" \in Inner
      BY DEF ServerLabels, Inner, MethodLabels
    <2>2. QED
      BY <1>1, <1>2, <1>3, <2>1, AtFrame
  <1>5. t \in Users /\ Stage(t) = "srvClose"
    <2>1. /\ Stage(t) \in {"served", "srvClose"} /\ t # Acceptor /\ t # Collector
          /\ t \in Conns => Stage(t) = "served" /\ Top(t).c = t
      BY <1>1, <1>4, InnerTop
    <2>2. t \notin Conns
      BY <1>1, <1>2, <1>3, <2>1 DEF Lists, ListedServed
    <2>3. t \in Users
      BY <2>1, <2>2, Roles
    <2>4. Stage(t) \in Role(t) /\ "served" \notin Role(t)
      BY <1>1, <1>4, <2>1, <2>3, StageRole, Roles DEF Role
    <2>5. QED
      BY <2>1, <2>3, <2>4
  <1>6. StacksOK'
    <2>1. StackOK(t, <<>>)
      <3>1. <<>> \in Seq(FrameType) /\ \A i : i \notin 1 .. Len(<<>>)
        OBVIOUS
      <3>2. QED
        BY <3>1 DEF StackOK
    <2>2. QED
      BY <1>1, <1>3, <2>1, StackStep
  <1>7. stk'[t] = <<>> /\ \A u \in Threads \ {t} : stk'[u] = stk[u]
    BY <1>1, <1>3 DEF StacksOK
  <1>8. Placed' /\ Stages(t, "none")
    BY <1>1, <1>7, PlacedFrom DEF Stages, Stage
  <1>9. SocketsOK' /\ CallsOK'
    <2>1. [ws[c] EXCEPT !.tx = IF @ = t THEN Nobody ELSE @] \in SocketType
      BY <1>4 DEF SocketType
    <2>2. QED
      BY <1>1, <1>3, <1>4, <2>1, SocketStep DEF CallsOK
  <1>10. TypeOK' /\ ServerInv'
    BY <1>1, <1>3, <1>5, <1>6, <1>8, <1>9, UserKept DEF NotJoined
  <1>11. OneUser /\ StopInv => StopInv'
    BY <1>3, <1>5, <1>8, UserStage, UserStop
  <1>12. QED
    BY <1>10, <1>11


-----------------------------------------------------------------------------
(* The network, and every step.                                            *)

LEMMA ArriveInv ==
    ASSUME NEW c \in Conns, TypeOK, ServerInv, Arrive(c)
    PROVE  /\ TypeOK' /\ ServerInv'
           /\ StopInv => StopInv'
  <1>1. /\ StacksOK /\ Placed /\ NotJoined /\ CallsOK /\ Lists /\ ServerOK
        /\ srv \in ServerType
    BY InvParts
  <1>2. /\ c \notin srv.came /\ UNCHANGED <<ws, net, stk, log, eps, calls>>
        /\ srv' = [srv EXCEPT !.came = @ \cup {c}, !.queue = @ \cup {c}]
    BY DEF Arrive
  <1>3. /\ srv' \in ServerType /\ srv'.came = srv.came \cup {c}
        /\ srv'.queue = srv.queue \cup {c}
        /\ srv'.threads = srv.threads /\ srv'.pass = srv.pass
        /\ srv'.clients = srv.clients /\ srv'.bound = srv.bound /\ srv'.ended = srv.ended
        /\ srv'.canGc = srv.canGc /\ srv'.stopGc = srv.stopGc
        /\ srv'.accept = srv.accept /\ srv'.collect = srv.collect
    BY <1>1, <1>2 DEF ServerType
  <1>4. Taken' = Taken /\ ServerOK' /\ CallsOK' /\ StacksOK' /\ Placed'
    BY <1>1, <1>2, <1>3 DEF Taken, ServerOK, CallsOK, StacksOK, Placed
  <1>5. \A t : Stage(t)' = Stage(t)
    BY <1>2 DEF Stage
  <1>6. TypeOK'
    BY <1>2, <1>4, TypesKept
  <1>7. Lists'
    BY <1>1, <1>2, <1>3, <1>4, <1>5, ListsKept
  <1>8. NotJoined'
    BY <1>1, <1>3, <1>5 DEF NotJoined
  <1>9. StopInv => StopInv'
    BY <1>3, <1>5, StopKept
  <1>10. QED
    BY <1>4, <1>6, <1>7, <1>8, <1>9 DEF ServerInv

\* The steps of the peers and of the clock, and none at all.
LEMMA OutsideInv ==
    ASSUME TypeOK, ServerInv,
           \/ \E c \in Conns : Environment(c) /\ UNCHANGED <<srv, eps, calls>>
           \/ UNCHANGED vars
    PROVE  /\ TypeOK' /\ ServerInv'
           /\ StopInv => StopInv'
  <1>1. TransportOK /\ ServerOK /\ CallsOK
    BY InvParts
  <1>2. UNCHANGED <<stk, srv, eps, calls>> /\ TransportOK'
    <2>1. CASE \E c \in Conns : Environment(c) /\ UNCHANGED <<srv, eps, calls>>
      <3>1. PICK c \in Conns : Environment(c) /\ UNCHANGED <<srv, eps, calls>>
        BY <2>1
      <3>2. TransportOK'
        BY <1>1, <3>1, EnvironmentTypes
      <3>3. UNCHANGED stk
        BY <3>1 DEF Environment, PeerSend, PeerAnswer, PeerPong, Break, ClosingDelay,
           PingInterval
      <3>4. QED
        BY <3>1, <3>2, <3>3
    <2>2. CASE UNCHANGED vars
      BY <1>1, <2>2 DEF vars, TransportOK, SocketsOK, PeersOK, StacksOK, LogsOK
    <2>3. QED
      BY <2>1, <2>2
  <1>3. \A t : Stage(t)' = Stage(t)
    BY <1>2 DEF Stage
  <1>4. TypeOK'
    BY <1>2 DEF TypeOK, ServerOK
  <1>5. ServerInv'
    <2>1. Placed' /\ NotJoined'
      BY <1>2, <1>3 DEF ServerInv, Placed, NotJoined
    <2>2. Lists'
      BY <1>1, <1>2, <1>3, InvParts, ListsKept DEF Taken
    <2>3. QED
      BY <2>1, <2>2 DEF ServerInv
  <1>6. StopInv => StopInv'
    BY <1>2, <1>3, StopKept
  <1>7. QED
    BY <1>4, <1>5, <1>6

LEMMA InitInv ==
    ASSUME Init
    PROVE  TypeOK /\ ServerInv /\ StopInv
  <1>1. /\ SocketsOK /\ PeersOK
    BY FreshOK DEF Init, SocketsOK, PeersOK
  <1>2. LogsOK /\ StacksOK
    <2>1. <<>> \in Seq(Events) /\ <<>> \in Seq(FrameType) /\ Len(<<>>) = 0
      OBVIOUS
    <2>2. \A i : i \notin 1 .. 0
      OBVIOUS
    <2>3. QED
      BY <2>1, <2>2 DEF Init, LogsOK, StacksOK
  <1>3. /\ \A t \in Threads : stk[t] = <<>>
        /\ \A t \in Threads : Stage(t) = "none"
    BY DEF Init, Stage
  <1>4. ServerOK
    BY DEF Init, NewServer, ServerOK, ServerType
  <1>5. TypeOK
    BY <1>1, <1>2, <1>3, <1>4, ServerAssumption
       DEF Init, NewServer, TypeOK, TransportOK, Threads
  <1>6. Placed
    BY <1>3 DEF Placed
  <1>7. Lists
    BY <1>3, Roles
       DEF Init, NewServer, Lists, Accounted, ListedServed, EndedTerminated, EndNoticed,
           Taken, Threads
  <1>8. NotJoined
    BY <1>3, Roles DEF NotJoined
  <1>9. StopInv
    BY <1>3, Roles DEF Init, NewServer, StopInv, CollectorLast, StopOrder, UserAt
  <1>10. QED
    BY <1>5, <1>6, <1>7, <1>8, <1>9 DEF ServerInv

LEMMA NextInv ==
    ASSUME TypeOK, ServerInv, [Next]_vars
    PROVE  /\ TypeOK' /\ ServerInv'
           /\ OneUser /\ StopInv => StopInv'
  <1>1. CASE \E t \in Users, op \in {"start", "stop"} : UserCall(t, op)
    BY <1>1, UserCallInv
  <1>2. ASSUME NEW t \in Threads, ThreadStep(t)
        PROVE  /\ TypeOK' /\ ServerInv'
               /\ OneUser /\ StopInv => StopInv'
    <2>1. CASE InnerStep(t)
      BY <2>1, InnerInv
    <2>2. CASE Accept(t) \/ AcceptWoken(t) \/ AcceptPoll(t)
      BY <2>2, AcceptInv
    <2>3. CASE Accepted(t)
      BY <2>3, AcceptedInv
    <2>4. CASE \/ Serve(t) \/ Served(t) \/ Unlist(t) \/ SetTerminated(t)
               \/ OnSetTerminated(t)
      BY <2>4, ServeInv
    <2>5. CASE Collect(t) \/ CollectNext(t) \/ Collected(t) \/ CollectWait(t)
      BY <2>5, CollectInv
    <2>6. CASE SrvStart(t)
      BY <2>6, SrvStartInv
    <2>7. CASE \/ SrvStop(t) \/ SrvClose(t) \/ StopAcceptor(t) \/ JoinAcceptor(t)
               \/ StopCollector(t) \/ JoinCollector(t) \/ SrvStopped(t)
      BY <2>7, StopStepsInv
    <2>8. CASE Thrown(t)
      BY <2>8, ThrownInv
    <2>9. QED
      BY <1>2, <2>1, <2>2, <2>3, <2>4, <2>5, <2>6, <2>7, <2>8
         DEF ThreadStep, ServerStep, InnerStep
  <1>3. CASE \E c \in Conns : Arrive(c)
    BY <1>3, ArriveInv
  <1>4. CASE \/ \E c \in Conns : Environment(c) /\ UNCHANGED <<srv, eps, calls>>
             \/ UNCHANGED vars
    BY <1>4, OutsideInv
  <1>5. QED
    BY <1>1, <1>2, <1>3, <1>4 DEF Next, Quiet

-----------------------------------------------------------------------------
(* The endpoints: what a step of a connection's thread does to its stack.  *)

\* The labels of the points that Starting and Running speak of.
LEMMA StartingLabels ==
    ASSUME NEW f
    PROVE  /\ Starting(f) => f.at \notin {"callback", "nowClosed", "erase", "opened"}
           /\ f.at \in Handshaking \cup {"open"} => Starting(f)
           /\ Announcing(f) => f.at = "callback"
           /\ f.at \in { "callback", "nowClosed", "erase", "release", "event", "openDone",
                         "send", "close", "stop", "stopThread", "join", "stopped" } =>
                  ~Running(f) /\ f.at \notin Handshaking /\ ~Starting(f)
  BY DEF Starting, Announcing, Running, RunLabels, LoopLabels, Handshaking, Opening

\* The step leaves the order of the calls: handleConnection, the loop, and
\* what the loop calls.
KeepsLayers(c, m, g, h) ==
    LET f == Top(c) IN
    /\ m # "return" =>
          /\ Running(g) \/ g.at \in Handshaking <=> Running(f) \/ f.at \in Handshaking
          /\ ~Announcing(g)
    /\ m = "call" =>
          /\ ~Starting(g) /\ ~Starting(h) /\ ~Running(h)
          /\ Announcing(h) => f.at = "open" /\ g.at = "opened"

\* The end of the connection and the end of the loop.
KeepsOpen(c, m, g) ==
    LET f == Top(c) IN
    /\ ws'[c].st = "CLOSED" => ws[c].st = "CLOSED" \/ f.at = "nowClosed"
    /\ m = "return" /\ (Running(f) \/ f.at \in Handshaking) =>
          ws[c].st = "CLOSED" \/ ws[c].stop \/ Starting(f)
    /\ m # "return" /\ Starting(g) => Starting(f) \/ ws[c].st = "CLOSED"
    /\ m # "return" /\ g.at = "open" => ws'[c].st # "CLOSED"

\* The reports to the callback.
KeepsReports(c, m, g, h) ==
    LET f == Top(c) IN
    /\ m = "jump" => g.at # "nowClosed"
    /\ m = "call" =>
          /\ h.at # "nowClosed"
          /\ g.at = "nowClosed" => h.at = "callback" /\ h.arg = "close"
    /\ f.at = "callback" /\ f.arg = "close" /\ c \in eps.of => m # "return" /\ g.at = "erase"
    /\ f.at = "erase" => c \notin eps'.of
    /\ c \in eps'.of \ eps.of => Announcing(f) /\ m = "call" /\ g.at = "openDone"

OwnMove(c) ==
    \E m, g, h :
        /\ Moves(c, m, g, h) /\ KeepsLayers(c, m, g, h) /\ KeepsOpen(c, m, g)
        /\ KeepsReports(c, m, g, h)

LEMMA LayeredKept ==
    ASSUME NEW c \in Conns, StacksOK, StacksOK', Layered(c), NEW m, NEW g, NEW h,
           Moves(c, m, g, h), KeepsLayers(c, m, g, h), Len(stk[c]) > 1
    PROVE  Layered(c)'
  <1> DEFINE n == Len(stk[c])
  <1>1. n \in Nat /\ n > 1 /\ Top(c) = stk[c][n] /\ n \in 1 .. n /\ stk[c] # <<>> /\ c \in Threads
    <2>1. c \in Threads /\ stk[c] # <<>>
      BY DEF Threads, Moves
    <2>2. QED
      BY <2>1, LastFrame
  <1>2. SUFFICES ASSUME NEW i \in 1 .. Len(stk'[c])
                 PROVE  /\ (i = 2) <=> (Running(stk'[c][i]) \/ stk'[c][i].at \in Handshaking)
                        /\ Starting(stk'[c][i]) => i = Len(stk'[c])
                        /\ Announcing(stk'[c][i]) =>
                               i = 3 /\ i = Len(stk'[c]) /\ stk'[c][2].at = "opened"
    BY DEF Layered, Running, Starting, Announcing
  <1>3. \/ i < n /\ stk'[c][i] = stk[c][i]
        \/ i = n /\ m # "return" /\ stk'[c][i] = g
        \/ i = n + 1 /\ m = "call" /\ stk'[c][i] = h
    BY <1>1, FramesAfter
  <1>4. \A j \in 1 .. n :
            /\ (j = 2) <=> (Running(stk[c][j]) \/ stk[c][j].at \in Handshaking)
            /\ Starting(stk[c][j]) => j = n
            /\ Announcing(stk[c][j]) => j = 3 /\ j = n /\ stk[c][2].at = "opened"
    BY DEF Layered
  <1>5. Len(stk'[c]) = IF m = "return" THEN n - 1 ELSE IF m = "jump" THEN n ELSE n + 1
    BY DEF Moves
  <1>6. m \in {"return", "jump", "call"} /\ (m = "call" => stk'[c][n] = g)
    BY DEF Moves
  <1> HIDE DEF n
  <1>7. CASE i < n /\ stk'[c][i] = stk[c][i]
    <2>1. i \in 1 .. n /\ i # n
      BY <1>1, <1>7
    <2>2. QED
      BY <1>4, <1>7, <2>1
  <1>8. CASE i = n /\ m # "return" /\ stk'[c][i] = g
    BY <1>1, <1>4, <1>5, <1>6, <1>8 DEF KeepsLayers
  <1>9. CASE i = n + 1 /\ m = "call" /\ stk'[c][i] = h
    <2>1. i # 2 /\ i = Len(stk'[c])
      BY <1>1, <1>5, <1>9
    <2>2. ~Running(h) /\ ~Starting(h) /\ h.at \notin Handshaking
      BY <1>9, StartingLabels DEF KeepsLayers
    <2>3. Announcing(h) => n = 2 /\ g.at = "opened"
      <3>1. Announcing(h) => Top(c).at = "open" /\ g.at = "opened"
        BY <1>9 DEF KeepsLayers
      <3>2. Top(c).at = "open" => Running(Top(c))
        BY DEF Running, RunLabels, LoopLabels
      <3>3. QED
        BY <1>1, <1>4, <3>1, <3>2
    <2>4. QED
      BY <1>1, <1>6, <1>9, <2>1, <2>2, <2>3
  <1>10. QED
    BY <1>3, <1>7, <1>8, <1>9

LEMMA ReportedKept ==
    ASSUME NEW c \in Conns, StacksOK, StacksOK', Reported(c), NEW m, NEW g, NEW h,
           Moves(c, m, g, h), KeepsReports(c, m, g, h), c \in eps.of, c \in eps'.of
    PROVE  Reported(c)' /\ Top(c).at # "nowClosed"
  <1> DEFINE n == Len(stk[c])
  <1>1. n \in Nat /\ n >= 1 /\ Top(c) = stk[c][n] /\ n \in 1 .. n /\ stk[c] # <<>> /\ c \in Threads
    <2>1. c \in Threads /\ stk[c] # <<>>
      BY DEF Threads, Moves
    <2>2. QED
      BY <2>1, LastFrame
  <1>2. \A j \in 1 .. n : stk[c][j].at = "nowClosed" =>
            /\ j < n
            /\ \/ stk[c][j + 1].at = "erase"
               \/ /\ j + 1 = n
                  /\ stk[c][j + 1].at = "callback" /\ stk[c][j + 1].arg = "close"
    BY DEF Reported
  <1>3. \A i \in 1 .. Len(stk'[c]) :
            \/ i < n /\ stk'[c][i] = stk[c][i]
            \/ i = n /\ m # "return" /\ stk'[c][i] = g
            \/ i = n + 1 /\ m = "call" /\ stk'[c][i] = h
    BY <1>1, FramesAfter
  <1>4. /\ Len(stk'[c]) = IF m = "return" THEN n - 1 ELSE IF m = "jump" THEN n ELSE n + 1
        /\ m \in {"return", "jump", "call"} /\ Len(stk'[c]) \in Nat
        /\ m = "call" => stk'[c][n] = g /\ stk'[c][n + 1] = h
        /\ m = "jump" => stk'[c][n] = g
        /\ \A i \in 1 .. n - 1 : stk'[c][i] = stk[c][i]
    BY DEF Moves, StacksOK, Threads
  <1> HIDE DEF n
  <1>5. Top(c).at # "nowClosed" /\ Top(c).at # "erase"
    BY <1>1, <1>2 DEF KeepsReports
  <1>6. SUFFICES ASSUME NEW i \in 1 .. Len(stk'[c]), stk'[c][i].at = "nowClosed"
                 PROVE  /\ i < Len(stk'[c])
                        /\ \/ stk'[c][i + 1].at = "erase"
                           \/ /\ i + 1 = Len(stk'[c])
                              /\ stk'[c][i + 1].at = "callback" /\ stk'[c][i + 1].arg = "close"
    BY <1>5 DEF Reported
  <1>7. CASE i < n /\ stk'[c][i] = stk[c][i]
    <2>1. i \in 1 .. n
      BY <1>1, <1>7
    <2>2. \/ stk[c][i + 1].at = "erase"
          \/ i + 1 = n /\ stk[c][i + 1].at = "callback" /\ stk[c][i + 1].arg = "close"
      BY <1>2, <1>6, <1>7, <2>1
    <2>3. CASE i + 1 = n
      <3>1. Top(c).at = "callback" /\ Top(c).arg = "close"
        BY <1>1, <1>5, <2>2, <2>3
      <3>2. m # "return" /\ g.at = "erase"
        BY <3>1 DEF KeepsReports
      <3>3. QED
        BY <1>1, <1>4, <2>3, <3>2
    <2>4. CASE i + 1 # n
      <3>1. i + 1 \in 1 .. n - 1 /\ i + 1 \in Nat
        BY <1>1, <1>7, <2>4
      <3>2. stk'[c][i + 1] = stk[c][i + 1] /\ i + 1 <= Len(stk'[c])
        BY <1>1, <1>4, <3>1
      <3>3. stk[c][i + 1].at = "erase"
        BY <2>2, <2>4
      <3>4. QED
        BY <1>4, <3>1, <3>2, <3>3
    <2>5. QED
      BY <2>3, <2>4
  <1>8. CASE i = n /\ m # "return" /\ stk'[c][i] = g
    <2>1. m = "call" /\ h.at = "callback" /\ h.arg = "close"
      BY <1>4, <1>6, <1>8 DEF KeepsReports
    <2>2. QED
      BY <1>1, <1>4, <1>8, <2>1
  <1>9. CASE i = n + 1 /\ m = "call" /\ stk'[c][i] = h
    BY <1>6, <1>9 DEF KeepsReports
  <1>10. QED
    BY <1>3, <1>7, <1>8, <1>9

\* A step that an endpoint's connection makes itself leaves it in order, unless
\* the loop is told to stop.
LEMMA OwnKept ==
    ASSUME NEW c \in Conns, StacksOK, StacksOK', OwnMove(c), Layered(c),
           Len(stk[c]) > 1, Stage(c) = "served", Stage(c)' = "served", ~ws[c].stop,
           ListedOpen(c), OpensOpen(c)
    PROVE  ListedOpen(c)' /\ OpensOpen(c)'
  <1>1. PICK m, g, h : /\ Moves(c, m, g, h) /\ KeepsLayers(c, m, g, h) /\ KeepsOpen(c, m, g)
                       /\ KeepsReports(c, m, g, h)
    BY DEF OwnMove
  <1> DEFINE n == Len(stk[c])
  <1>2. /\ n \in Nat /\ n > 1 /\ Top(c) = stk[c][n] /\ n \in 1 .. n /\ stk[c] # <<>>
        /\ c \in Threads /\ 2 \in 1 .. n
    <2>1. c \in Threads /\ stk[c] # <<>>
      BY <1>1 DEF Threads, Moves
    <2>2. QED
      BY <2>1, LastFrame
  <1>3. \A j \in 1 .. n :
            /\ (j = 2) <=> (Running(stk[c][j]) \/ stk[c][j].at \in Handshaking)
            /\ Starting(stk[c][j]) => j = n
            /\ Announcing(stk[c][j]) => j = 3 /\ j = n /\ stk[c][2].at = "opened"
    BY DEF Layered
  <1>4. /\ Len(stk'[c]) = IF m = "return" THEN n - 1 ELSE IF m = "jump" THEN n ELSE n + 1
        /\ m \in {"return", "jump", "call"} /\ Len(stk'[c]) \in Nat
        /\ m = "call" => stk'[c][n] = g /\ stk'[c][n + 1] = h
        /\ m = "jump" => stk'[c][n] = g
        /\ \A i \in 1 .. n - 1 : stk'[c][i] = stk[c][i]
    BY <1>1 DEF Moves, StacksOK, Threads
  <1>5. OpensOpen(c)'
    <2> SUFFICES ASSUME stk'[c] # <<>>, Top(c)'.at = "open" \/ Announcing(Top(c)')
                 PROVE  ws'[c].st # "CLOSED"
      BY DEF OpensOpen, Announcing
    <2>1. Top(c)' = stk'[c][Len(stk'[c])]
      BY DEF Top
    <2> HIDE DEF n
    <2>2. CASE m = "return"
      <3>1. n - 1 \in 1 .. n - 1 /\ n - 1 \in 1 .. n /\ Top(c)' = stk[c][n - 1]
        BY <1>2, <1>4, <2>1, <2>2
      <3>2. ~Starting(stk[c][n - 1]) /\ ~Announcing(stk[c][n - 1])
        BY <1>2, <1>3, <3>1
      <3>3. QED
        BY <3>1, <3>2, StartingLabels
    <2>3. CASE m = "jump"
      <3>1. Top(c)' = g
        BY <1>4, <2>1, <2>3
      <3>2. QED
        BY <1>1, <2>3, <3>1 DEF KeepsLayers, KeepsOpen
    <2>4. CASE m = "call"
      <3>1. Top(c)' = h
        BY <1>2, <1>4, <2>1, <2>4
      <3>2. Top(c).at = "open"
        BY <1>1, <2>4, <3>1, StartingLabels DEF KeepsLayers
      <3>3. ws[c].st # "CLOSED"
        BY <1>2, <3>2 DEF OpensOpen
      <3>4. QED
        BY <1>1, <3>2, <3>3 DEF KeepsOpen
    <2>5. QED
      BY <1>4, <2>2, <2>3, <2>4
  <1>6. ASSUME c \in eps.of, c \in eps'.of
        PROVE  /\ Len(stk'[c]) > 1 /\ ~Starting(stk'[c][2])
               /\ ws'[c].st # "CLOSED" /\ Reported(c)'
    <2>1. ws[c].st # "CLOSED" /\ Reported(c) /\ ~Starting(stk[c][2])
      BY <1>6 DEF ListedOpen
    <2>2. Reported(c)' /\ Top(c).at # "nowClosed"
      BY <1>1, <1>6, <2>1, ReportedKept
    <2>3. ws'[c].st # "CLOSED"
      BY <1>1, <2>1, <2>2 DEF KeepsOpen
    <2> HIDE DEF n
    <2>4. CASE n = 2
      <3>1. /\ Running(Top(c)) \/ Top(c).at \in Handshaking
            /\ ~Starting(Top(c)) /\ m # "return"
        BY <1>1, <1>2, <1>3, <2>1, <2>4 DEF KeepsOpen
      <3>2. stk'[c][2] = g /\ Len(stk'[c]) > 1
        BY <1>4, <2>4, <3>1
      <3>3. ~Starting(g)
        BY <1>1, <2>1, <3>1 DEF KeepsOpen
      <3>4. QED
        BY <2>2, <2>3, <3>2, <3>3
    <2>5. CASE n # 2
      <3>1. 2 \in 1 .. n - 1 /\ Len(stk'[c]) > 1
        BY <1>2, <1>4, <2>5
      <3>2. stk'[c][2] = stk[c][2]
        BY <1>4, <3>1
      <3>3. QED
        BY <2>1, <2>2, <2>3, <3>1, <3>2
    <2>6. QED
      BY <2>4, <2>5
  <1>7. ASSUME c \notin eps.of, c \in eps'.of
        PROVE  /\ Len(stk'[c]) > 1 /\ ~Starting(stk'[c][2])
               /\ ws'[c].st # "CLOSED" /\ Reported(c)'
    <2>1. Announcing(Top(c)) /\ m = "call" /\ g.at = "openDone" /\ h.at # "nowClosed"
      BY <1>1, <1>7 DEF KeepsReports
    <2>2. n = 3 /\ stk[c][2].at = "opened"
      BY <1>2, <1>3, <2>1
    <2>3. /\ Len(stk'[c]) = 4 /\ stk'[c][3] = g /\ stk'[c][4] = h
          /\ stk'[c][1] = stk[c][1] /\ stk'[c][2] = stk[c][2]
      <3>1. 1 \in 1 .. 3 - 1 /\ 2 \in 1 .. 3 - 1 /\ 3 + 1 = 4
        OBVIOUS
      <3>2. QED
        BY <1>4, <2>1, <2>2, <3>1
    <2>4. stk[c][1].at = "served"
      BY <1>2 DEF Stage
    <2>5. \A i \in 1 .. Len(stk'[c]) : stk'[c][i].at # "nowClosed"
      <3>1. \A i \in 1 .. 4 : i \in {1, 2, 3, 4}
        OBVIOUS
      <3>2. QED
        BY <2>1, <2>2, <2>3, <2>4, <3>1
    <2>6. Reported(c)'
      BY <2>5 DEF Reported
    <2>7. ~Starting(stk'[c][2])
      BY <2>2, <2>3, StartingLabels
    <2>8. ws'[c].st # "CLOSED"
      <3>1. ws[c].st # "CLOSED"
        BY <1>2, <2>1 DEF OpensOpen
      <3>2. Top(c).at # "nowClosed"
        BY <2>1, StartingLabels
      <3>3. QED
        BY <1>1, <3>1, <3>2 DEF KeepsOpen
    <2>9. QED
      BY <2>3, <2>6, <2>7, <2>8
  <1>8. ListedOpen(c)'
    <2> SUFFICES ASSUME c \in eps'.of
                 PROVE  /\ Len(stk'[c]) > 1 /\ ~Starting(stk'[c][2])
                        /\ ws'[c].st # "CLOSED" /\ Reported(c)'
      BY DEF ListedOpen, Starting
    <2>1. QED
      BY <1>6, <1>7
  <1>9. QED
    BY <1>5, <1>8

-----------------------------------------------------------------------------
(* Every step of a connection's thread inside handleConnection.            *)

LEMMA PlainOwn ==
    ASSUME NEW c \in Conns, TransportOK, PlainStep(c), Top(c).c = c, UNCHANGED eps
    PROVE  OwnMove(c)
  <1>1. PICK m, g, h : Moves(c, m, g, h) /\ PlainAs(c, m, g, h)
    BY DEF PlainStep
  <1> DEFINE f == Top(c)
  <1>2. f.at \in PlainPoints /\ Passes(f, m, g, h) /\ m \in {"return", "jump", "call"}
    BY <1>1 DEF PlainAs, Moves
  <1>3. f.at \notin Handshaking \cup {"callback", "erase"}
    BY <1>2 DEF PlainPoints, Handshaking, LoopLabels, MethodLabels
  <1>4. m # "return" => ~Starting(g) /\ g.at \notin Handshaking /\ g.at # "callback"
    BY <1>2 DEF Passes, Followers, Starting, Handshaking, Opening, RunLabels, LoopLabels,
       SendPath
  <1>5. m = "call" => ~Starting(h) /\ ~Running(h) /\ ~Announcing(h) /\ h.at # "nowClosed"
    BY <1>2 DEF Passes, Callees, Starting, Announcing, Running, Handshaking, Opening,
       RunLabels, LoopLabels
  <1>6. KeepsLayers(c, m, g, h)
    BY <1>2, <1>3, <1>4, <1>5 DEF KeepsLayers, Passes, Announcing
  <1>7. KeepsOpen(c, m, g)
    <2>1. ws'[c].st = "CLOSED" => ws[c].st = "CLOSED" \/ f.at = "nowClosed"
      BY <1>1 DEF PlainAs
    <2>2. m = "return" /\ Running(f) => ws[c].st = "CLOSED" \/ ws[c].stop
      BY <1>1 DEF PlainAs, Passes
    <2>3. m # "return" => g.at # "open"
      BY <1>4 DEF Starting
    <2>4. QED
      BY <1>3, <1>4, <2>1, <2>2, <2>3 DEF KeepsOpen
  <1>8. KeepsReports(c, m, g, h)
    BY <1>2, <1>3, <1>5 DEF KeepsReports, Passes
  <1>9. QED
    BY <1>1, <1>6, <1>7, <1>8 DEF OwnMove

\* A thread of the loop, or in the handshake, jumps within it; a method of the
\* transport to one of its own points.
LEMMA JumpOwn ==
    ASSUME NEW c \in Conns, StacksOK, stk[c] # <<>>, NEW label, NEW x, JumpWith(c, label, x),
           LET f == Top(c)
               g == Frame(label, Top(c).c, x)
           IN  /\ Running(g) \/ g.at \in Handshaking <=> Running(f) \/ f.at \in Handshaking
               /\ Starting(g) => Starting(f) \/ ws[c].st = "CLOSED"
               /\ f.at # "erase" \/ c \notin eps'.of
               /\ f.at = "callback" /\ c \in eps.of => label = "erase",
           label \notin {"nowClosed", "callback"},
           ws'[c].st = "CLOSED" => ws[c].st = "CLOSED" /\ label # "open",
           eps'.of \subseteq eps.of
    PROVE  OwnMove(c)
  <1> DEFINE g == Frame(label, Top(c).c, x)
  <1>1. Moves(c, "jump", g, Top(c))
    BY JumpMoves DEF Threads
  <1>2. g.at = label /\ ~Announcing(g)
    BY DEF Frame, Announcing
  <1> HIDE DEF g
  <1>3. /\ Running(g) \/ g.at \in Handshaking <=> Running(Top(c)) \/ Top(c).at \in Handshaking
        /\ Starting(g) => Starting(Top(c)) \/ ws[c].st = "CLOSED"
    BY DEF g
  <1>4. KeepsLayers(c, "jump", g, Top(c))
    BY <1>2, <1>3 DEF KeepsLayers
  <1>5. KeepsOpen(c, "jump", g)
    BY <1>2, <1>3 DEF KeepsOpen
  <1>6. KeepsReports(c, "jump", g, Top(c))
    BY <1>2 DEF KeepsReports
  <1>7. QED
    BY <1>1, <1>4, <1>5, <1>6 DEF OwnMove

LEMMA ReturnOwn ==
    ASSUME NEW c \in Conns, StacksOK, stk[c] # <<>>, Return(c),
           Running(Top(c)) \/ Top(c).at \in Handshaking => Starting(Top(c)),
           Top(c).at # "erase", Top(c).at # "callback" \/ c \notin eps.of,
           ws'[c].st = ws[c].st, eps'.of \subseteq eps.of
    PROVE  OwnMove(c)
  <1>1. Moves(c, "return", Top(c), Top(c))
    BY ReturnMoves DEF Threads
  <1>2. /\ KeepsLayers(c, "return", Top(c), Top(c)) /\ KeepsOpen(c, "return", Top(c))
        /\ KeepsReports(c, "return", Top(c), Top(c))
    BY DEF KeepsLayers, KeepsOpen, KeepsReports
  <1>3. QED
    BY <1>1, <1>2 DEF OwnMove

LEMMA CallOwn ==
    ASSUME NEW c \in Conns, StacksOK, stk[c] # <<>>,
           NEW label, NEW callee, NEW y, NEW x, CallFrom(c, label, y, callee, x),
           LET f == Top(c)
               g == Frame(label, Top(c).c, y)
               h == Frame(callee, Top(c).c, x)
           IN  /\ Running(g) \/ g.at \in Handshaking <=> Running(f) \/ f.at \in Handshaking
               /\ ~Starting(g) /\ ~Starting(h) /\ ~Running(h)
               /\ Announcing(h) => f.at = "open" /\ g.at = "opened"
               /\ f.at # "erase"
               /\ f.at = "callback" /\ f.arg = "close" /\ c \in eps.of => label = "erase"
               /\ c \in eps'.of \ eps.of => Announcing(f) /\ label = "openDone",
           label \notin {"nowClosed", "callback"}, callee # "nowClosed",
           ws'[c].st = ws[c].st
    PROVE  OwnMove(c)
  <1> DEFINE f == Top(c)
             g == Frame(label, Top(c).c, y)
             h == Frame(callee, Top(c).c, x)
  <1>1. Moves(c, "call", g, h)
    BY CallMoves DEF Threads
  <1>2. g.at = label /\ h.at = callee /\ ~Announcing(g)
    BY DEF Frame, Announcing
  <1>3. /\ Running(g) \/ g.at \in Handshaking <=> Running(f) \/ f.at \in Handshaking
        /\ ~Starting(g) /\ ~Starting(h) /\ ~Running(h)
        /\ Announcing(h) => f.at = "open" /\ g.at = "opened"
        /\ f.at # "erase"
        /\ f.at = "callback" /\ f.arg = "close" /\ c \in eps.of => label = "erase"
        /\ c \in eps'.of \ eps.of => Announcing(f) /\ label = "openDone"
    OBVIOUS
  <1> HIDE DEF g, h, f
  <1>4. KeepsLayers(c, "call", g, h)
    BY <1>2, <1>3 DEF KeepsLayers, f
  <1>5. KeepsOpen(c, "call", g)
    BY <1>2, <1>3, StartingLabels DEF KeepsOpen, f
  <1>6. KeepsReports(c, "call", g, h)
    BY <1>2, <1>3 DEF KeepsReports, f
  <1>7. QED
    BY <1>1, <1>4, <1>5, <1>6 DEF OwnMove

LEMMA OpeningOwn ==
    ASSUME NEW c \in Conns, TransportOK, Placed, Top(c).c = c, UNCHANGED eps,
           \/ Check(c) \/ Connect(c) \/ Handshake(c) \/ Upgrade(c) \/ UpgradeFails(c)
           \/ Upgraded(c) \/ Open(c)
           \/ Stop(c) \/ StopThread(c) \/ Join(c) \/ Stopped(c)
    PROVE  OwnMove(c)
  <1>1. StacksOK /\ DOMAIN ws = Conns /\ ws \in [Conns -> SocketType]
    BY DEF TransportOK, SocketsOK
  <1>0. ASSUME \/ \E x : ws' = [ws EXCEPT ![c].first = x]
               \/ \E x : ws' = [ws EXCEPT ![c].stop = x]
               \/ \E x, y : ws' = [ws EXCEPT ![c].stop = x, ![c].joinable = y]
               \/ ws' = ws
        PROVE  ws'[c].st = ws[c].st
    <2>1. c \in DOMAIN ws /\ "st" \in DOMAIN ws[c]
      BY <1>1 DEF SocketType
    <2>2. ASSUME NEW x, ws' = [ws EXCEPT ![c].first = x]
          PROVE  ws'[c].st = ws[c].st
      BY <2>1, <2>2
    <2>3. ASSUME NEW x, ws' = [ws EXCEPT ![c].stop = x]
          PROVE  ws'[c].st = ws[c].st
      BY <2>1, <2>3
    <2>4. ASSUME NEW x, NEW y, ws' = [ws EXCEPT ![c].stop = x, ![c].joinable = y]
          PROVE  ws'[c].st = ws[c].st
      BY <2>1, <2>4
    <2>5. QED
      BY <1>0, <2>2, <2>3, <2>4
  <1> USE <1>1
  <1>2. CASE Check(c)
    <2>1. stk[c] # <<>> /\ Top(c).at = "check" /\ ws'[c].st = ws[c].st
      BY <1>0, <1>2 DEF Check, At
    <2>2. CASE JumpWith(c, "loop", "")
      BY <2>1, <2>2, JumpOwn DEF Frame, Running, Starting, RunLabels, LoopLabels,
          Opening, Handshaking
    <2>3. CASE JumpWith(c, "connect", "") /\ ws[c].st = "CLOSED"
      BY <2>1, <2>3, JumpOwn DEF Frame, Running, Starting, RunLabels, LoopLabels,
          Opening, Handshaking
    <2>4. QED
      BY <1>2, <2>2, <2>3 DEF Check, SocketType, ReadyState
  <1>3. CASE Connect(c)
    <2>1. stk[c] # <<>> /\ Top(c).at = "connect" /\ ws'[c].st = ws[c].st
      <3>1. \/ ws' = ws
            \/ ws' = [ws EXCEPT ![c].sk = c, ![c].fd = "shut", ![c].pipe = <<>>]
        BY <1>3 DEF Connect
      <3>2. c \in DOMAIN ws /\ "st" \in DOMAIN ws[c]
        BY DEF SocketType
      <3>3. ws'[c].st = ws[c].st
        BY <3>1, <3>2
      <3>4. QED
        BY <1>3, <3>3 DEF Connect, At
    <2>2. CASE JumpWith(c, "loop", Top(c).arg) \/ JumpWith(c, "handshake", Top(c).arg)
      BY <2>1, <2>2, JumpOwn DEF Frame, Running, Starting, RunLabels, LoopLabels,
          Opening, Handshaking
    <2>3. CASE CallFrom(c, "check", Top(c).arg, "callback", "error")
      BY <2>1, <2>3, CallOwn DEF Frame, Running, Starting, Announcing, RunLabels, LoopLabels,
          Opening, Handshaking
    <2>4. QED
      BY <1>3, <2>2, <2>3 DEF Connect, Jump, Emit, Call
  <1>4. CASE Handshake(c)
    <2>1. /\ stk[c] # <<>> /\ Top(c).at = "handshake" /\ ws'[c].st = ws[c].st
          /\ JumpWith(c, "upgrade", Top(c).arg)
      BY <1>4 DEF Handshake, At, Jump
    <2>2. QED
      BY <2>1, JumpOwn DEF Frame, Running, Starting, RunLabels, LoopLabels,
          Opening, Handshaking
  <1>5. CASE Upgrade(c)
    <2>1. /\ stk[c] # <<>> /\ Top(c).at = "upgrade" /\ ws'[c].st = ws[c].st
          /\ JumpWith(c, "upgraded", Top(c).arg)
      BY <1>5 DEF Upgrade, At, Jump
    <2>2. QED
      BY <2>1, JumpOwn DEF Frame, Running, Starting, RunLabels, LoopLabels,
          Opening, Handshaking
  <1>6. CASE UpgradeFails(c)
    <2>1. /\ stk[c] # <<>> /\ Top(c).at = "upgrade" /\ ws'[c].st = ws[c].st
          /\ CallFrom(c, "check", Top(c).arg, "callback", "error")
      BY <1>6 DEF UpgradeFails, At, Emit, Call
    <2>2. QED
      BY <2>1, CallOwn DEF Frame, Running, Starting, Announcing, RunLabels, LoopLabels,
          Opening, Handshaking
  <1>7. CASE Upgraded(c)
    <2>1. /\ stk[c] # <<>> /\ Top(c).at = "upgraded" /\ ws'[c].st = "OPEN"
          /\ JumpWith(c, "open", Top(c).arg)
      BY <1>7 DEF Upgraded, At, Jump
    <2>2. QED
      BY <2>1, JumpOwn DEF Frame, Running, Starting, RunLabels, LoopLabels,
          Opening, Handshaking
  <1>8. CASE Open(c)
    <2>1. /\ stk[c] # <<>> /\ Top(c).at = "open" /\ ws'[c].st = ws[c].st
          /\ CallFrom(c, "opened", Top(c).arg, "callback", "open")
      BY <1>8 DEF Open, At, Emit, Call
    <2>2. QED
      BY <2>1, CallOwn DEF Frame, Running, Starting, Announcing, RunLabels, LoopLabels,
          Opening, Handshaking
  <1>9. CASE Stop(c)
    <2>1. /\ stk[c] # <<>> /\ Top(c).at = "stop" /\ ws'[c].st = ws[c].st
          /\ CallFrom(c, "stopThread", Top(c).arg, "close", "")
      BY <1>9 DEF Stop, At, Call
    <2> DEFINE g == Frame("stopThread", Top(c).c, Top(c).arg)
               h == Frame("close", Top(c).c, "")
    <2>2. g.at = "stopThread" /\ h.at = "close"
      BY DEF Frame
    <2> HIDE DEF g, h
    <2>3. /\ ~Running(g) /\ g.at \notin Handshaking /\ ~Starting(g)
          /\ ~Running(h) /\ ~Starting(h) /\ ~Announcing(h)
          /\ ~Running(Top(c)) /\ Top(c).at \notin Handshaking
      BY <2>1, <2>2, StartingLabels
    <2>4. /\ Running(g) \/ g.at \in Handshaking <=>
                 Running(Top(c)) \/ Top(c).at \in Handshaking
          /\ ~Announcing(h) /\ Top(c).at # "erase" /\ Top(c).at # "callback"
          /\ c \notin eps'.of \ eps.of
      BY <2>1, <2>3
    <2>5. Moves(c, "call", g, h)
      BY <2>1, CallMoves DEF Threads, g, h
    <2>6. KeepsLayers(c, "call", g, h)
      BY <2>2, <2>3, <2>4 DEF KeepsLayers, Announcing
    <2>7. KeepsOpen(c, "call", g)
      BY <2>1, <2>2, <2>3 DEF KeepsOpen
    <2>8. KeepsReports(c, "call", g, h)
      BY <2>1, <2>2, <2>4 DEF KeepsReports
    <2>9. QED
      BY <2>5, <2>6, <2>7, <2>8 DEF OwnMove
  <1>10. CASE StopThread(c) \/ Join(c)
    <2>1. stk[c] # <<>> /\ Top(c).at \in {"stopThread", "join"}
      BY <1>10 DEF StopThread, Join, At
    <2>2. ws'[c].st = ws[c].st
      <3>1. \/ ws' = [ws EXCEPT ![c].stop = TRUE]
            \/ ws' = [ws EXCEPT ![c].stop = FALSE, ![c].joinable = FALSE]
            \/ ws' = ws
        BY <1>10 DEF StopThread, Join
      <3>2. QED
        BY <1>0, <3>1
    <2>3. PICK label \in {"join", "stopped"} : JumpWith(c, label, Top(c).arg)
      BY <1>10 DEF StopThread, Join, Jump
    <2> DEFINE g == Frame(label, Top(c).c, Top(c).arg)
    <2>4. g.at = label
      BY DEF Frame
    <2> HIDE DEF g
    <2>5. /\ ~Running(g) /\ g.at \notin Handshaking /\ ~Starting(g)
          /\ ~Running(Top(c)) /\ Top(c).at \notin Handshaking
      BY <2>1, <2>3, <2>4, StartingLabels
    <2>6. QED
      BY <2>1, <2>2, <2>3, <2>5, JumpOwn DEF g
  <1>11. CASE Stopped(c)
    <2>1. stk[c] # <<>> /\ Top(c).at = "stopped" /\ ws'[c].st = ws[c].st /\ Return(c)
      BY <1>11 DEF Stopped, At
    <2>2. QED
      BY <2>1, ReturnOwn, StartingLabels
  <1>12. QED
    BY <1>2, <1>3, <1>4, <1>5, <1>6, <1>7, <1>8, <1>9, <1>10, <1>11

\* The points of the callback and of what the connection's owner calls from it.
CallbackPoints == {"callback", "erase", "release", "event", "openDone", "send", "close", "stop"}

LEMMA CallbackLabels ==
    ASSUME NEW f, f.at \in CallbackPoints
    PROVE  ~Running(f) /\ f.at \notin Handshaking /\ ~Starting(f)
           /\ (f.at # "callback" => ~Announcing(f))
  BY StartingLabels DEF CallbackPoints

\* The server's handshake, which comes before the loop.
LEMMA HandshakeOwn ==
    ASSUME NEW c \in Conns, TransportOK, Top(c).c = c,
           \/ ConnectToSocket(c) \/ ServerHandshake(c)
           \/ ServerUpgrade(c) \/ ServerUpgradeFails(c)
    PROVE  OwnMove(c)
  <1> DEFINE f == Top(c)
  <1>1. StacksOK /\ ws[c] \in SocketType /\ DOMAIN ws = Conns
    BY DEF TransportOK, SocketsOK
  <1>2. stk[c] # <<>> /\ f.at \in Handshaking /\ UNCHANGED eps
    BY DEF ConnectToSocket, ServerHandshake, ServerUpgrade, ServerUpgradeFails, At, Handshaking
  <1>3. ws'[c].st = ws[c].st
    <2>1. \/ ws' = [ws EXCEPT ![c].sk = c, ![c].fd = "open"]
          \/ ws' = [ws EXCEPT ![c].cancel = FALSE]
          \/ ws' = [ws EXCEPT ![c].sk = Nobody]
          \/ ws' = ws
      BY DEF ConnectToSocket, ServerHandshake, ServerUpgrade, ServerUpgradeFails
    <2>2. QED
      BY <1>1, <2>1 DEF SocketType
  <1>4. Starting(f) /\ f.at \notin {"callback", "erase"}
    BY <1>2, StartingLabels DEF Handshaking
  <1>5. CASE Return(c)
    BY <1>1, <1>2, <1>3, <1>4, <1>5, ReturnOwn
  <1>6. ASSUME NEW label \in {"serverHandshake", "serverUpgrade", "upgraded"},
               JumpWith(c, label, f.arg)
        PROVE  OwnMove(c)
    <2> DEFINE g == Frame(label, Top(c).c, f.arg)
    <2>1. g.at = label
      BY DEF Frame
    <2> HIDE DEF g
    <2>2. Running(g) \/ g.at \in Handshaking
      BY <2>1 DEF Running, RunLabels, LoopLabels, Handshaking
    <2>3. QED
      BY <1>1, <1>2, <1>3, <1>4, <1>6, <2>2, JumpOwn DEF g
  <1>7. \/ JumpWith(c, "serverHandshake", f.arg) \/ JumpWith(c, "serverUpgrade", f.arg)
        \/ JumpWith(c, "upgraded", f.arg) \/ Return(c)
    BY DEF ConnectToSocket, ServerHandshake, ServerUpgrade, ServerUpgradeFails, Jump
  <1>8. QED
    BY <1>5, <1>6, <1>7

\* DWebSocketServer::OnMessage, on the thread of its connection.
LEMMA CallbackOwn ==
    ASSUME NEW c \in Conns, TypeOK, Top(c).c = c,
           OnOpen(c) \/ OpenDone(c) \/ OnMessage(c) \/ Erase(c) \/ Release(c) \/ Event(c)
    PROVE  OwnMove(c)
  <1> DEFINE f == Top(c)
  <1>1. /\ StacksOK /\ eps \in [of : SUBSET Taken, mutex : Threads \cup {Nobody}]
        /\ c \in Threads
    BY DEF TypeOK, TransportOK, Taken, Threads
  <1>2. /\ stk[c] # <<>> /\ f.at \in CallbackPoints /\ UNCHANGED ws
        /\ f.at # "nowClosed" /\ f.at # "open"
    BY DEF OnOpen, OpenDone, OnMessage, Erase, Release, Event, At, CallbackPoints
  <1>3. ~Running(f) /\ f.at \notin Handshaking /\ ~Starting(f)
    BY <1>2, CallbackLabels
  <1>4. ASSUME NEW m, NEW g, NEW h, Moves(c, m, g, h),
               m # "return" => g.at \in CallbackPoints \ {"callback"},
               m = "call" => h.at = "event", KeepsReports(c, m, g, h)
        PROVE  OwnMove(c)
    <2>1. m # "return" => /\ ~Running(g) /\ g.at \notin Handshaking /\ ~Starting(g)
                          /\ ~Announcing(g) /\ g.at # "open"
      BY <1>4, CallbackLabels DEF CallbackPoints
    <2>2. m = "call" => ~Running(h) /\ ~Starting(h) /\ ~Announcing(h)
      BY <1>4, CallbackLabels DEF CallbackPoints
    <2>3. KeepsLayers(c, m, g, h)
      BY <1>3, <2>1, <2>2 DEF KeepsLayers
    <2>4. KeepsOpen(c, m, g)
      BY <1>2, <1>3, <2>1 DEF KeepsOpen
    <2>5. QED
      BY <1>4, <2>3, <2>4 DEF OwnMove
  <1>5. ASSUME Return(c), eps'.of = eps.of, f.at # "erase", f.at # "callback" \/ c \notin eps.of
        PROVE  OwnMove(c)
    <2>1. Moves(c, "return", f, f)
      BY <1>1, <1>2, <1>5, ReturnMoves
    <2>2. KeepsReports(c, "return", f, f)
      BY <1>5 DEF KeepsReports
    <2>3. QED
      BY <1>4, <2>1, <2>2
  <1>6. ASSUME NEW label \in CallbackPoints \ {"callback"}, NEW x, JumpWith(c, label, x),
               eps'.of \subseteq eps.of, f.at # "callback", f.at = "erase" => c \notin eps'.of
        PROVE  OwnMove(c)
    <2> DEFINE g == Frame(label, f.c, x)
    <2>1. Moves(c, "jump", g, f)
      BY <1>1, <1>2, <1>6, JumpMoves
    <2>2. g.at = label /\ label # "nowClosed"
      BY <1>6 DEF Frame, CallbackPoints
    <2> HIDE DEF g
    <2>3. KeepsReports(c, "jump", g, f)
      BY <1>6, <2>2 DEF KeepsReports
    <2>4. QED
      BY <1>4, <1>6, <2>1, <2>2, <2>3
  <1>7. ASSUME NEW label \in CallbackPoints \ {"callback"}, NEW x, NEW y,
               CallFrom(c, label, y, "event", x), f.at = "callback",
               f.arg = "close" /\ c \in eps.of => label = "erase",
               c \in eps'.of \ eps.of => Announcing(f) /\ label = "openDone"
        PROVE  OwnMove(c)
    <2> DEFINE g == Frame(label, f.c, y)
               h == Frame("event", f.c, x)
    <2>1. Moves(c, "call", g, h)
      BY <1>1, <1>2, <1>7, CallMoves
    <2>2. g.at = label /\ label # "nowClosed" /\ h.at = "event"
      BY <1>7 DEF Frame, CallbackPoints
    <2> HIDE DEF g, h
    <2>3. KeepsReports(c, "call", g, h)
      BY <1>7, <2>2 DEF KeepsReports
    <2>4. QED
      BY <1>4, <1>7, <2>1, <2>2, <2>3
  <1>8. CASE OnOpen(c)
    <2>1. /\ f.at = "callback" /\ f.arg = "open"
          /\ CallFrom(c, "openDone", "open", "event", "open")
      BY <1>8 DEF OnOpen, At, Call
    <2>2. Announcing(f) /\ "openDone" \in CallbackPoints \ {"callback"}
      BY <2>1 DEF Announcing, CallbackPoints
    <2>3. QED
      BY <1>7, <2>1, <2>2
  <1>9. CASE OpenDone(c)
    <2>1. f.at = "openDone" /\ Return(c) /\ eps' = [eps EXCEPT !.mutex = Nobody]
      BY <1>9 DEF OpenDone, At
    <2>2. QED
      BY <1>1, <1>5, <2>1
  <1>10. CASE OnMessage(c)
    <2>1. f.at = "callback" /\ UNCHANGED eps
      BY <1>10 DEF OnMessage, At
    <2>2. {"erase", "release"} \subseteq CallbackPoints \ {"callback"}
      BY DEF CallbackPoints
    <2>3. CASE c \notin eps.of
      BY <1>5, <1>10, <2>1, <2>3 DEF OnMessage
    <2>4. CASE c \in eps.of /\ f.arg = "close"
      <3>1. CallFrom(c, "erase", f.arg, "event", f.arg)
        BY <1>10, <2>4 DEF OnMessage, Call
      <3>2. QED
        BY <1>7, <2>1, <2>2, <3>1
    <2>5. CASE c \in eps.of /\ f.arg # "close"
      <3>1. CallFrom(c, "release", f.arg, "event", f.arg)
        BY <1>10, <2>5 DEF OnMessage, Call
      <3>2. QED
        BY <1>7, <2>1, <2>2, <2>5, <3>1
    <2>6. QED
      BY <2>3, <2>4, <2>5
  <1>11. CASE Erase(c)
    <2>1. f.at = "erase" /\ JumpWith(c, "release", f.arg) /\ eps' = [eps EXCEPT !.of = @ \ {c}]
      BY <1>11 DEF Erase, At, Jump
    <2>2. eps'.of = eps.of \ {c} /\ "release" \in CallbackPoints \ {"callback"}
      BY <1>1, <2>1 DEF CallbackPoints
    <2>3. QED
      BY <1>6, <2>1, <2>2
  <1>12. CASE Release(c)
    <2>1. f.at = "release" /\ UNCHANGED eps /\ (JumpWith(c, "stop", f.arg) \/ Return(c))
      BY <1>12 DEF Release, At, Jump
    <2>2. "stop" \in CallbackPoints \ {"callback"}
      BY DEF CallbackPoints
    <2>3. QED
      BY <1>5, <1>6, <2>1, <2>2
  <1>13. CASE Event(c)
    <2>1. /\ f.at = "event" /\ UNCHANGED eps
          /\ Return(c) \/ \E op \in {"send", "close"} : JumpWith(c, op, "data")
      BY <1>13 DEF Event, At
    <2>2. {"send", "close"} \subseteq CallbackPoints \ {"callback"}
      BY DEF CallbackPoints
    <2>3. QED
      BY <1>5, <1>6, <2>1, <2>2
  <1>14. QED
    BY <1>8, <1>9, <1>10, <1>11, <1>12, <1>13

\* Every step of a connection's thread inside handleConnection.
LEMMA InnerOwn ==
    ASSUME NEW c \in Conns, TypeOK, ServerInv, InnerStep(c)
    PROVE  OwnMove(c) /\ Len(stk[c]) > 1 /\ Stage(c) = "served" /\ Top(c).c = c
  <1>1. TransportOK /\ StacksOK /\ Placed /\ Accounted /\ EndpointsOK /\ c \in Threads
    BY InvParts DEF TypeOK, EndpointsOK, Taken, Threads
  <1>2. InnerMove(c)
    <2>1. CASE WebSocketStep(c) /\ UNCHANGED <<srv, eps, calls>>
      BY <1>1, <2>1, TransportInner
    <2>2. CASE \/ ConnectToSocket(c) \/ ServerHandshake(c) \/ ServerUpgrade(c)
               \/ ServerUpgradeFails(c)
      BY <1>1, <2>2, HandshakeTypes
    <2>3. CASE OnOpen(c) \/ OpenDone(c) \/ OnMessage(c) \/ Erase(c) \/ Release(c) \/ Event(c)
      BY <1>1, <2>3, EndpointTypes DEF TypeOK, CallsOK
    <2>4. QED
      BY <2>1, <2>2, <2>3 DEF InnerStep
  <1>3. Len(stk[c]) > 1 /\ Stage(c) = "served" /\ Top(c).c = c
    BY <1>1, <1>2, InnerTop DEF InnerMove, Moves
  <1>4. ~Start(c)
    BY <1>2 DEF Start, At, InnerMove, Inner
  <1>5. CASE WebSocketStep(c) /\ UNCHANGED <<srv, eps, calls>>
    BY <1>1, <1>3, <1>4, <1>5, WebSocketSteps, PlainOwn, OpeningOwn
  <1>6. CASE \/ ConnectToSocket(c) \/ ServerHandshake(c) \/ ServerUpgrade(c)
             \/ ServerUpgradeFails(c)
    BY <1>1, <1>3, <1>6, HandshakeOwn
  <1>7. CASE OnOpen(c) \/ OpenDone(c) \/ OnMessage(c) \/ Erase(c) \/ Release(c) \/ Event(c)
    BY <1>3, <1>7, CallbackOwn
  <1>8. QED
    BY <1>3, <1>5, <1>6, <1>7 DEF InnerStep

\* No step inside a thread starts a websocket, or changes another connection.
LEMMA InnerSockets ==
    ASSUME NEW t \in Threads, TypeOK, ServerInv, InnerStep(t)
    PROVE  /\ \A d \in Conns \ {Top(t).c} : ws'[d] = ws[d]
           /\ NeverStarted => NeverStarted'
           /\ calls'["stop"] = calls["stop"]
  <1>1. TransportOK /\ StacksOK /\ Placed /\ EndpointsOK /\ CallsOK
        /\ DOMAIN ws = Conns /\ ws \in [Conns -> SocketType]
    BY InvParts DEF TypeOK, EndpointsOK, Taken, TransportOK, SocketsOK
  <1>2. PICK c : c = Top(t).c
    OBVIOUS
  <1>3. ASSUME ws' = ws
        PROVE  /\ \A d \in Conns \ {Top(t).c} : ws'[d] = ws[d]
               /\ NeverStarted => NeverStarted'
    BY <1>3 DEF NeverStarted
  <1>4. ASSUME \A d \in Conns \ {c} : ws'[d] = ws[d],
               c \in Conns => \/ ws'[c].joinable = ws[c].joinable /\ ws'[c].stop = ws[c].stop
                              \/ ~ws'[c].joinable /\ ~ws'[c].stop
                              \/ ws[c].joinable
        PROVE  /\ \A d \in Conns \ {Top(t).c} : ws'[d] = ws[d]
               /\ NeverStarted => NeverStarted'
    BY <1>2, <1>4 DEF NeverStarted
  <1>5. CASE WebSocketStep(t) /\ UNCHANGED <<srv, eps, calls>>
    <2>1. CASE PlainStep(t)
      BY <1>2, <1>4, <1>5, <2>1 DEF PlainStep, PlainAs
    <2>2. CASE Start(t)
      <3>1. InnerMove(t)
        BY <1>1, <1>5, TransportInner
      <3>2. QED
        BY <2>2, <3>1 DEF Start, At, InnerMove, Inner
    <2>3. CASE Check(t) \/ Connect(t) \/ Handshake(t) \/ Upgrade(t)
      <3>1. CASE ws' = ws
        BY <1>3, <1>5, <3>1
      <3>2. CASE \/ ws' = [ws EXCEPT ![c].first = FALSE]
                 \/ ws' = [ws EXCEPT ![c].sk = t, ![c].fd = "shut", ![c].pipe = <<>>]
                 \/ ws' = [ws EXCEPT ![c].cancel = FALSE]
                 \/ ws' = [ws EXCEPT ![c].fd = "open"]
        BY <1>1, <1>2, <1>4, <1>5, <3>2 DEF SocketType
      <3>3. QED
        BY <1>2, <2>3, <3>1, <3>2 DEF Check, Connect, Handshake, Upgrade
    <2>4. CASE UpgradeFails(t) \/ Upgraded(t) \/ Open(t)
      <3>1. CASE UpgradeFails(t)
        <4>1. PICK s \in {"open", "shut"} :
                  ws' = [ws EXCEPT ![c].fd = s, ![c].sk = Nobody]
          BY <1>2, <3>1 DEF UpgradeFails
        <4>2. QED
          BY <1>1, <1>4, <1>5, <4>1 DEF SocketType
      <3>2. CASE Upgraded(t)
        <4>1. ws' = [ws EXCEPT ![c].st = "OPEN", ![c].sk = Nobody,
                               ![c].pong = FALSE, ![c].pingDue = FALSE]
          BY <1>2, <3>2 DEF Upgraded
        <4>2. QED
          BY <1>1, <1>4, <1>5, <4>1 DEF SocketType
      <3>3. CASE Open(t)
        BY <1>3, <1>5, <3>3 DEF Open
      <3>4. QED
        BY <2>4, <3>1, <3>2, <3>3
    <2>5. CASE Stop(t) \/ StopThread(t) \/ Join(t) \/ Stopped(t)
      <3>1. CASE ws' = ws
        BY <1>3, <1>5, <3>1
      <3>2. CASE ws[c].joinable /\ ws' = [ws EXCEPT ![c].stop = TRUE]
        BY <1>1, <1>4, <1>5, <3>2
      <3>3. CASE ws' = [ws EXCEPT ![c].stop = FALSE, ![c].joinable = FALSE]
        <4>1. \A d \in Conns \ {c} : ws'[d] = ws[d]
          BY <1>1, <3>3
        <4>2. ASSUME c \in Conns PROVE ~ws'[c].joinable /\ ~ws'[c].stop
          <5>1. ws'[c] = [ws[c] EXCEPT !.stop = FALSE, !.joinable = FALSE]
            BY <1>1, <3>3, <4>2
          <5>2. QED
            BY <1>1, <4>2, <5>1 DEF SocketType
        <4>3. QED
          BY <1>4, <1>5, <4>1, <4>2
      <3>4. QED
        BY <1>2, <2>5, <3>1, <3>2, <3>3 DEF Stop, StopThread, Join, Stopped
    <2>6. QED
      BY <1>1, <1>5, <2>1, <2>2, <2>3, <2>4, <2>5, WebSocketSteps
  <1>6. CASE ConnectToSocket(t) \/ ServerHandshake(t) \/ ServerUpgrade(t) \/ ServerUpgradeFails(t)
    BY <1>1, <1>2, <1>4, <1>6
       DEF ConnectToSocket, ServerHandshake, ServerUpgrade, ServerUpgradeFails, SocketType
  <1>7. CASE OnOpen(t) \/ OpenDone(t) \/ OnMessage(t) \/ Erase(t) \/ Release(t)
    BY <1>3, <1>7 DEF OnOpen, OpenDone, OnMessage, Erase, Release
  <1>8. CASE Event(t)
    <2>1. ws' = ws /\ (calls' = calls \/ \E op \in {"send", "close"} :
                                             calls' = [calls EXCEPT ![op] = @ - 1])
      BY <1>8 DEF Event
    <2>2. calls'["stop"] = calls["stop"]
      BY <1>1, <2>1 DEF CallsOK, Calls
    <2>3. QED
      BY <1>3, <2>1, <2>2
  <1>9. QED
    BY <1>5, <1>6, <1>7, <1>8 DEF InnerStep

-----------------------------------------------------------------------------
(* Every step keeps the endpoints' invariant.                              *)

\* What another thread does not touch stays.
LEMMA ConnectionKept ==
    ASSUME NEW c \in Conns, stk'[c] = stk[c], ws'[c].st = ws[c].st,
           c \in eps'.of => c \in eps.of
    PROVE  /\ Layered(c) => Layered(c)'
           /\ ListedOpen(c) => ListedOpen(c)'
           /\ OpensOpen(c) => OpensOpen(c)'
  <1>1. Layered(c) => Layered(c)'
    BY DEF Layered, Running, Starting, Announcing
  <1>2. Reported(c) => Reported(c)'
    BY DEF Reported
  <1>3. ListedOpen(c) => ListedOpen(c)'
    BY <1>2 DEF ListedOpen, Stage, Starting
  <1>4. OpensOpen(c) => OpensOpen(c)'
    BY DEF OpensOpen, Top, Announcing
  <1>5. QED
    BY <1>1, <1>3, <1>4

\* A step of which each connection keeps its own part.
LEMMA EndpointsFrom ==
    ASSUME EndpointInv, CallsOK, CallsOK', calls'["stop"] <= calls["stop"], NeverStarted',
           \A c \in Conns : Layered(c)',
           Unstopped /\ NoneStops => NoneStops',
           Unstopped /\ NoneStops /\ (\A c \in Conns : ListedOpen(c) /\ OpensOpen(c)) =>
               \A c \in Conns : ListedOpen(c)' /\ OpensOpen(c)'
    PROVE  EndpointInv'
  <1>1. calls["stop"] \in Nat /\ calls'["stop"] \in Nat /\ Budget["stop"] \in Nat
    BY ServerAssumption DEF CallsOK, Calls
  <1>2. calls["stop"] <= Budget["stop"]
    BY DEF EndpointInv
  <1>3. calls'["stop"] <= Budget["stop"] /\ (Unstopped' => Unstopped)
    BY <1>1, <1>2 DEF Unstopped
  <1>4. Unstopped => NoneStops /\ \A c \in Conns : ListedOpen(c) /\ OpensOpen(c)
    BY DEF EndpointInv
  <1>5. Unstopped' => NoneStops' /\ \A c \in Conns : ListedOpen(c)' /\ OpensOpen(c)'
    BY <1>3, <1>4
  <1>6. QED
    BY <1>3, <1>5 DEF EndpointInv

\* A step that leaves the connections' threads and the endpoints.
LEMMA EndpointsKept ==
    ASSUME EndpointInv, CallsOK, CallsOK', calls'["stop"] <= calls["stop"], NeverStarted',
           Unstopped /\ NoneStops => NoneStops',
           \A c \in Conns : stk'[c] = stk[c] /\ ws'[c].st = ws[c].st,
           eps'.of \subseteq eps.of
    PROVE  EndpointInv'
  <1>1. \A c \in Conns : Layered(c)
    BY DEF EndpointInv
  <1>2. \A c \in Conns : Layered(c)'
    BY <1>1, ConnectionKept
  <1>3. (\A c \in Conns : ListedOpen(c) /\ OpensOpen(c)) =>
               \A c \in Conns : ListedOpen(c)' /\ OpensOpen(c)'
    BY ConnectionKept
  <1>4. QED
    BY <1>2, <1>3, EndpointsFrom

\* As long as nobody stops the server, users are not inside a call.
LEMMA IdleUsers ==
    ASSUME NEW t \in Threads, t \notin Conns, Placed, StacksOK, stk[t] # <<>>,
           Top(t).at \in Inner
    PROVE  t \in Users /\ ~NoneStops
  <1>1. Stage(t) \in {"served", "srvClose"} /\ t # Acceptor /\ t # Collector
    BY InnerTop
  <1>2. QED
    BY <1>1, Roles DEF NoneStops

\* A step inside a thread.
LEMMA InnerEndpoints ==
    ASSUME NEW t \in Threads, TypeOK, ServerInv, EndpointInv, TypeOK', ServerInv', InnerStep(t)
    PROVE  EndpointInv'
  <1>1. /\ StacksOK /\ Placed /\ Accounted /\ TransportOK /\ EndpointsOK /\ CallsOK
        /\ StacksOK' /\ Placed' /\ CallsOK'
    BY InvParts DEF TypeOK, TransportOK, ServerInv, EndpointsOK, Taken, CallsOK
  <1>2. /\ \A d \in Conns \ {Top(t).c} : ws'[d] = ws[d]
        /\ NeverStarted' /\ calls'["stop"] = calls["stop"]
        /\ calls'["stop"] <= calls["stop"]
    <2>1. NeverStarted
      BY DEF EndpointInv
    <2>2. calls["stop"] \in Nat
      BY <1>1 DEF CallsOK, Calls
    <2>3. /\ \A d \in Conns \ {Top(t).c} : ws'[d] = ws[d]
          /\ NeverStarted' /\ calls'["stop"] = calls["stop"]
      BY <2>1, InnerSockets
    <2>4. QED
      BY <2>2, <2>3
  <1>3. InnerMove(t)
    <2>1. CASE WebSocketStep(t) /\ UNCHANGED <<srv, eps, calls>>
      BY <1>1, <2>1, TransportInner
    <2>2. CASE \/ ConnectToSocket(t) \/ ServerHandshake(t) \/ ServerUpgrade(t)
               \/ ServerUpgradeFails(t)
      BY <1>1, <2>2, HandshakeTypes
    <2>3. CASE OnOpen(t) \/ OpenDone(t) \/ OnMessage(t) \/ Erase(t) \/ Release(t) \/ Event(t)
      BY <1>1, <2>3, EndpointTypes
    <2>4. QED
      BY <2>1, <2>2, <2>3 DEF InnerStep
  <1>4. stk[t] # <<>> /\ Top(t).at \in Inner
    BY <1>3 DEF InnerMove, Moves
  <1>5. Stages(t, Stage(t))
    BY <1>1, <1>3, InnerKept
  <1>6. \A u \in Threads : Stage(u)' = Stage(u)
    BY <1>5 DEF Stages
  <1>7. NoneStops => NoneStops'
    BY <1>6, Roles DEF NoneStops
  <1>8. \A c \in Conns \ {t} : stk'[c] = stk[c] /\ c \in Threads
    BY <1>5 DEF Stages, Threads
  <1>9. \A c \in Conns : Layered(c)
    BY DEF EndpointInv
  <1>10. CASE t \in Conns
    <2>1. /\ OwnMove(t) /\ Len(stk[t]) > 1 /\ Stage(t) = "served" /\ Stage(t)' = "served"
          /\ Top(t).c = t
      BY <1>6, <1>10, InnerOwn
    <2>2. \A c \in Conns \ {t} : ws'[c] = ws[c] /\ (c \in eps'.of => c \in eps.of)
      <3>1. \A c \in Conns \ {t} : ws'[c] = ws[c]
        BY <1>2, <2>1
      <3>2. \A c \in Conns \ {t} : c \in eps'.of => c \in eps.of
        BY <1>1, <2>1 DEF InnerStep, ConnectToSocket, ServerHandshake, ServerUpgrade,
           ServerUpgradeFails, OnOpen, OpenDone, OnMessage, Erase, Release, Event, EndpointsOK
      <3>3. QED
        BY <3>1, <3>2
    <2>3. Layered(t)'
      <3>1. PICK m, g, h : Moves(t, m, g, h) /\ KeepsLayers(t, m, g, h)
        BY <2>1 DEF OwnMove
      <3>2. QED
        BY <1>1, <1>9, <1>10, <2>1, <3>1, LayeredKept
    <2>4. \A c \in Conns : Layered(c)'
      BY <1>8, <1>9, <2>2, <2>3, ConnectionKept
    <2>5. ASSUME \A c \in Conns : ListedOpen(c) /\ OpensOpen(c)
          PROVE  \A c \in Conns : ListedOpen(c)' /\ OpensOpen(c)'
      <3>1. ListedOpen(t)' /\ OpensOpen(t)'
        <4>1. ~ws[t].stop
          BY <1>10 DEF EndpointInv, NeverStarted
        <4>2. QED
          BY <1>1, <1>9, <1>10, <2>1, <2>5, <4>1, OwnKept
      <3>2. QED
        BY <1>8, <2>2, <2>5, <3>1, ConnectionKept
    <2>6. QED
      BY <1>1, <1>2, <1>7, <2>4, <2>5, EndpointsFrom
  <1>11. CASE t \notin Conns
    <2>1. ~NoneStops
      BY <1>1, <1>4, <1>11, IdleUsers
    <2>2. \A c \in Conns : Layered(c)'
      BY <1>8, <1>9, <1>11 DEF Layered, Running, Starting, Announcing
    <2>3. QED
      BY <1>1, <1>2, <2>1, <2>2, EndpointsFrom
  <1>12. QED
    BY <1>10, <1>11

\* A thread at a point that nobody calls has its role.
LEMMA OuterRole ==
    ASSUME NEW t \in Threads, StacksOK, Placed, NEW label, At(t, label), label \notin Inner
    PROVE  /\ Stage(t) = label /\ Len(stk[t]) = 1
           /\ label \in {"accept", "acceptPoll", "accepted"} => t = Acceptor
           /\ label \in {"collect", "collectNext", "collectWait"} => t = Collector
           /\ label \in { "srvStart", "srvStop", "srvClose", "joinAcceptor", "stopCollector",
                          "joinCollector", "srvStopped" } => t \in Users
           /\ label \in {"serve", "served", "unlist", "terminate", "wakeCollector"} => t \in Conns
  <1>1. label \in Role(t) /\ Stage(t) = label /\ Len(stk[t]) = 1
    BY OuterAt
  <1>2. QED
    BY <1>1, WhoseRole

\* start() or stop() is called.
LEMMA UserCallEndpoints ==
    ASSUME NEW t \in Users, NEW op \in {"start", "stop"}, TypeOK, ServerInv, EndpointInv,
           UserCall(t, op)
    PROVE  EndpointInv'
  <1>1. StacksOK /\ CallsOK /\ NeverStarted /\ (\A c \in Conns : Layered(c))
    BY InvParts DEF EndpointInv
  <1>2. /\ calls[op] > 0 /\ calls' = [calls EXCEPT ![op] = @ - 1] /\ UNCHANGED <<ws, eps>>
        /\ stk' = [stk EXCEPT ![t] = <<ServerFrame(Entry(op))>>]
    BY DEF UserCall
  <1>3. /\ CallsOK' /\ calls["stop"] \in Nat /\ calls'["stop"] <= calls["stop"]
        /\ op = "stop" => calls'["stop"] < calls["stop"]
    BY <1>1, <1>2 DEF CallsOK, Calls
  <1>4. \A c \in Conns : stk'[c] = stk[c] /\ ws'[c].st = ws[c].st
    BY <1>2, Roles
  <1>5. NeverStarted' /\ eps'.of \subseteq eps.of
    BY <1>1, <1>2 DEF NeverStarted
  <1>6. CASE op = "start"
    <2>1. NoneStops => NoneStops'
      <3>1. stk'[t] = <<ServerFrame("srvStart")>> /\ \A u \in Users \ {t} : stk'[u] = stk[u]
        BY <1>1, <1>2, <1>6, Roles DEF StacksOK, Entry
      <3>2. Stage(t)' = "srvStart" /\ \A u \in Users \ {t} : Stage(u)' = Stage(u)
        <4>1. ServerFrame("srvStart").at = "srvStart"
          BY DEF ServerFrame, Frame
        <4> DEFINE f == ServerFrame("srvStart")
        <4> HIDE DEF f
        <4>2. stk'[t] # <<>> /\ stk'[t][1] = f /\ f.at = "srvStart"
          BY <3>1, <4>1, OneFrame DEF f
        <4>3. QED
          BY <3>1, <4>2 DEF Stage
      <3>3. QED
        BY <3>2 DEF NoneStops
    <2>2. QED
      BY <1>1, <1>3, <1>4, <1>5, <2>1, EndpointsKept
  <1>7. CASE op = "stop"
    <2>1. calls["stop"] <= Budget["stop"] /\ Budget["stop"] \in Nat
      BY ServerAssumption DEF EndpointInv, Calls
    <2>2. calls'["stop"] \in Nat /\ calls'["stop"] < Budget["stop"]
      BY <1>3, <1>7, <2>1 DEF CallsOK, Calls
    <2>3. calls'["stop"] <= Budget["stop"] /\ ~Unstopped'
      BY <2>1, <2>2 DEF Unstopped
    <2>4. \A c \in Conns : Layered(c)'
      BY <1>1, <1>4 DEF Layered, Running, Starting, Announcing
    <2>5. QED
      BY <1>5, <2>3, <2>4 DEF EndpointInv
  <1>8. QED
    BY <1>6, <1>7

\* The acceptor, but for the connection it hands over, and the collector.
LEMMA ServerEndpoints ==
    ASSUME NEW t \in Threads, TypeOK, ServerInv, EndpointInv, CallsOK',
           \/ Accept(t) \/ AcceptWoken(t) \/ AcceptPoll(t)
           \/ Collect(t) \/ CollectNext(t) \/ Collected(t) \/ CollectWait(t)
    PROVE  EndpointInv'
  <1>1. StacksOK /\ Placed /\ CallsOK /\ NeverStarted
    BY InvParts DEF EndpointInv
  <1>2. t \in {Acceptor, Collector}
    <2>1. \E label \in {"accept", "acceptPoll", "collect", "collectNext", "collectWait"} :
              At(t, label)
      BY DEF Accept, AcceptWoken, AcceptPoll, Collect, CollectNext, Collected, CollectWait
    <2>2. QED
      BY <1>1, <2>1, OuterLabels, OuterRole
  <1>3. UNCHANGED <<ws, eps, calls>> /\ \A u \in Conns \cup Users : stk'[u] = stk[u]
    <2>1. UNCHANGED <<ws, eps, calls>> /\ (UNCHANGED stk \/ \E s : stk' = [stk EXCEPT ![t] = s])
      BY DEF Accept, AcceptWoken, AcceptPoll, Collect, CollectNext, Collected, CollectWait,
             Jump, JumpWith, Return
    <2>2. \A u \in Conns \cup Users : u # t /\ u \in Threads
      BY <1>2, Roles DEF Threads
    <2>3. ASSUME NEW s, stk' = [stk EXCEPT ![t] = s]
          PROVE  \A u \in Conns \cup Users : stk'[u] = stk[u]
      BY <1>1, <2>2, <2>3 DEF StacksOK
    <2>4. QED
      BY <2>1, <2>3
  <1>4. NoneStops => NoneStops'
    BY <1>3 DEF NoneStops, Stage
  <1>5. NeverStarted' /\ calls'["stop"] <= calls["stop"]
    BY <1>1, <1>3 DEF NeverStarted, CallsOK, Calls
  <1>6. QED
    BY <1>1, <1>3, <1>4, <1>5, EndpointsKept

\* start() and stop().
LEMMA UserEndpoints ==
    ASSUME NEW t \in Threads, TypeOK, ServerInv, EndpointInv, CallsOK',
           \/ SrvStart(t)
           \/ SrvStop(t) \/ SrvClose(t) \/ StopAcceptor(t) \/ JoinAcceptor(t)
           \/ StopCollector(t) \/ JoinCollector(t) \/ SrvStopped(t)
    PROVE  EndpointInv'
  <1>1. StacksOK /\ Placed /\ CallsOK /\ NeverStarted
    BY InvParts DEF EndpointInv
  <1>2. PICK label \in { "srvStart", "srvStop", "srvClose", "joinAcceptor", "stopCollector",
                         "joinCollector", "srvStopped" } :
            At(t, label) /\ (label = "srvStart" => SrvStart(t))
    BY DEF SrvStart, SrvStop, SrvClose, StopAcceptor, JoinAcceptor, StopCollector,
           JoinCollector, SrvStopped, At
  <1>3. t \in Users /\ Stage(t) = label /\ Len(stk[t]) = 1
    BY <1>1, <1>2, OuterLabels, OuterRole
  <1>4. UNCHANGED <<ws, eps, calls>> /\ \A c \in Conns : stk'[c] = stk[c]
    <2>1. \A c \in Conns : c # t /\ c # Acceptor /\ c # Collector /\ c \in Threads
      BY <1>3, Roles DEF Threads
    <2>2. /\ UNCHANGED <<ws, eps, calls>>
          /\ \/ \E s : stk' = [stk EXCEPT ![t] = s]
             \/ \E r, s, q : stk' = [stk EXCEPT ![t] = r, ![Acceptor] = s, ![Collector] = q]
      <3>1. CASE SrvStart(t)
        BY <3>1 DEF SrvStart
      <3>2. CASE \/ SrvStop(t) \/ SrvClose(t) \/ StopAcceptor(t) \/ JoinAcceptor(t)
                 \/ StopCollector(t) \/ JoinCollector(t) \/ SrvStopped(t)
        BY <3>2 DEF SrvStop, SrvClose, StopAcceptor, JoinAcceptor, StopCollector,
           JoinCollector, SrvStopped, Jump, JumpWith, Return
      <3>3. QED
        BY <3>1, <3>2
    <2>3. ASSUME NEW r, NEW s, NEW q,
                 \/ stk' = [stk EXCEPT ![t] = s]
                 \/ stk' = [stk EXCEPT ![t] = r, ![Acceptor] = s, ![Collector] = q]
          PROVE  \A c \in Conns : stk'[c] = stk[c]
      BY <1>1, <2>1, <2>3 DEF StacksOK
    <2>4. QED
      BY <2>2, <2>3
  <1>5. NoneStops => NoneStops'
    <2>1. CASE SrvStart(t)
      <3>1. /\ stk'[t] = Pop(stk[t]) /\ \A u \in Users \ {t} : stk'[u] = stk[u]
        BY <1>1, <1>3, <2>1, Roles DEF SrvStart, StacksOK
      <3>2. stk'[t] = <<>>
        BY <1>1, <1>3, <3>1, PopOne, Roles DEF StacksOK
      <3>3. QED
        BY <3>1, <3>2 DEF NoneStops, Stage
    <2>2. CASE label # "srvStart"
      BY <1>3, <2>2 DEF NoneStops
    <2>3. QED
      BY <1>2, <2>1, <2>2
  <1>6. NeverStarted' /\ calls'["stop"] <= calls["stop"]
    BY <1>1, <1>4 DEF NeverStarted, CallsOK, Calls
  <1>7. QED
    BY <1>1, <1>4, <1>5, <1>6, EndpointsKept

\* A thread with nothing but the server's own code runs no loop.
LEMMA OuterConnection ==
    ASSUME NEW c \in Conns,
           \/ stk'[c] = <<>>
           \/ /\ Len(stk'[c]) = 1
              /\ stk'[c][1].at \in {"serve", "served", "unlist", "terminate", "wakeCollector"}
    PROVE  Layered(c)' /\ OpensOpen(c)'
  <1>1. CASE stk'[c] = <<>>
    <2>1. \A i : i \notin 1 .. Len(stk'[c])
      BY <1>1
    <2>2. QED
      BY <1>1, <2>1 DEF Layered, OpensOpen
  <1>2. CASE /\ Len(stk'[c]) = 1
             /\ stk'[c][1].at \in {"serve", "served", "unlist", "terminate", "wakeCollector"}
    <2> DEFINE f == stk'[c][1]
    <2>1. ~Running(f) /\ f.at \notin Handshaking /\ ~Starting(f) /\ ~Announcing(f) /\ f.at # "open"
      BY <1>2 DEF Running, Starting, Announcing, RunLabels, LoopLabels, Handshaking, Opening
    <2>2. \A i \in 1 .. 1 : i = 1 /\ i # 2
      OBVIOUS
    <2>3. Layered(c)'
      BY <1>2, <2>1, <2>2 DEF Layered, Running, Starting, Announcing
    <2>4. OpensOpen(c)'
      BY <1>2, <2>1 DEF OpensOpen, Top, Announcing
    <2>5. QED
      BY <2>3, <2>4
  <1>3. QED
    BY <1>1, <1>2

\* A connection that has been accepted is served by a thread of its own.
LEMMA AcceptedEndpoints ==
    ASSUME NEW t \in Threads, TypeOK, ServerInv, EndpointInv, CallsOK', Accepted(t)
    PROVE  EndpointInv'
  <1>1. StacksOK /\ Placed /\ CallsOK /\ NeverStarted /\ Accounted
    BY InvParts DEF EndpointInv
  <1>2. t = Acceptor /\ Stage(Acceptor) = "accepted" /\ Len(stk[t]) = 1
    <2>1. At(t, "accepted")
      BY DEF Accepted
    <2>2. QED
      BY <1>1, <2>1, OuterLabels, OuterRole
  <1>3. Top(t) = stk[t][1] /\ \A u \in Conns \cup Users : u # t /\ u \in Threads
    BY <1>2, Roles DEF Top, Threads
  <1>4. PICK c : c = Top(t).c
    OBVIOUS
  <1>5. c \in Taken \ (srv.threads \cup srv.ended)
    BY <1>1, <1>2, <1>3, <1>4 DEF Accounted
  <1>6. c \in Conns /\ Stage(c) = "none"
    <2>1. c \in Conns
      BY <1>5, InvParts DEF Taken, ServerOK, ServerType
    <2>2. QED
      BY <1>1, <1>5, <2>1 DEF Accounted
  <1>7. UNCHANGED <<ws, eps, calls>>
    BY DEF Accepted
  <1>8. NeverStarted' /\ calls'["stop"] <= calls["stop"]
    BY <1>1, <1>7 DEF NeverStarted, CallsOK, Calls
  <1>9. CASE Return(t)
    <2>1. \A u \in Conns \cup Users : stk'[u] = stk[u]
      BY <1>1, <1>3, <1>9 DEF Return, StacksOK
    <2>2. NoneStops => NoneStops'
      BY <2>1 DEF NoneStops, Stage
    <2>3. QED
      BY <1>1, <1>7, <1>8, <2>1, <2>2, EndpointsKept
  <1>10. CASE stk' = [stk EXCEPT ![t] = SetTop(@, ServerFrame("accept")),
                                 ![c] = <<Frame("serve", c, "")>>]
    <2>1. /\ stk'[c] = <<Frame("serve", c, "")>>
          /\ \A u \in (Conns \cup Users) \ {c} : stk'[u] = stk[u]
      BY <1>1, <1>3, <1>6, <1>10 DEF StacksOK
    <2>2. NoneStops => NoneStops'
      BY <1>6, <2>1, Roles DEF NoneStops, Stage
    <2>3. \A d \in Conns : Layered(d)
      BY DEF EndpointInv
    <2> DEFINE f == Frame("serve", c, "")
    <2>4. f.at = "serve"
      BY DEF Frame
    <2> HIDE DEF f
    <2>5. stk'[c] = <<f>>
      BY <2>1 DEF f
    <2>6. Layered(c)' /\ OpensOpen(c)'
      <3>1. Len(stk'[c]) = 1 /\ stk'[c][1].at = "serve"
        BY <2>4, <2>5
      <3>2. QED
        BY <1>6, <3>1, OuterConnection
    <2>7. \A d \in Conns : Layered(d)'
      BY <1>7, <2>1, <2>3, <2>6, ConnectionKept
    <2>8. ASSUME \A d \in Conns : ListedOpen(d) /\ OpensOpen(d)
          PROVE  \A d \in Conns : ListedOpen(d)' /\ OpensOpen(d)'
      <3>1. c \notin eps'.of
        BY <1>6, <1>7, <2>8 DEF ListedOpen
      <3>2. ListedOpen(c)' /\ OpensOpen(c)'
        BY <2>6, <3>1 DEF ListedOpen
      <3>3. QED
        BY <1>7, <2>1, <2>8, <3>2, ConnectionKept
    <2>9. QED
      BY <1>1, <1>8, <2>2, <2>7, <2>8, EndpointsFrom
  <1>11. QED
    BY <1>4, <1>9, <1>10 DEF Accepted

\* handleConnection begins and ends with no endpoint in the map.
LEMMA ServeEndpoints ==
    ASSUME NEW t \in Threads, TypeOK, ServerInv, EndpointInv, CallsOK', StacksOK',
           Serve(t) \/ Served(t) \/ Unlist(t) \/ SetTerminated(t) \/ OnSetTerminated(t)
    PROVE  EndpointInv'
  <1>1. /\ StacksOK /\ SocketsOK /\ Placed /\ CallsOK /\ NeverStarted
        /\ \A d \in Conns : Layered(d)
    BY InvParts DEF EndpointInv, TransportOK
  <1>2. PICK label \in {"serve", "served", "unlist", "terminate", "wakeCollector"} : At(t, label)
    BY DEF Serve, Served, Unlist, SetTerminated, OnSetTerminated
  <1>3. t \in Conns /\ Stage(t) = label /\ Len(stk[t]) = 1 /\ Top(t).c = t
        /\ stk[t] # <<>> /\ stk[t][1] = Top(t)
    <2>1. label \notin Inner
      BY <1>2, OuterLabels
    <2>2. t \in Conns /\ Stage(t) = label /\ Len(stk[t]) = 1
      BY <1>1, <1>2, <2>1, OuterRole
    <2>3. QED
      BY <1>1, <1>2, <2>1, <2>2, OuterAt
  <1>4. UNCHANGED <<eps, calls>> /\ ws[t] \in SocketType /\ DOMAIN ws = Conns
    BY <1>1, <1>3 DEF Serve, Served, Unlist, SetTerminated, OnSetTerminated, SocketsOK
  <1>5. ws' = ws \/ ws' = [ws EXCEPT ![t].fd = "shut"]
    BY <1>3 DEF Serve, Served, Unlist, SetTerminated, OnSetTerminated
  <1>6. \A d \in Conns : /\ ws'[d].st = ws[d].st /\ ws'[d].stop = ws[d].stop
                         /\ ws'[d].joinable = ws[d].joinable
    <2>1. CASE ws' = ws
      BY <2>1
    <2>2. CASE ws' = [ws EXCEPT ![t].fd = "shut"]
      <3> TAKE d \in Conns
      <3>1. ws'[d] = IF d = t THEN [ws[d] EXCEPT !.fd = "shut"] ELSE ws[d]
        BY <1>3, <1>4, <2>2
      <3>2. QED
        BY <1>4, <3>1 DEF SocketType
    <2>3. QED
      BY <1>5, <2>1, <2>2
  <1>7. NeverStarted' /\ calls'["stop"] <= calls["stop"]
    BY <1>1, <1>4, <1>6 DEF NeverStarted, CallsOK, Calls
  <1>8. PICK m, g, h :
            /\ Moves(t, m, g, h)
            /\ m # "return" => g.at \in {"served", "unlist", "terminate", "wakeCollector"}
            /\ m = "call" => h.at = "connectToSocket"
    <2>1. CASE Serve(t)
      <3> DEFINE g == Frame("served", Top(t).c, Top(t).arg)
                 h == Frame("connectToSocket", Top(t).c, "")
      <3>1. CallFrom(t, "served", Top(t).arg, "connectToSocket", "")
        BY <2>1 DEF Serve, Call
      <3>2. Moves(t, "call", g, h)
        BY <1>1, <1>3, <3>1, CallMoves
      <3>3. g.at = "served" /\ h.at = "connectToSocket"
        BY DEF Frame
      <3> HIDE DEF g, h
      <3>4. QED
        BY <3>2, <3>3
    <2>2. CASE OnSetTerminated(t)
      <3>1. Moves(t, "return", Top(t), Top(t))
        BY <1>1, <1>3, <2>2, ReturnMoves DEF OnSetTerminated
      <3>2. QED
        BY <3>1
    <2>3. CASE Served(t) \/ Unlist(t) \/ SetTerminated(t)
      <3>1. PICK next \in {"unlist", "terminate", "wakeCollector"} :
                JumpWith(t, next, Top(t).arg)
        BY <2>3 DEF Served, Unlist, SetTerminated, Jump
      <3>2. Moves(t, "jump", Frame(next, Top(t).c, Top(t).arg), Top(t))
        BY <1>1, <1>3, <3>1, JumpMoves
      <3>3. QED
        BY <3>2 DEF Frame
    <2>4. QED
      BY <2>1, <2>2, <2>3
  <1>9. \A u \in (Conns \cup Users) \ {t} : stk'[u] = stk[u]
    BY <1>8, Roles DEF Moves, Threads
  <1>10. NoneStops => NoneStops'
    BY <1>3, <1>9, Roles DEF NoneStops, Stage
  <1>11. Layered(t)' /\ OpensOpen(t)'
    <2>1. stk'[t] \in Seq(FrameType) /\ m \in {"return", "jump", "call"}
      BY <1>8 DEF StacksOK, Moves
    <2>2. CASE m = "return"
      <3>1. Len(stk'[t]) = 0
        BY <1>3, <1>8, <2>2 DEF Moves
      <3>2. stk'[t] = <<>>
        BY <2>1, <3>1, FewFrames
      <3>3. QED
        BY <1>3, <3>2, OuterConnection
    <2>3. CASE m = "jump"
      <3>1. Len(stk'[t]) = 1 /\ stk'[t][1] = g
        BY <1>3, <1>8, <2>3 DEF Moves
      <3>2. QED
        BY <1>3, <1>8, <2>3, <3>1, OuterConnection
    <2>4. CASE m = "call"
      <3>1. Len(stk'[t]) = 2 /\ stk'[t][1] = g /\ stk'[t][2] = h
        <4>1. Len(stk'[t]) = 1 + 1 /\ stk'[t][1] = g /\ stk'[t][1 + 1] = h /\ 1 + 1 = 2
          BY <1>3, <1>8, <2>4 DEF Moves
        <4> HIDE DEF Moves
        <4>2. QED
          BY <4>1
      <3>2. \A i \in 1 .. 2 : i \in {1, 2}
        OBVIOUS
      <3>3. /\ ~Running(g) /\ g.at \notin Handshaking /\ ~Starting(g) /\ ~Announcing(g)
            /\ h.at \in Handshaking /\ ~Announcing(h) /\ h.at # "open"
        BY <1>8, <2>4 DEF Running, Starting, Announcing, RunLabels, LoopLabels, Handshaking,
           Opening
      <3>4. Layered(t)'
        BY <3>1, <3>2, <3>3 DEF Layered, Running, Starting, Announcing
      <3>5. OpensOpen(t)'
        BY <3>1, <3>3 DEF OpensOpen, Top, Announcing
      <3>6. QED
        BY <3>4, <3>5
    <2>5. QED
      BY <2>1, <2>2, <2>3, <2>4
  <1>12. \A d \in Conns : Layered(d)'
    BY <1>1, <1>4, <1>6, <1>9, <1>11, ConnectionKept
  <1>13. ASSUME \A d \in Conns : ListedOpen(d) /\ OpensOpen(d)
         PROVE  \A d \in Conns : ListedOpen(d)' /\ OpensOpen(d)'
    <2>1. t \notin eps'.of
      BY <1>3, <1>4, <1>13 DEF ListedOpen
    <2>2. ListedOpen(t)' /\ OpensOpen(t)'
      BY <1>11, <2>1 DEF ListedOpen
    <2>3. QED
      BY <1>4, <1>6, <1>9, <1>13, <2>2, ConnectionKept
  <1>14. QED
    BY <1>1, <1>7, <1>10, <1>12, <1>13, EndpointsFrom

\* The callback of a connection that is served is set; stop() may find it
\* reset.
LEMMA ThrownEndpoints ==
    ASSUME NEW t \in Threads, TypeOK, ServerInv, EndpointInv, CallsOK', Thrown(t)
    PROVE  EndpointInv'
  <1>1. /\ StacksOK /\ SocketsOK /\ Placed /\ Lists /\ CallsOK /\ NeverStarted
        /\ \A d \in Conns : Layered(d)
    BY InvParts DEF EndpointInv, TransportOK
  <1>2. PICK c : c = Top(t).c
    OBVIOUS
  <1>3. /\ At(t, "callback") /\ c \notin srv.bound /\ stk' = [stk EXCEPT ![t] = <<>>]
        /\ ws' = [ws EXCEPT ![c].tx = IF @ = t THEN Nobody ELSE @]
        /\ UNCHANGED <<eps, calls>>
    BY <1>2 DEF Thrown
  <1>4. stk[t] # <<>> /\ Top(t).at \in Inner
    BY <1>3 DEF At, Inner, MethodLabels
  <1>5. t \notin Conns
    BY <1>1, <1>2, <1>3, <1>4, InnerTop DEF Lists, ListedServed
  <1>6. ~NoneStops
    BY <1>1, <1>4, <1>5, IdleUsers
  <1>7. \A d \in Conns : stk'[d] = stk[d]
    BY <1>1, <1>3, <1>5 DEF StacksOK
  <1>8. NeverStarted'
    <2>1. \A d \in Conns : ws'[d].joinable = ws[d].joinable /\ ws'[d].stop = ws[d].stop
      BY <1>1, <1>3 DEF SocketsOK, SocketType
    <2>2. QED
      BY <1>1, <2>1 DEF NeverStarted
  <1>9. calls'["stop"] <= calls["stop"]
    BY <1>1, <1>3 DEF CallsOK, Calls
  <1>10. \A d \in Conns : Layered(d)'
    BY <1>1, <1>7 DEF Layered, Running, Starting, Announcing
  <1>11. QED
    BY <1>1, <1>6, <1>8, <1>9, <1>10, EndpointsFrom

\* The peers, the network and the clock, and no step at all.
LEMMA OutsideEndpoints ==
    ASSUME TypeOK, ServerInv, EndpointInv, CallsOK',
           \/ \E c \in Conns : Arrive(c)
           \/ \E c \in Conns : Environment(c) /\ UNCHANGED <<srv, eps, calls>>
           \/ UNCHANGED vars
    PROVE  EndpointInv'
  <1>1. CallsOK /\ SocketsOK /\ NeverStarted
    BY InvParts DEF EndpointInv, TransportOK
  <1>2. UNCHANGED <<stk, eps, calls>>
    BY DEF Arrive, vars, Environment, PeerSend, PeerAnswer, PeerPong, Break, ClosingDelay,
           PingInterval
  <1>3. \/ ws' = ws
        \/ \E c \in Conns : \/ ws' = [ws EXCEPT ![c].late = TRUE]
                            \/ ws' = [ws EXCEPT ![c].pingDue = TRUE]
    BY DEF Arrive, vars, Environment, PeerSend, PeerAnswer, PeerPong, Break, ClosingDelay,
           PingInterval
  <1>4. \A d \in Conns : /\ ws'[d].st = ws[d].st /\ ws'[d].stop = ws[d].stop
                         /\ ws'[d].joinable = ws[d].joinable
    <2>1. CASE ws' = ws
      BY <2>1
    <2>2. ASSUME NEW c \in Conns,
                 \/ ws' = [ws EXCEPT ![c].late = TRUE]
                 \/ ws' = [ws EXCEPT ![c].pingDue = TRUE]
          PROVE  \A d \in Conns : /\ ws'[d].st = ws[d].st /\ ws'[d].stop = ws[d].stop
                                 /\ ws'[d].joinable = ws[d].joinable
      <3> TAKE d \in Conns
      <3>1. ws[d] \in SocketType /\ DOMAIN ws = Conns
        BY <1>1 DEF SocketsOK
      <3>2. ws'[d] \in {ws[d], [ws[d] EXCEPT !.late = TRUE], [ws[d] EXCEPT !.pingDue = TRUE]}
        BY <2>2, <3>1
      <3>3. QED
        BY <3>1, <3>2 DEF SocketType
    <2>3. QED
      BY <1>3, <2>1, <2>2
  <1>5. NeverStarted' /\ calls'["stop"] <= calls["stop"]
    BY <1>1, <1>2, <1>4 DEF NeverStarted, CallsOK, Calls
  <1>6. NoneStops => NoneStops'
    BY <1>2 DEF NoneStops, Stage
  <1>7. QED
    BY <1>1, <1>2, <1>4, <1>5, <1>6, EndpointsKept

LEMMA InitEndpoints ==
    ASSUME Init
    PROVE  EndpointInv
  <1>1. \A t \in Threads : stk[t] = <<>> /\ Stage(t) = "none"
    BY DEF Init, Stage
  <1>2. \A u \in Users : u \in Threads
    BY Roles
  <1>3. calls["stop"] <= Budget["stop"] /\ eps.of = {}
    BY ServerAssumption DEF Init, Calls
  <1>4. NeverStarted
    BY DEF Init, Fresh, NeverStarted
  <1>5. \A c \in Conns : Layered(c) /\ ListedOpen(c) /\ OpensOpen(c)
    <2> SUFFICES ASSUME NEW c \in Conns PROVE Layered(c) /\ ListedOpen(c) /\ OpensOpen(c)
      OBVIOUS
    <2>1. stk[c] = <<>> /\ \A i : i \notin 1 .. Len(<<>>)
      BY <1>1 DEF Threads
    <2>2. QED
      BY <1>3, <2>1 DEF Layered, ListedOpen, OpensOpen
  <1>6. QED
    BY <1>1, <1>2, <1>3, <1>4, <1>5 DEF EndpointInv, NoneStops

LEMMA NextEndpoints ==
    ASSUME TypeOK, ServerInv, EndpointInv, [Next]_vars
    PROVE  EndpointInv'
  <1>1. TypeOK' /\ ServerInv' /\ CallsOK' /\ StacksOK'
    <2>1. TypeOK' /\ ServerInv'
      BY NextInv
    <2>2. QED
      BY <2>1 DEF TypeOK, CallsOK, TransportOK
  <1>2. CASE \E t \in Users, op \in {"start", "stop"} : UserCall(t, op)
    BY <1>2, UserCallEndpoints
  <1>3. ASSUME NEW t \in Threads, ThreadStep(t)
        PROVE  EndpointInv'
    <2>1. CASE InnerStep(t)
      BY <1>1, <2>1, InnerEndpoints
    <2>2. CASE \/ Accept(t) \/ AcceptWoken(t) \/ AcceptPoll(t)
               \/ Collect(t) \/ CollectNext(t) \/ Collected(t) \/ CollectWait(t)
      BY <1>1, <2>2, ServerEndpoints
    <2>3. CASE Accepted(t)
      BY <1>1, <2>3, AcceptedEndpoints
    <2>4. CASE Serve(t) \/ Served(t) \/ Unlist(t) \/ SetTerminated(t) \/ OnSetTerminated(t)
      BY <1>1, <2>4, ServeEndpoints
    <2>5. CASE \/ SrvStart(t)
               \/ SrvStop(t) \/ SrvClose(t) \/ StopAcceptor(t) \/ JoinAcceptor(t)
               \/ StopCollector(t) \/ JoinCollector(t) \/ SrvStopped(t)
      BY <1>1, <2>5, UserEndpoints
    <2>6. CASE Thrown(t)
      BY <1>1, <2>6, ThrownEndpoints
    <2>7. QED
      BY <1>3, <2>1, <2>2, <2>3, <2>4, <2>5, <2>6 DEF ThreadStep, ServerStep, InnerStep
  <1>4. CASE \/ \E c \in Conns : Arrive(c)
             \/ \E c \in Conns : Environment(c) /\ UNCHANGED <<srv, eps, calls>>
             \/ UNCHANGED vars
    BY <1>1, <1>4, OutsideEndpoints
  <1>5. QED
    BY <1>2, <1>3, <1>4 DEF Next, Quiet

-----------------------------------------------------------------------------
(* The theorems.                                                           *)

(***************************************************************************)
(* Any number of threads may start and stop the server: every thread is    *)
(* where its role lets it be, and the lists of threads, of clients and of  *)
(* callbacks say where the connections' threads are.                       *)
(***************************************************************************)
THEOREM ServerInvariantHolds == Spec => [](TypeOK /\ ServerInv)
  <1>1. Init => TypeOK /\ ServerInv
    BY InitInv
  <1>2. TypeOK /\ ServerInv /\ [Next]_vars => (TypeOK /\ ServerInv)'
    BY NextInv
  <1>3. QED
    BY <1>1, <1>2, PTL DEF Spec

(***************************************************************************)
(* The state keeps its types; a connection in the map of the endpoints, in *)
(* the collector's list or in _clients is one that was accepted.           *)
(***************************************************************************)
THEOREM TypeCorrect == Spec => []TypeOK
  <1>1. Spec => [](TypeOK /\ ServerInv)
    BY ServerInvariantHolds
  <1>2. QED
    BY <1>1, PTL

(***************************************************************************)
(* stop() and getClients() see no connection whose thread has ended, which *)
(* handleConnection removes from _clients before.                          *)
(***************************************************************************)
THEOREM ClientsAreServed == Spec => []ClientsServed
  <1>1. TypeOK /\ ServerInv => ClientsServed
    <2> SUFFICES ASSUME TypeOK, ServerInv, NEW c \in srv.clients PROVE stk[c] # <<>>
      BY DEF ClientsServed
    <2>1. c \in Conns /\ Lists
      BY InvParts DEF ServerType
    <2>2. QED
      BY <2>1 DEF Lists, ListedServed, Stage
  <1>2. Spec => [](TypeOK /\ ServerInv)
    BY ServerInvariantHolds
  <1>3. QED
    BY <1>1, <1>2, PTL

(***************************************************************************)
(* runGC does not sleep over a connection's thread that has ended, however *)
(* its passes and waits fall between the ends.                             *)
(***************************************************************************)
THEOREM NoEndMissed == Spec => []NoMissedEnd
  <1>1. TypeOK /\ ServerInv => NoMissedEnd
    <2> SUFFICES ASSUME TypeOK, ServerInv, At(Collector, "collectWait"), ~srv.canGc,
                        NEW c \in srv.threads
                 PROVE  stk[c] # <<>>
      BY DEF NoMissedEnd
    <2>1. Lists /\ StacksOK /\ Placed
      BY InvParts
    <2>2. Stage(Collector) = "collectWait"
      BY <2>1, Roles, OuterLabels, OuterAt
    <2>3. QED
      BY <2>1, <2>2 DEF Lists, EndNoticed, Stage
  <1>2. Spec => [](TypeOK /\ ServerInv)
    BY ServerInvariantHolds
  <1>3. QED
    BY <1>1, <1>2, PTL

(***************************************************************************)
(* When one thread starts and stops the server, the collector ends after   *)
(* the acceptor and the connections' threads, and stop() joins the         *)
(* acceptor before it tells the collector to end.                          *)
(***************************************************************************)
THEOREM StopsInOrder == ASSUME OneUser PROVE Spec => []StopInv
  <1>1. Init => TypeOK /\ ServerInv /\ StopInv
    BY InitInv
  <1>2. TypeOK /\ ServerInv /\ StopInv /\ [Next]_vars => (TypeOK /\ ServerInv /\ StopInv)'
    BY NextInv
  <1>3. QED
    BY <1>1, <1>2, PTL DEF Spec

(***************************************************************************)
(* When stop() is about to return, the threads that start() and the        *)
(* connections had have ended, and no client is listed.                    *)
(***************************************************************************)
THEOREM StopJoins == ASSUME OneUser PROVE Spec => []StopJoinsAll
  <1>1. TypeOK /\ ServerInv /\ StopInv => StopJoinsAll
    <2> SUFFICES ASSUME TypeOK, ServerInv, StopInv,
                        NEW t \in Threads, At(t, "srvStopped")
                 PROVE  /\ srv.clients = {}
                        /\ \A u \in Conns \cup {Acceptor, Collector} : stk[u] = <<>>
      BY DEF StopJoinsAll
    <2>1. Lists /\ StacksOK /\ Placed /\ srv.clients \subseteq Conns
      BY InvParts DEF ServerType
    <2>2. Stage(t) = "srvStopped" /\ t \in Users
      <3>1. "srvStopped" \notin Inner
        BY OuterLabels
      <3>2. Stage(t) = "srvStopped" /\ "srvStopped" \in Role(t)
        BY <2>1, <3>1, OuterAt
      <3>3. QED
        BY <3>2, WhoseRole
    <2>3. Stage(Collector) = "none" /\ Stage(Acceptor) = "none" /\ srv.threads = {}
      BY <2>2 DEF StopInv, StopOrder, CollectorLast, UserAt
    <2>4. \A c \in Conns : Stage(c) = "none"
      BY <2>1, <2>3 DEF Lists, Accounted
    <2>5. srv.clients = {}
      BY <2>1, <2>4 DEF Lists, ListedServed
    <2>6. \A u \in Conns \cup {Acceptor, Collector} : stk[u] = <<>>
      BY <2>1, <2>3, <2>4, Roles, StageRole DEF Threads
    <2>7. QED
      BY <2>5, <2>6
  <1>2. Spec => [](TypeOK /\ ServerInv)
    BY ServerInvariantHolds
  <1>3. Spec => []StopInv
    BY StopsInOrder
  <1>4. QED
    BY <1>1, <1>2, <1>3, PTL

(***************************************************************************)
(* The map of the endpoints and the calls of a connection's thread stay in *)
(* step: the loop runs inside handleConnection, the callback is told Open  *)
(* from there and once the handshake is over, the thread erases its own    *)
(* endpoint before it closes, and until stop() is called only a connection *)
(* in service and not CLOSED has an endpoint.                              *)
(***************************************************************************)
THEOREM EndpointsInOrder == Spec => []EndpointInv
  <1>1. Init => TypeOK /\ ServerInv /\ EndpointInv
    BY InitInv, InitEndpoints
  <1>2. /\ TypeOK /\ ServerInv /\ EndpointInv
        /\ [Next]_vars
        => (TypeOK /\ ServerInv /\ EndpointInv)'
    BY NextInv, NextEndpoints
  <1>3. QED
    BY <1>1, <1>2, PTL DEF Spec

(***************************************************************************)
(* Until stop() is called, no endpoint is left in the map for a connection *)
(* whose thread has ended, whatever the callback sends or closes and       *)
(* whatever the peers do.  stop() closes the clients from its own thread,  *)
(* and the endpoint it finds there may stay.                               *)
(***************************************************************************)
THEOREM EndpointsAreServed == Spec => [](Unstopped => EndpointsServed)
  <1>1. EndpointInv /\ TypeOK => (Unstopped => EndpointsServed)
    <2> SUFFICES ASSUME EndpointInv, TypeOK, Unstopped, NEW c \in eps.of PROVE stk[c] # <<>>
      BY DEF EndpointsServed
    <2>1. c \in Conns
      BY DEF TypeOK, ServerOK, ServerType
    <2>2. Stage(c) = "served"
      BY <2>1 DEF EndpointInv, ListedOpen
    <2>3. QED
      BY <2>2 DEF Stage
  <1>2. Spec => []TypeOK
    BY TypeCorrect
  <1>3. Spec => []EndpointInv
    BY EndpointsInOrder
  <1>4. QED
    BY <1>1, <1>2, <1>3, PTL

=============================================================================

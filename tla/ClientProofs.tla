---------------------------- MODULE ClientProofs ----------------------------
(***************************************************************************)
(* The client's type invariant, proved for every set of connections and of *)
(* application threads, every budget of calls and every behaviour of the   *)
(* peer, and what it says of the thread that calls the application back.   *)
(***************************************************************************)
EXTENDS ClientProperties, TransportProofs

-----------------------------------------------------------------------------
(* The steps of DWebSocketClient and DWebSocket.                           *)

\* Where a call of the application begins.
LEMMA EntryFrame ==
    ASSUME NEW t, NEW c \in Conns, NEW op \in Calls
    PROVE  GoodFrame(t, Frame(Entry(op), c, "data"))
  <1>1. CASE op = "send"
    BY <1>1, SendFrame DEF Entry, Kinds, SendLabels
  <1>2. CASE op \in {"connect", "close", "destroy"}
    BY <1>2, PlainFrame DEF Entry, PlainLabels, SendLabels, Labels, LoopLabels, ServeLabels,
         ServerLabels, MethodLabels, OwnerLabels, Args, Kinds
  <1>3. QED
    BY <1>1, <1>2 DEF Calls

LEMMA BudgetStep ==
    ASSUME NEW op \in Calls, calls \in [Calls -> Nat], calls[op] > 0,
           calls' = [calls EXCEPT ![op] = @ - 1]
    PROVE  calls' \in [Calls -> Nat]
  OBVIOUS

LEMMA AppCallTypes ==
    ASSUME NEW t \in Apps, NEW c \in Conns, NEW op \in Calls, TypeOK, AppCall(t, c, op)
    PROVE  TypeOK'
  <1> USE DEF TypeOK, TransportOK
  <1>1. StackOK(t, <<Frame(Entry(op), c, "data")>>)
    BY EntryFrame, NewStackOK
  <1>2. StacksOK'
    BY <1>1, StackStep DEF AppCall, Threads
  <1>3. calls' \in [Calls -> Nat]
    BY BudgetStep DEF AppCall
  <1>4. QED
    BY <1>2, <1>3 DEF AppCall, SocketsOK, PeersOK, LogsOK

LEMMA ClientTypes ==
    ASSUME NEW t \in Threads, TypeOK,
           \/ Callback(t)
           \/ ClientClose(t) \/ ClientStop(t) \/ ClientClosed(t)
           \/ ClientConnect(t) \/ ClientRestart(t)
           \/ ClientDestroy(t) \/ ClientReset(t) \/ Destroyed(t) \/ WsRelease(t)
           \/ WsStop(t) \/ WsStart(t) \/ WsReset(t) \/ WsNew(t)
    PROVE  TypeOK'
  <1> USE DEF TypeOK, TransportOK
  <1> DEFINE c == Top(t).c
             x == Top(t).arg
             here == c \in Conns /\ x \in Args /\ stk[t] # <<>> /\ ws[c] \in SocketType
  <1>1. ASSUME NEW label, label \notin ServerLabels, At(t, label)
        PROVE  here
    BY <1>1, AtFrame
  <1>2. ASSUME NEW label \in PlainLabels, NEW y \in Args, c \in Conns
        PROVE  GoodFrame(t, Frame(label, c, y))
    BY <1>2, PlainFrame
  <1>3. ASSUME NEW e \in ClientEvents \ LoopEvents, c \in Conns
        PROVE  GoodFrame(t, Frame("callback", c, e)) /\ e \in Events
    BY <1>3, CallbackFrame DEF Events, ClientEvents, LoopEvents
  <1>4. /\ "" \in Args
        /\ {"closing", "connecting"} \subseteq ClientEvents \ LoopEvents
        /\ {"start", "stop", "close", "clientStop", "clientClosed", "clientRestart",
             "clientReset", "clientClose", "destroyed", "wsRelease",
             "wsStop", "wsStart", "wsReset", "wsNew"} \subseteq PlainLabels
    BY DEF Args, ClientEvents, LoopEvents, PlainLabels, SendLabels, Labels, LoopLabels,
           ServeLabels, ServerLabels, MethodLabels, OwnerLabels
  <1> USE DEF ServerLabels
  <1>5. CASE Callback(t)
    <2>1. here
      BY <1>1, <1>5 DEF Callback
    <2>2. CASE Return(t) /\ UNCHANGED calls
      BY <1>5, <2>1, <2>2, ReturnOK DEF Callback, SocketsOK, PeersOK, LogsOK
    <2>3. ASSUME NEW op \in Calls, calls[op] > 0,
                 calls' = [calls EXCEPT ![op] = @ - 1], JumpWith(t, Entry(op), "data")
          PROVE  TypeOK'
      <3>1. StacksOK'
        BY <2>1, <2>3, EntryFrame, JumpOK
      <3>2. calls' \in [Calls -> Nat]
        BY <2>3, BudgetStep
      <3>3. QED
        BY <1>5, <3>1, <3>2 DEF Callback, SocketsOK, PeersOK, LogsOK
    <2>4. QED
      BY <1>5, <2>2, <2>3 DEF Callback
  <1>6. CASE ClientClose(t)
    <2>1. here
      BY <1>1, <1>6 DEF ClientClose
    <2>2. StacksOK' /\ LogsOK'
      BY <1>2, <1>3, <1>4, <1>6, <2>1, JumpOK, EmitOK DEF ClientClose, Jump, LogsOK
    <2>3. QED
      BY <1>6, <2>2 DEF ClientClose, SocketsOK, PeersOK
  <1>7. CASE ClientStop(t)
    <2>1. here
      BY <1>1, <1>7 DEF ClientStop
    <2>2. StacksOK'
      BY <1>2, <1>4, <1>7, <2>1, CallOK DEF ClientStop, Call
    <2>3. QED
      BY <1>7, <2>2 DEF ClientStop, SocketsOK, PeersOK, LogsOK
  <1>8. CASE ClientClosed(t)
    BY <1>1, <1>8, ReturnOK DEF ClientClosed, SocketsOK, PeersOK, LogsOK
  <1>9. CASE ClientConnect(t)
    <2>1. here
      BY <1>1, <1>9 DEF ClientConnect
    <2>2. StacksOK' /\ LogsOK'
      BY <1>2, <1>3, <1>4, <1>9, <2>1, EmitOK DEF ClientConnect
    <2>3. QED
      BY <1>9, <2>2 DEF ClientConnect, SocketsOK, PeersOK
  <1>10. CASE ClientRestart(t)
    <2>1. here
      BY <1>1, <1>10 DEF ClientRestart
    <2>2. StacksOK'
      BY <1>2, <1>4, <1>10, <2>1, JumpOK, CallOK DEF ClientRestart, Call, Jump
    <2>3. QED
      BY <1>10, <2>2 DEF ClientRestart, SocketsOK, PeersOK, LogsOK
  <1>11. CASE WsStop(t)
    <2>1. here
      BY <1>1, <1>11 DEF WsStop
    <2>2. StacksOK'
      BY <1>2, <1>4, <1>11, <2>1, JumpOK, ReturnOK DEF WsStop, Jump
    <2>3. QED
      BY <1>11, <2>2 DEF WsStop, SocketsOK, PeersOK, LogsOK
  <1>12. CASE WsStart(t)
    <2>1. here
      BY <1>1, <1>12 DEF WsStart
    <2>2. StacksOK'
      BY <1>2, <1>4, <1>12, <2>1, JumpOK, CallOK DEF WsStart, Call, Jump
    <2>3. QED
      BY <1>12, <2>2 DEF WsStart, SocketsOK, PeersOK, LogsOK
  <1>13. CASE WsReset(t)
    <2>1. here
      BY <1>1, <1>13 DEF WsReset
    <2>2. StacksOK'
      BY <1>2, <1>4, <1>13, <2>1, JumpOK, CallOK DEF WsReset, Call, Jump
    <2>3. made' \in [Conns -> BOOLEAN]
      BY <1>13, <2>1 DEF WsReset
    <2>4. QED
      BY <1>13, <2>2, <2>3 DEF WsReset, SocketsOK, PeersOK, LogsOK
  <1>14. CASE WsNew(t)
    <2>1. here
      BY <1>1, <1>14 DEF WsNew
    <2>2. StacksOK'
      BY <1>2, <1>4, <1>14, <2>1, CallOK DEF WsNew, Call
    <2>3. SocketsOK' /\ PeersOK'
      BY <1>14, <2>1, FreshOK, SocketStep, PeerStep DEF WsNew
    <2>4. LogsOK' /\ made' \in [Conns -> BOOLEAN]
      <3>1. <<>> \in Seq(Events)
        OBVIOUS
      <3>2. QED
        BY <1>14, <2>1, <3>1 DEF WsNew, LogsOK
    <2>5. QED
      BY <1>14, <2>2, <2>3, <2>4 DEF WsNew
  <1>15. CASE ClientDestroy(t)
    <2>1. here
      BY <1>1, <1>15 DEF ClientDestroy
    <2>2. StacksOK'
      BY <1>2, <1>4, <1>15, <2>1, CallOK DEF ClientDestroy, Call
    <2>3. QED
      BY <1>15, <2>2 DEF ClientDestroy, SocketsOK, PeersOK, LogsOK
  <1>16. CASE ClientReset(t)
    <2>1. here
      BY <1>1, <1>16 DEF ClientReset
    <2>2. StacksOK'
      BY <1>2, <1>4, <1>16, <2>1, JumpOK, CallOK DEF ClientReset, Call, Jump
    <2>3. made' \in [Conns -> BOOLEAN]
      BY <1>16, <2>1 DEF ClientReset
    <2>4. QED
      BY <1>16, <2>2, <2>3 DEF ClientReset, SocketsOK, PeersOK, LogsOK
  <1>17. CASE WsRelease(t)
    <2>1. here
      BY <1>1, <1>17 DEF WsRelease
    <2>2. StacksOK'
      BY <1>2, <1>4, <1>17, <2>1, CallOK DEF WsRelease, Call
    <2>3. QED
      BY <1>17, <2>2 DEF WsRelease, SocketsOK, PeersOK, LogsOK
  <1>18. CASE Destroyed(t)
    BY <1>1, <1>18, ReturnOK DEF Destroyed, SocketsOK, PeersOK, LogsOK
  <1>19. QED
    BY <1>5, <1>6, <1>7, <1>8, <1>9, <1>10, <1>11, <1>12, <1>13, <1>14, <1>15, <1>16, <1>17,
       <1>18

-----------------------------------------------------------------------------
(* The theorems.                                                           *)

LEMMA InitTypes == Init => TypeOK
  <1> SUFFICES ASSUME Init PROVE TypeOK
    OBVIOUS
  <1>1. SocketsOK /\ PeersOK
    BY FreshOK DEF Init, SocketsOK, PeersOK
  <1>2. StacksOK /\ LogsOK
    BY DEF Init, StacksOK, LogsOK
  <1>3. QED
    BY <1>1, <1>2, ClientAssumption DEF Init, TypeOK, TransportOK

LEMMA NextTypes == TypeOK /\ [Next]_vars => TypeOK'
  <1> SUFFICES ASSUME TypeOK, [Next]_vars PROVE TypeOK'
    OBVIOUS
  <1>1. ASSUME NEW t \in Apps, NEW c \in Conns, NEW op \in Calls, AppCall(t, c, op)
        PROVE  TypeOK'
    BY <1>1, AppCallTypes
  <1>2. ASSUME NEW t \in Threads, ThreadStep(t)
        PROVE  TypeOK'
    <2>1. CASE WebSocketStep(t) /\ UNCHANGED <<made, calls>>
      <3>1. TransportOK'
        BY <2>1, WebSocketTypes DEF TypeOK
      <3>2. QED
        BY <2>1, <3>1 DEF TypeOK
    <2>2. QED
      BY <1>2, <2>1, ClientTypes DEF ThreadStep
  <1>3. ASSUME NEW c \in Conns, Environment(c), UNCHANGED <<made, calls>>
        PROVE  TypeOK'
    BY <1>3, EnvironmentTypes DEF TypeOK
  <1>4. CASE UNCHANGED vars
    BY <1>4 DEF vars, TypeOK, TransportOK, SocketsOK, PeersOK, StacksOK, LogsOK
  <1>5. QED
    BY <1>1, <1>2, <1>3, <1>4 DEF Next, Finished

(***************************************************************************)
(* Whatever the application calls, from its threads or its callback, and   *)
(* whatever the peer and the network do, the buffers hold frames, every    *)
(* method is called with what it expects, and the loop of a connection, its *)
(* handshake, poll and dispatch run on that connection's thread only.      *)
(***************************************************************************)
THEOREM TypeCorrect == Spec => []TypeOK
  BY InitTypes, NextTypes, PTL DEF Spec

(***************************************************************************)
(* The Open, Message, Error, Ping and Pong events of a connection reach    *)
(* the application on the connection's own thread, for any number of       *)
(* threads that send, close and stop.                                      *)
(***************************************************************************)
THEOREM OwnThread == Spec => []EventsOnOwnThread
  <1>1. TypeOK => EventsOnOwnThread
    BY AtFrame DEF EventsOnOwnThread, GoodFrame, FrameOK, TypeOK, ServerLabels
  <1>2. QED
    BY <1>1, TypeCorrect, PTL

=============================================================================

--------------------------- MODULE BrowserProofs ---------------------------
(***************************************************************************)
(* Theorems about the browser's client, for every set of clients and of    *)
(* handles, every budget and every callback: its sockets are owned, and,   *)
(* when no two clients live at once, it implements Session.                *)
(***************************************************************************)
EXTENDS BrowserProperties, SequenceTheorems, TLAPS

-----------------------------------------------------------------------------
(* The stack.                                                              *)

GoodFrame(i, f) == f \in FrameType /\ FrameOK(i, f)

LEMMA TopGood ==
    ASSUME StackOK(stk), stk # <<>>
    PROVE  GoodFrame(Len(stk), Top) /\ Len(stk) \in Nat \ {0}
  BY DEF StackOK, Top, GoodFrame

LEMMA SetTopOK ==
    ASSUME NEW label, StackOK(stk), stk # <<>>,
           GoodFrame(Len(stk), Frame(label, Top.c, "nothing"))
    PROVE  StackOK(SetTop(label)) /\ Len(SetTop(label)) = Len(stk)
  BY DEF StackOK, GoodFrame, SetTop

LEMMA JumpOK ==
    ASSUME NEW label, StackOK(stk), stk # <<>>, life' = life, Jump(label),
           GoodFrame(Len(stk), Frame(label, Top.c, "nothing"))
    PROVE  StackOK(stk)'
  BY SetTopOK DEF Jump, StackOK, FrameOK

LEMMA ReturnOK ==
    ASSUME StackOK(stk), stk # <<>>, Return
    PROVE  /\ stk' \in Seq(FrameType) /\ Len(stk') = Len(stk) - 1
           /\ \A i \in 1 .. Len(stk') : stk'[i] = stk[i]
  <1> DEFINE n == Len(stk) - 1
  <1>1. n \in Nat /\ \A i \in 1 .. n : stk[i] \in FrameType
    BY DEF StackOK
  <1>2. /\ SubSeq(stk, 1, n) \in Seq(FrameType)
        /\ Len(SubSeq(stk, 1, n)) = IF 1 <= n THEN n - 1 + 1 ELSE 0
        /\ \A i \in 1 .. n - 1 + 1 : SubSeq(stk, 1, n)[i] = stk[1 + i - 1]
    BY <1>1, SubSeqProperties
  <1>3. stk' = SubSeq(stk, 1, n)
    BY DEF Return
  <1>4. QED
    <2> HIDE DEF n
    <2>1. Len(stk') = n
      BY <1>1, <1>2, <1>3
    <2>2. \A i \in 1 .. n : stk'[i] = stk[i]
      BY <1>1, <1>2, <1>3
    <2>3. QED
      BY <1>2, <1>3, <2>1, <2>2 DEF n

LEMMA ReturnStays ==
    ASSUME StackOK(stk), stk # <<>>, Return, life' = life
    PROVE  StackOK(stk)'
  <1>1. Len(stk) \in Nat
    BY DEF StackOK
  <1>2. QED
    BY <1>1, ReturnOK DEF StackOK, FrameOK

LEMMA TellOK ==
    ASSUME NEW label \in {"restart", "closeStop"}, NEW event \in ClientEvents,
           StackOK(stk), stk # <<>>, Top.at \in Calls, life' = life, Tell(label, event)
    PROVE  StackOK(stk)'
  <1>1. GoodFrame(Len(stk), Top) /\ Len(stk) \in Nat \ {0}
    BY TopGood
  <1>2. /\ GoodFrame(Len(stk), Frame(label, Top.c, "nothing"))
        /\ GoodFrame(Len(stk) + 1, Frame("event", Top.c, event))
    BY <1>1 DEF GoodFrame, FrameOK, FrameType, Frame, Labels, Calls
  <1>3. StackOK(SetTop(label)) /\ Len(SetTop(label)) = Len(stk)
    BY <1>2, SetTopOK
  <1>4. stk' = Append(SetTop(label), Frame("event", Top.c, event))
    BY DEF Tell
  <1>5. QED
    BY <1>1, <1>2, <1>3, <1>4 DEF StackOK, FrameOK, GoodFrame

LEMMA OneFrame ==
    ASSUME NEW f, GoodFrame(1, f), stk' = <<f>>, life' = life
    PROVE  StackOK(stk)'
  BY DEF StackOK, FrameOK, GoodFrame

-----------------------------------------------------------------------------
(* A client's socket is replaced, or taken away.                           *)

\* What stop() and start() do: the other clients keep theirs.
Moves(c) ==
    /\ socket' \in [Clients -> Handles \cup {None, Refused}]
    /\ web' \in [Handles -> WebState]
    /\ heard' \in [Clients -> SocketEvents \cup {"nothing"}]
    /\ heard'[c] = "nothing"
    /\ socket'[c] \in Handles => web'[socket'[c]] = "connecting"
    /\ \A d \in Clients \ {c} :
          /\ socket'[d] = socket[d] /\ heard'[d] = heard[d]
          /\ socket[d] \in Handles =>
                web'[socket[d]] = web[socket[d]] /\ socket'[c] # socket[d]
    /\ \A h \in Handles :
          web'[h] # "free" =>
              h = socket'[c] \/ \E d \in Clients \ {c} : socket[d] = h

Stays == UNCHANGED <<socket, web, heard>>

LEMMA StopMoves ==
    ASSUME NEW c \in Clients, TypeOK, SocketsOwned, Stop(c)
    PROVE  /\ Moves(c) \/ Stays
           /\ socket' \in [Clients -> Handles \cup {None, Refused}]
           /\ socket'[c] \notin Handles
  <1>1. CASE socket[c] \notin Handles
    BY <1>1 DEF Stop, Stays, TypeOK
  <1>2. CASE socket[c] \in Handles
    <2>1. /\ socket' = [socket EXCEPT ![c] = None]
          /\ web' = Without(c)
          /\ heard' = [heard EXCEPT ![c] = "nothing"]
      BY <1>2 DEF Stop
    <2>2. /\ socket' \in [Clients -> Handles \cup {None, Refused}]
          /\ web' \in [Handles -> WebState]
          /\ heard' \in [Clients -> SocketEvents \cup {"nothing"}]
          /\ heard'[c] = "nothing" /\ socket'[c] = None
      BY <2>1 DEF TypeOK, Without, WebState
    <2>3. None \notin Handles
      BY BrowserAssumption
    <2>4. ASSUME NEW d \in Clients \ {c}
          PROVE  /\ socket'[d] = socket[d] /\ heard'[d] = heard[d]
                 /\ socket[d] \in Handles =>
                       web'[socket[d]] = web[socket[d]] /\ socket'[c] # socket[d]
      BY <1>2, <2>1, <2>2, <2>3 DEF TypeOK, SocketsOwned, Without
    <2>5. ASSUME NEW h \in Handles, web'[h] # "free"
          PROVE  \E d \in Clients \ {c} : socket[d] = h
      BY <2>1, <2>5 DEF SocketsOwned, Without
    <2>6. QED
      BY <2>2, <2>3, <2>4, <2>5 DEF Moves
  <1>3. QED
    BY <1>1, <1>2

LEMMA CreateMoves ==
    ASSUME NEW c \in Clients, TypeOK, SocketsOwned, Create(c)
    PROVE  Moves(c) \/ Stays
  <1>1. CASE socket[c] = Refused
    BY <1>1 DEF Create, Stays
  <1>2. ASSUME socket[c] # Refused,
               NEW h \in Handles,
               Without(c)[h] = "free",
               socket' = [socket EXCEPT ![c] = h],
               web' = [Without(c) EXCEPT ![h] = "connecting"],
               heard' = [heard EXCEPT ![c] = "nothing"]
        PROVE  Moves(c)
    <2>1. /\ socket' \in [Clients -> Handles \cup {None, Refused}]
          /\ web' \in [Handles -> WebState]
          /\ heard' \in [Clients -> SocketEvents \cup {"nothing"}]
          /\ heard'[c] = "nothing" /\ socket'[c] = h /\ web'[h] = "connecting"
      BY <1>2 DEF TypeOK, Without, WebState
    <2>2. ASSUME NEW d \in Clients \ {c}
          PROVE  /\ socket'[d] = socket[d] /\ heard'[d] = heard[d]
                 /\ socket[d] \in Handles =>
                       web'[socket[d]] = web[socket[d]] /\ socket'[c] # socket[d]
      <3>1. socket'[d] = socket[d] /\ heard'[d] = heard[d]
        BY <1>2 DEF TypeOK
      <3>2. ASSUME socket[d] \in Handles
            PROVE  Without(c)[socket[d]] = web[socket[d]] /\ web[socket[d]] # "free"
        BY <3>2 DEF SocketsOwned, Without
      <3>3. QED
        BY <1>2, <2>1, <3>1, <3>2 DEF TypeOK, Without
    <2>3. ASSUME NEW k \in Handles, web'[k] # "free", k # h
          PROVE  \E d \in Clients \ {c} : socket[d] = k
      BY <1>2, <2>3 DEF SocketsOwned, Without
    <2>4. QED
      BY <2>1, <2>2, <2>3 DEF Moves
  <1>3. ASSUME socket[c] # Refused,
               socket' = [socket EXCEPT ![c] = Refused],
               web' = Without(c),
               heard' = [heard EXCEPT ![c] = "nothing"]
        PROVE  Moves(c)
    <2>1. /\ socket' \in [Clients -> Handles \cup {None, Refused}]
          /\ web' \in [Handles -> WebState]
          /\ heard' \in [Clients -> SocketEvents \cup {"nothing"}]
          /\ heard'[c] = "nothing" /\ socket'[c] = Refused
      BY <1>3 DEF TypeOK, Without, WebState
    <2>2. Refused \notin Handles
      BY BrowserAssumption
    <2>3. ASSUME NEW d \in Clients \ {c}
          PROVE  /\ socket'[d] = socket[d] /\ heard'[d] = heard[d]
                 /\ socket[d] \in Handles =>
                       web'[socket[d]] = web[socket[d]] /\ socket'[c] # socket[d]
      BY <1>3, <2>1, <2>2 DEF TypeOK, SocketsOwned, Without
    <2>4. ASSUME NEW k \in Handles, web'[k] # "free"
          PROVE  \E d \in Clients \ {c} : socket[d] = k
      BY <1>3, <2>4 DEF SocketsOwned, Without
    <2>5. QED
      BY <2>1, <2>2, <2>3, <2>4 DEF Moves
  <1>4. QED
    BY <1>1, <1>2, <1>3 DEF Create

\* A client that lives may have a new socket; one without a socket may go.
LEMMA MovesOwned ==
    ASSUME NEW c \in Clients, TypeOK, SocketsOwned, Moves(c) \/ Stays,
           socket' \in [Clients -> Handles \cup {None, Refused}],
           life'[c] = "live" \/ socket'[c] \notin Handles,
           \A d \in Clients \ {c} : life'[d] = life[d]
    PROVE  SocketsOwned'
  <1>1. CASE Stays
    BY <1>1 DEF Stays, SocketsOwned, TypeOK
  <1>2. CASE Moves(c)
    <2>1. ASSUME NEW h \in Handles, web'[h] # "free"
          PROVE  \E d \in Clients : socket'[d] = h
      BY <1>2, <2>1 DEF Moves
    <2>2. ASSUME NEW d \in Clients, socket'[d] \in Handles
          PROVE  /\ life'[d] = "live" /\ web'[socket'[d]] # "free"
                 /\ \A e \in Clients : socket'[e] = socket'[d] => e = d
      <3>1. CASE d = c
        BY <1>2, <2>2, <3>1 DEF Moves
      <3>2. CASE d # c
        BY <1>2, <2>2, <3>2 DEF Moves, SocketsOwned
      <3>3. QED
        BY <3>1, <3>2
    <2>3. QED
      BY <2>1, <2>2 DEF SocketsOwned
  <1>3. QED
    BY <1>1, <1>2

-----------------------------------------------------------------------------
(* Types and ownership, for any number of clients at once.                 *)

\* The handlers find the last client made, if there is one.
Made == This \notin Clients => \A c \in Clients : life[c] = "none"

Inv == TypeOK /\ SocketsOwned /\ Made

\* The actions of the client's own methods that change no socket.
LEMMA QuietOK ==
    ASSUME Inv, StackOK(stk)', calls' \in [Calls -> Nat],
           UNCHANGED <<life, url, socket, bound, This, web, heard>>
    PROVE  Inv'
  BY DEF Inv, TypeOK, SocketsOwned, Made

LEMMA CallSpent ==
    ASSUME TypeOK, NEW op \in Calls, calls[op] > 0, calls' = [calls EXCEPT ![op] = @ - 1]
    PROVE  calls' \in [Calls -> Nat]
  BY DEF TypeOK

\* A frame that is put in the place of the running one, with its object.
LEMMA SameObject ==
    ASSUME NEW label \in Labels \ {"freed", "release"}, StackOK(stk), stk # <<>>,
           Top.at \notin {"freed", "release"}
    PROVE  GoodFrame(Len(stk), Frame(label, Top.c, "nothing"))
  BY TopGood DEF GoodFrame, FrameOK, FrameType, Frame, Labels

LEMMA NewOK ==
    ASSUME Inv, NEW c \in Clients, New(c)
    PROVE  Inv'
  <1>1. StackOK(stk)'
    BY DEF New, StackOK, Inv, TypeOK
  <1>2. TypeOK'
    BY <1>1 DEF New, Inv, TypeOK
  <1>3. SocketsOwned'
    BY DEF New, Inv, TypeOK, SocketsOwned
  <1>4. QED
    BY <1>2, <1>3 DEF New, Inv, Made

LEMMA ApplicationOK ==
    ASSUME Inv, Application
    PROVE  Inv'
  <1>1. ASSUME NEW c \in Clients, SetUrl(c)
        PROVE  Inv'
    <2>1. StackOK(stk)'
      BY <1>1 DEF SetUrl, StackOK, FrameOK, Inv, TypeOK
    <2>2. QED
      BY <1>1, <2>1 DEF SetUrl, Inv, TypeOK, SocketsOwned, Made
  <1>2. ASSUME NEW c \in Clients, Destroy(c)
        PROVE  Inv'
    <2>1. StackOK(stk)'
      BY <1>2 DEF Destroy, StackOK, FrameOK, FrameType, Frame, Labels, Calls
    <2>2. QED
      BY <1>2, <2>1, QuietOK DEF Destroy, Inv, TypeOK
  <1>3. ASSUME NEW c \in Clients, NEW op \in Calls, AppCall(c, op)
        PROVE  Inv'
    <2>1. GoodFrame(1, Frame(op, c, "nothing"))
      BY <1>3 DEF AppCall, GoodFrame, FrameOK, FrameType, Frame, Labels, Calls
    <2>2. StackOK(stk)'
      BY <1>3, <2>1, OneFrame DEF AppCall
    <2>3. QED
      BY <1>3, <2>2, QuietOK, CallSpent DEF AppCall, Inv
  <1>4. QED
    BY <1>1, <1>2, <1>3, NewOK DEF Application

LEMMA EventOK ==
    ASSUME Inv, Event
    PROVE  Inv'
  <1>1. StackOK(stk) /\ stk # <<>> /\ Top.at = "event" /\ life' = life
    BY DEF Event, At, Inv, TypeOK
  <1>2. CASE Return /\ UNCHANGED calls
    BY <1>1, <1>2, ReturnStays, QuietOK DEF Event, Inv, TypeOK
  <1>3. ASSUME NEW op \in Calls, calls[op] > 0,
               calls' = [calls EXCEPT ![op] = @ - 1], Jump(op)
        PROVE  Inv'
    <2>1. GoodFrame(Len(stk), Frame(op, Top.c, "nothing"))
      BY <1>1, SameObject DEF Labels, Calls
    <2>2. StackOK(stk)'
      BY <1>1, <1>3, <2>1, JumpOK
    <2>3. calls' \in [Calls -> Nat]
      BY <1>3, CallSpent DEF Inv
    <2>4. QED
      BY <2>2, <2>3, QuietOK DEF Event
  <1>4. QED
    BY <1>2, <1>3 DEF Event

\* connect(), close() and send() before they touch a socket.
LEMMA EntryOK ==
    ASSUME Inv, Connect \/ Close \/ Send
    PROVE  Inv'
  <1>1. /\ StackOK(stk) /\ stk # <<>> /\ Top.at \in Calls /\ life' = life
        /\ UNCHANGED <<life, url, socket, bound, This, web, heard, calls>>
    BY DEF Connect, Close, Send, At, Inv, TypeOK, Calls
  <1>2. \/ Return \/ stk' = <<>>
        \/ Tell("restart", "connecting") \/ Tell("closeStop", "closing")
    BY DEF Connect, Close, Send
  <1>3. StackOK(stk)'
    <2>1. CASE stk' = <<>>
      BY <2>1 DEF StackOK
    <2>2. "connecting" \in ClientEvents /\ "closing" \in ClientEvents
      BY DEF ClientEvents
    <2>3. QED
      BY <1>1, <1>2, <2>1, <2>2, ReturnStays, TellOK
  <1>4. QED
    BY <1>1, <1>3, QuietOK DEF Inv, TypeOK

LEMMA RestartOK ==
    ASSUME Inv, Restart
    PROVE  Inv'
  <1>1. TypeOK /\ SocketsOwned /\ StackOK(stk) /\ stk # <<>> /\ Top.at = "restart" /\ life' = life
    BY DEF Restart, At, Inv, TypeOK
  <1>2. Top.c \in Clients /\ life[Top.c] = "live"
    BY <1>1, TopGood DEF GoodFrame, FrameOK, FrameType
  <1>3. StackOK(stk)'
    BY <1>1, ReturnStays DEF Restart
  <1>4. Moves(Top.c) \/ Stays
    BY <1>1, <1>2, CreateMoves DEF Restart
  <1>5. TypeOK'
    BY <1>1, <1>3, <1>4 DEF Restart, TypeOK, Moves, Stays
  <1>6. SocketsOwned'
    BY <1>1, <1>2, <1>4, <1>5, MovesOwned DEF TypeOK
  <1>7. QED
    BY <1>5, <1>6 DEF Restart, Inv, Made

LEMMA CloseStopOK ==
    ASSUME Inv, CloseStop
    PROVE  Inv'
  <1>1. TypeOK /\ SocketsOwned /\ StackOK(stk) /\ stk # <<>> /\ life' = life
    BY DEF CloseStop, At, Inv, TypeOK
  <1>2. Top.c \in Clients
    BY <1>1, TopGood DEF GoodFrame, FrameType
  <1>3. StackOK(stk)'
    BY <1>1, ReturnStays DEF CloseStop
  <1>4. (Moves(Top.c) \/ Stays) /\ socket'[Top.c] \notin Handles
    BY <1>1, <1>2, StopMoves DEF CloseStop
  <1>5. TypeOK'
    BY <1>1, <1>3, <1>4 DEF CloseStop, TypeOK, Moves, Stays
  <1>6. SocketsOwned'
    BY <1>1, <1>2, <1>4, <1>5, MovesOwned DEF TypeOK
  <1>7. QED
    BY <1>5, <1>6 DEF CloseStop, Inv, Made

LEMMA ReleaseOK ==
    ASSUME Inv, Release
    PROVE  Inv'
  <1>1. TypeOK /\ SocketsOwned /\ StackOK(stk) /\ stk # <<>> /\ Top.at = "release"
    BY DEF Release, At, Inv, TypeOK
  <1>2. Top.c \in Clients /\ Len(stk) = 1
    BY <1>1, TopGood DEF GoodFrame, FrameOK, FrameType
  <1>3. stk' \in Seq(FrameType) /\ Len(stk') = 0
    BY <1>1, <1>2, ReturnOK DEF Release
  <1>4. StackOK(stk)'
    BY <1>3 DEF StackOK
  <1>5. (Moves(Top.c) \/ Stays) /\ socket'[Top.c] \notin Handles
    BY <1>1, <1>2, StopMoves DEF Release
  <1>6. TypeOK'
    BY <1>1, <1>4, <1>5 DEF Release, TypeOK, Moves, Stays
  <1>7. \A d \in Clients \ {Top.c} : life'[d] = life[d]
    BY <1>1, <1>2 DEF Release, TypeOK
  <1>8. SocketsOwned'
    BY <1>1, <1>2, <1>5, <1>6, <1>7, MovesOwned DEF TypeOK
  <1>9. Made'
    BY <1>1, <1>2, TopGood DEF Release, Inv, Made, GoodFrame, FrameOK
  <1>10. QED
    BY <1>6, <1>8, <1>9 DEF Inv

\* A socket's event: its owner stays its owner.
LEMMA TurnOK ==
    ASSUME Inv, NEW h \in Handles, NEW states, NEW state \in WebState \ {"free"},
           NEW event \in SocketEvents, "free" \notin states, Turn(h, states, state, event)
    PROVE  Inv'
  <1>1. /\ stk = <<>> /\ web[h] # "free" /\ web' = [web EXCEPT ![h] = state]
        /\ UNCHANGED <<life, url, socket, bound, This, calls>>
    BY DEF Turn
  <1>2. This \in Clients
    BY <1>1 DEF Inv, SocketsOwned, Made
  <1>3. SocketsOwned'
    BY <1>1 DEF Inv, TypeOK, SocketsOwned
  <1>4. StackOK(stk)' /\ heard' \in [Clients -> SocketEvents \cup {"nothing"}]
    <2>1. CASE stk' = stk /\ heard' = heard
      BY <1>1, <2>1 DEF Inv, TypeOK, StackOK, FrameOK
    <2>2. CASE This \in Clients /\ heard' = heard /\ stk' = <<Frame("freed", This, event)>>
      <3>1. GoodFrame(1, Frame("freed", This, event))
        BY <2>2 DEF GoodFrame, FrameOK, FrameType, Frame, Labels, ClientEvents
      <3>2. QED
        BY <1>1, <2>2, <3>1, OneFrame DEF Inv, TypeOK
    <2>3. CASE /\ This \in Clients /\ life[This] = "live"
               /\ heard' = [heard EXCEPT ![This] = event]
               /\ stk' = <<Frame("event", This, event)>>
      <3>1. GoodFrame(1, Frame("event", This, event))
        BY <2>3 DEF GoodFrame, FrameOK, FrameType, Frame, Labels, ClientEvents
      <3>2. QED
        BY <1>1, <2>3, <3>1, OneFrame DEF Inv, TypeOK
    <2>4. QED
      BY <1>1, <1>2, <2>1, <2>2, <2>3 DEF Turn, Deliver, Inv, TypeOK
  <1>5. QED
    BY <1>1, <1>3, <1>4 DEF Inv, TypeOK, Made

LEMMA WebOK ==
    ASSUME Inv, Web
    PROVE  Inv'
  <1>1. ASSUME NEW h \in Handles, WebClosing(h)
        PROVE  Inv'
    <2>1. StackOK(stk)'
      BY <1>1 DEF WebClosing, StackOK, FrameOK, Inv, TypeOK
    <2>2. SocketsOwned'
      BY <1>1 DEF WebClosing, Inv, TypeOK, SocketsOwned
    <2>3. web' \in [Handles -> WebState]
      BY <1>1 DEF WebClosing, WebState, Inv, TypeOK
    <2>4. QED
      BY <1>1, <2>1, <2>2, <2>3 DEF WebClosing, Inv, TypeOK, Made
  <1>2. ASSUME NEW h \in Handles, WebOpens(h) \/ WebMessage(h) \/ WebFails(h) \/ WebCloses(h)
        PROVE  Inv'
    <2>1. /\ {"open", "failed", "closed"} \subseteq WebState \ {"free"}
          /\ {"open", "message", "error", "close"} \subseteq SocketEvents
      BY DEF WebState, SocketEvents
    <2>2. QED
      BY <1>2, <2>1, TurnOK DEF WebOpens, WebMessage, WebFails, WebCloses
  <1>3. QED
    BY <1>1, <1>2 DEF Web

LEMMA InitOK ==
    ASSUME Init
    PROVE  Inv
  <1>1. StackOK(stk)
    BY DEF Init, StackOK
  <1>2. TypeOK
    BY <1>1, BrowserAssumption DEF Init, TypeOK, WebState
  <1>3. SocketsOwned
    BY BrowserAssumption DEF Init, SocketsOwned
  <1>4. QED
    BY <1>2, <1>3 DEF Init, Inv, Made

LEMMA StepOK ==
    ASSUME Inv, [Next]_vars
    PROVE  Inv'
  <1>1. CASE UNCHANGED vars
    <2>1. StackOK(stk)'
      BY <1>1 DEF vars, StackOK, FrameOK, Inv, TypeOK
    <2>2. QED
      BY <1>1, <2>1 DEF vars, Inv, TypeOK, SocketsOwned, Made
  <1>2. CASE Library
    BY <1>2, EventOK, EntryOK, RestartOK, CloseStopOK, ReleaseOK DEF Library
  <1>3. CASE Application
    BY <1>3, ApplicationOK
  <1>4. CASE Web
    BY <1>4, WebOK
  <1>5. QED
    BY <1>1, <1>2, <1>3, <1>4 DEF Next, Idle

LEMMA Invariant == Spec => []Inv
  BY InitOK, StepOK, PTL DEF Spec

(***************************************************************************)
(* The client's variables keep their types, and no method is on the stack  *)
(* of an object that was destroyed, however many clients live at once and  *)
(* whatever the callback calls.                                            *)
(***************************************************************************)
THEOREM TypeCorrect == Spec => []TypeOK
  <1>1. Inv => TypeOK
    BY DEF Inv
  <1>2. QED
    BY <1>1, Invariant, PTL

(***************************************************************************)
(* A socket of the browser always belongs to one client, which lives: the  *)
(* negative handle of a refused start and the exception of a send in the   *)
(* middle of a connect leave none behind.                                  *)
(***************************************************************************)
THEOREM Owned == Spec => []SocketsOwned
  <1>1. Inv => SocketsOwned
    BY DEF Inv
  <1>2. QED
    BY <1>1, Invariant, PTL

-----------------------------------------------------------------------------
(* One client at a time: the global `This' is the client whose socket the  *)
(* event is of.                                                            *)

\* The object that lives is the one the handlers find.
OneLive == \A c \in Clients : life[c] = "live" => This = c

\* What a socket's state says of the events it has given.
HeardOK ==
    \A c \in Clients :
        IF socket[c] \in Handles
        THEN /\ web[socket[c]] = "connecting" => heard[c] = "nothing"
             /\ web[socket[c]] \in {"open", "closing"} => heard[c] \in {"open", "message"}
             /\ web[socket[c]] = "failed" => heard[c] = "error"
             /\ web[socket[c]] = "closed" => heard[c] = "close"
             /\ bound[c]
        ELSE heard[c] = "nothing"

NeverFreed == \A i \in 1 .. Len(stk) : stk[i].at # "freed"

Alone == Inv /\ OneLive /\ HeardOK /\ NeverFreed

LEMMA ReturnNotFreed ==
    ASSUME StackOK(stk), stk # <<>>, NeverFreed, Return
    PROVE  NeverFreed'
  <1>1. Len(stk) \in Nat
    BY DEF StackOK
  <1>2. QED
    BY <1>1, ReturnOK DEF NeverFreed

LEMMA JumpNotFreed ==
    ASSUME NEW label \in Labels \ {"freed"}, StackOK(stk), stk # <<>>, NeverFreed, Jump(label)
    PROVE  NeverFreed'
  BY DEF StackOK, NeverFreed, Jump, SetTop, Frame

LEMMA TellNotFreed ==
    ASSUME NEW label \in {"restart", "closeStop"}, NEW event \in ClientEvents,
           StackOK(stk), stk # <<>>, Top.at \in Calls, NeverFreed, Tell(label, event)
    PROVE  NeverFreed'
  <1>1. GoodFrame(Len(stk), Frame(label, Top.c, "nothing"))
    BY SameObject DEF Calls, Labels
  <1>2. StackOK(SetTop(label)) /\ Len(SetTop(label)) = Len(stk)
    BY <1>1, SetTopOK
  <1>3. \A i \in 1 .. Len(stk) : SetTop(label)[i].at # "freed"
    BY DEF StackOK, NeverFreed, SetTop, Frame
  <1>4. stk' = Append(SetTop(label), Frame("event", Top.c, event))
    BY DEF Tell
  <1>5. QED
    BY <1>2, <1>3, <1>4 DEF NeverFreed, StackOK, Frame

\* The step of one client in the abstract session.
LEMMA OnePhase ==
    ASSUME NEW c \in Clients, NEW state, NEW event, TypeOK,
           heard' = [heard EXCEPT ![c] = event],
           Phase(c)' = state, \A d \in Clients \ {c} : Phase(d)' = Phase(d)
    PROVE  Abstract!Becomes(c, state, event)
  <1>1. [d \in Clients |-> Phase(d)]' = [[d \in Clients |-> Phase(d)] EXCEPT ![c] = state]
    OBVIOUS
  <1>2. QED
    BY <1>1 DEF Abstract!Becomes

LEMMA MovesStart ==
    ASSUME Alone, NEW c \in Clients, Moves(c)
    PROVE  Abstract!Start(c)
  <1>1. heard' = [heard EXCEPT ![c] = "nothing"]
    BY DEF Moves, Alone, Inv, TypeOK
  <1>2. Phase(c)' \in {"connecting", "idle"}
    BY DEF Moves, Phase
  <1>3. \A d \in Clients \ {c} : Phase(d)' = Phase(d)
    BY DEF Moves, Phase
  <1>4. QED
    BY <1>1, <1>2, <1>3, OnePhase DEF Abstract!Start, Alone, Inv

LEMMA StaysStutters ==
    ASSUME Stays
    PROVE  UNCHANGED Abstract!vars
  BY DEF Stays, Abstract!vars, Phase

LEMMA MovesHeard ==
    ASSUME Alone, NEW c \in Clients, Moves(c), socket'[c] \in Handles => bound'[c],
           \A d \in Clients \ {c} : bound'[d] = bound[d]
    PROVE  HeardOK'
  <1>1. ASSUME NEW d \in Clients \ {c}
        PROVE  /\ socket'[d] = socket[d] /\ heard'[d] = heard[d] /\ bound'[d] = bound[d]
               /\ socket[d] \in Handles => web'[socket'[d]] = web[socket[d]]
    BY <1>1 DEF Moves
  <1>2. QED
    BY <1>1 DEF Alone, HeardOK, Moves

-----------------------------------------------------------------------------
(* Every step keeps Alone, and is a step of the session or a stutter.      *)

SessionStep == Abstract!Next \/ UNCHANGED Abstract!vars

\* The steps that leave the sockets and the stack's objects as they are.
LEMMA QuietAlone ==
    ASSUME Alone, Inv', NeverFreed',
           UNCHANGED <<life, socket, bound, This, web, heard>>
    PROVE  Alone' /\ SessionStep
  <1>1. Alone'
    BY DEF Alone, OneLive, HeardOK
  <1>2. UNCHANGED Abstract!vars
    BY DEF Abstract!vars, Phase
  <1>3. QED
    BY <1>1, <1>2 DEF SessionStep

\* The steps that give a client another socket or take its socket away.
LEMMA MovesAlone ==
    ASSUME Alone, Inv', NeverFreed', OneLive', NEW c \in Clients,
           Moves(c) \/ Stays,
           bound' = [bound EXCEPT ![c] = TRUE] \/ (bound' = bound /\ socket'[c] \notin Handles)
    PROVE  Alone' /\ SessionStep
  <1>1. CASE Stays
    <2>1. HeardOK'
      BY <1>1 DEF Stays, Alone, HeardOK, Inv, TypeOK
    <2>2. QED
      BY <1>1, <2>1, StaysStutters DEF Alone, SessionStep
  <1>2. CASE Moves(c)
    <2>1. /\ socket'[c] \in Handles => bound'[c]
          /\ \A d \in Clients \ {c} : bound'[d] = bound[d]
      BY DEF Alone, Inv, TypeOK
    <2>2. HeardOK'
      BY <1>2, <2>1, MovesHeard
    <2>3. Abstract!Start(c)
      BY <1>2, MovesStart
    <2>4. QED
      BY <2>2, <2>3 DEF Alone, SessionStep, Abstract!Next
  <1>3. QED
    BY <1>1, <1>2

LEMMA ApplicationAlone ==
    ASSUME ~Overlap, Alone, Inv', Application
    PROVE  Alone' /\ SessionStep
  <1>1. ASSUME NEW c \in Clients, New(c)
        PROVE  Alone' /\ SessionStep
    <2>1. OneLive'
      BY <1>1 DEF New, OneLive, Alone, Inv, TypeOK
    <2>2. HeardOK' /\ NeverFreed'
      BY <1>1 DEF New, HeardOK, NeverFreed, Alone
    <2>3. UNCHANGED Abstract!vars
      BY <1>1 DEF New, Abstract!vars, Phase
    <2>4. QED
      BY <2>1, <2>2, <2>3 DEF Alone, SessionStep
  <1>2. ASSUME NEW c \in Clients,
               SetUrl(c) \/ Destroy(c) \/ \E op \in Calls : AppCall(c, op)
        PROVE  Alone' /\ SessionStep
    <2>1. UNCHANGED <<life, socket, bound, This, web, heard>>
      BY <1>2 DEF SetUrl, Destroy, AppCall
    <2>2. NeverFreed'
      BY <1>2 DEF SetUrl, Destroy, AppCall, NeverFreed, Frame, Calls, Alone
    <2>3. QED
      BY <2>1, <2>2, QuietAlone
  <1>3. QED
    BY <1>1, <1>2 DEF Application

LEMMA LibraryAlone ==
    ASSUME Alone, Inv', Library
    PROVE  Alone' /\ SessionStep
  <1>1. /\ TypeOK /\ SocketsOwned /\ NeverFreed /\ OneLive /\ StackOK(stk)
        /\ stk # <<>>
    BY DEF Alone, Inv, TypeOK, Library, Event, Connect, Restart, Close, CloseStop, Send, Release, At
  <1>2. Top.c \in Clients
    BY <1>1, TopGood DEF GoodFrame, FrameType
  <1>3. CASE Event
    <2>1. NeverFreed'
      BY <1>1, <1>3, ReturnNotFreed, JumpNotFreed DEF Event, Labels, Calls
    <2>2. QED
      BY <1>3, <2>1, QuietAlone DEF Event
  <1>4. CASE Connect \/ Close \/ Send
    <2>1. Top.at \in Calls
      BY <1>4 DEF Connect, Close, Send, At, Calls
    <2>2. \/ Return \/ stk' = <<>>
          \/ Tell("restart", "connecting") \/ Tell("closeStop", "closing")
      BY <1>4 DEF Connect, Close, Send
    <2>3. ASSUME stk' = <<>>
          PROVE  NeverFreed'
      BY <2>3 DEF NeverFreed
    <2>4. NeverFreed'
      BY <1>1, <2>1, <2>2, <2>3, ReturnNotFreed, TellNotFreed DEF ClientEvents
    <2>5. QED
      BY <1>4, <2>4, QuietAlone DEF Connect, Close, Send
  <1>5. CASE Restart
    <2>1. NeverFreed' /\ OneLive'
      BY <1>1, <1>5, ReturnNotFreed DEF Restart, OneLive
    <2>2. Moves(Top.c) \/ Stays
      BY <1>1, <1>2, <1>5, CreateMoves DEF Restart
    <2>3. QED
      BY <1>2, <1>5, <2>1, <2>2, MovesAlone DEF Restart
  <1>6. CASE CloseStop
    <2>1. NeverFreed' /\ OneLive'
      BY <1>1, <1>6, ReturnNotFreed DEF CloseStop, OneLive
    <2>2. (Moves(Top.c) \/ Stays) /\ socket'[Top.c] \notin Handles
      BY <1>1, <1>2, <1>6, StopMoves DEF CloseStop
    <2>3. QED
      BY <1>2, <1>6, <2>1, <2>2, MovesAlone DEF CloseStop
  <1>7. CASE Release
    <2>1. NeverFreed' /\ OneLive'
      BY <1>1, <1>2, <1>7, ReturnNotFreed DEF Release, OneLive, TypeOK
    <2>2. (Moves(Top.c) \/ Stays) /\ socket'[Top.c] \notin Handles
      BY <1>1, <1>2, <1>7, StopMoves DEF Release
    <2>3. QED
      BY <1>2, <1>7, <2>1, <2>2, MovesAlone DEF Release
  <1>8. QED
    BY <1>3, <1>4, <1>5, <1>6, <1>7 DEF Library

\* The event of a socket is given to the client that owns it.
LEMMA TurnAlone ==
    ASSUME Alone, NEW h \in Handles, NEW states, NEW state \in WebState \ {"free"},
           NEW event \in SocketEvents, "free" \notin states, Turn(h, states, state, event)
    PROVE  \E c \in Clients :
              /\ socket[c] = h /\ socket' = socket /\ bound' = bound /\ bound[c]
              /\ OneLive' /\ NeverFreed'
              /\ web' = [web EXCEPT ![h] = state]
              /\ heard' = [heard EXCEPT ![c] = event]
              /\ Phase(c)' = IF state = "failed" THEN "closed" ELSE state
              /\ \A d \in Clients \ {c} : Phase(d)' = Phase(d) /\ socket[d] # h
  <1>1. /\ stk = <<>> /\ web[h] # "free" /\ web' = [web EXCEPT ![h] = state]
        /\ UNCHANGED <<life, url, socket, bound, This, calls>> /\ Deliver(event)
    BY DEF Turn
  <1>2. PICK c \in Clients : socket[c] = h /\ life[c] = "live"
    BY <1>1 DEF Alone, Inv, SocketsOwned
  <1>3. This = c /\ bound[c]
    BY <1>2 DEF Alone, OneLive, HeardOK
  <1>4. /\ stk' = <<Frame("event", c, event)>>
        /\ heard' = [heard EXCEPT ![c] = event]
    BY <1>1, <1>2, <1>3 DEF Deliver, Alone, Inv, TypeOK
  <1>5. OneLive' /\ NeverFreed'
    BY <1>1, <1>4 DEF Alone, OneLive, NeverFreed, Frame
  <1>6. Phase(c)' = IF state = "failed" THEN "closed" ELSE state
    BY <1>1, <1>2 DEF Phase, Alone, Inv, TypeOK
  <1>7. ASSUME NEW d \in Clients \ {c}
        PROVE  Phase(d)' = Phase(d) /\ socket[d] # h
    BY <1>1, <1>2 DEF Phase, Alone, Inv, TypeOK, SocketsOwned
  <1>8. QED
    BY <1>1, <1>2, <1>3, <1>4, <1>5, <1>6, <1>7

\* The abstract session's step, from the phase of the owner.
LEMMA WebAlone ==
    ASSUME Alone, Inv', Web
    PROVE  Alone' /\ SessionStep
  <1> USE DEF WebState, SocketEvents
  <1>1. ASSUME NEW h \in Handles, WebOpens(h)
        PROVE  Alone' /\ SessionStep
    <2>1. PICK c \in Clients :
              /\ socket[c] = h /\ socket' = socket /\ bound' = bound /\ bound[c]
              /\ OneLive' /\ NeverFreed'
              /\ web' = [web EXCEPT ![h] = "open"]
              /\ heard' = [heard EXCEPT ![c] = "open"]
              /\ Phase(c)' = "open"
              /\ \A d \in Clients \ {c} : Phase(d)' = Phase(d) /\ socket[d] # h
      BY <1>1, TurnAlone DEF WebOpens
    <2>2. web[h] = "connecting"
      BY <1>1 DEF WebOpens, Turn
    <2>3. HeardOK'
      BY <2>1 DEF HeardOK, Alone, Inv, TypeOK
    <2>4. Phase(c) = "connecting" /\ heard[c] = "nothing"
      BY <2>1, <2>2 DEF HeardOK, Alone, Phase
    <2>5. Abstract!Becomes(c, "open", "open")
      BY <2>1, OnePhase DEF Alone, Inv
    <2>6. QED
      BY <2>1, <2>3, <2>4, <2>5 DEF Alone, SessionStep, Abstract!Next, Abstract!Open
  <1>2. ASSUME NEW h \in Handles, WebMessage(h)
        PROVE  Alone' /\ SessionStep
    <2>1. PICK c \in Clients :
              /\ socket[c] = h /\ socket' = socket /\ bound' = bound /\ bound[c]
              /\ OneLive' /\ NeverFreed'
              /\ web' = [web EXCEPT ![h] = "open"]
              /\ heard' = [heard EXCEPT ![c] = "message"]
              /\ Phase(c)' = "open"
              /\ \A d \in Clients \ {c} : Phase(d)' = Phase(d) /\ socket[d] # h
      BY <1>2, TurnAlone DEF WebMessage
    <2>2. web[h] = "open"
      BY <1>2 DEF WebMessage, Turn
    <2>3. HeardOK'
      BY <2>1 DEF HeardOK, Alone, Inv, TypeOK
    <2>4. Phase(c) = "open" /\ heard[c] \in {"open", "message"}
      BY <2>1, <2>2 DEF HeardOK, Alone, Phase
    <2>5. Abstract!Becomes(c, "open", "message")
      BY <2>1, OnePhase DEF Alone, Inv
    <2>6. QED
      BY <2>1, <2>3, <2>4, <2>5 DEF Alone, SessionStep, Abstract!Next, Abstract!Message
  <1>3. ASSUME NEW h \in Handles, WebFails(h)
        PROVE  Alone' /\ SessionStep
    <2>1. PICK c \in Clients :
              /\ socket[c] = h /\ socket' = socket /\ bound' = bound /\ bound[c]
              /\ OneLive' /\ NeverFreed'
              /\ web' = [web EXCEPT ![h] = "failed"]
              /\ heard' = [heard EXCEPT ![c] = "error"]
              /\ Phase(c)' = "closed"
              /\ \A d \in Clients \ {c} : Phase(d)' = Phase(d) /\ socket[d] # h
      BY <1>3, TurnAlone DEF WebFails
    <2>2. web[h] \in {"connecting", "open", "closing"}
      BY <1>3 DEF WebFails, Turn
    <2>3. HeardOK'
      BY <2>1 DEF HeardOK, Alone, Inv, TypeOK
    <2>4. /\ Phase(c) \in {"connecting", "open", "closing"}
          /\ heard[c] \notin {"error", "close"}
      BY <2>1, <2>2 DEF HeardOK, Alone, Phase
    <2>5. Abstract!Becomes(c, "closed", "error")
      BY <2>1, OnePhase DEF Alone, Inv
    <2>6. QED
      BY <2>1, <2>3, <2>4, <2>5 DEF Alone, SessionStep, Abstract!Next, Abstract!Fail
  <1>4. ASSUME NEW h \in Handles, WebCloses(h)
        PROVE  Alone' /\ SessionStep
    <2>1. PICK c \in Clients :
              /\ socket[c] = h /\ socket' = socket /\ bound' = bound /\ bound[c]
              /\ OneLive' /\ NeverFreed'
              /\ web' = [web EXCEPT ![h] = "closed"]
              /\ heard' = [heard EXCEPT ![c] = "close"]
              /\ Phase(c)' = "closed"
              /\ \A d \in Clients \ {c} : Phase(d)' = Phase(d) /\ socket[d] # h
      BY <1>4, TurnAlone DEF WebCloses
    <2>2. web[h] \in {"open", "closing", "failed"}
      BY <1>4 DEF WebCloses, Turn
    <2>3. HeardOK'
      BY <2>1 DEF HeardOK, Alone, Inv, TypeOK
    <2>4. \/ Phase(c) \in {"open", "closing"} /\ heard[c] \in {"open", "message"}
          \/ Phase(c) = "closed" /\ heard[c] = "error"
      BY <2>1, <2>2 DEF HeardOK, Alone, Phase
    <2>5. Abstract!Becomes(c, "closed", "close")
      BY <2>1, OnePhase DEF Alone, Inv
    <2>6. QED
      BY <2>1, <2>3, <2>4, <2>5 DEF Alone, SessionStep, Abstract!Next, Abstract!Close
  <1>5. ASSUME NEW h \in Handles, WebClosing(h)
        PROVE  Alone' /\ SessionStep
    <2>1. /\ web[h] = "open" /\ web' = [web EXCEPT ![h] = "closing"]
          /\ UNCHANGED <<life, socket, bound, This, stk, heard>>
      BY <1>5 DEF WebClosing
    <2>2. PICK c \in Clients : socket[c] = h /\ \A d \in Clients \ {c} : socket[d] # h
      BY <2>1 DEF Alone, Inv, SocketsOwned
    <2>3. HeardOK' /\ OneLive' /\ NeverFreed'
      BY <2>1 DEF HeardOK, OneLive, NeverFreed, Alone, Inv, TypeOK
    <2>4. /\ heard' = [heard EXCEPT ![c] = heard[c]]
          /\ Phase(c) = "open" /\ Phase(c)' = "closing"
          /\ \A d \in Clients \ {c} : Phase(d)' = Phase(d)
      BY <2>1, <2>2 DEF Phase, Alone, Inv, TypeOK
    <2>5. Abstract!Becomes(c, "closing", heard[c])
      BY <2>4, OnePhase DEF Alone, Inv
    <2>6. QED
      BY <2>3, <2>4, <2>5 DEF Alone, SessionStep, Abstract!Next, Abstract!Closing
  <1>6. QED
    BY <1>1, <1>2, <1>3, <1>4, <1>5 DEF Web

LEMMA StepAlone ==
    ASSUME ~Overlap, Alone, [Next]_vars
    PROVE  Alone' /\ SessionStep
  <1>1. Inv'
    BY StepOK DEF Alone
  <1>2. CASE Idle \/ UNCHANGED vars
    <2>1. NeverFreed' /\ UNCHANGED <<life, socket, bound, This, web, heard>>
      BY <1>2 DEF Idle, vars, NeverFreed, Alone
    <2>2. QED
      BY <1>1, <2>1, QuietAlone
  <1>3. QED
    BY <1>1, <1>2, LibraryAlone, ApplicationAlone, WebAlone DEF Next

LEMMA InitAlone ==
    ASSUME Init
    PROVE  Alone /\ Abstract!Init
  <1>1. Inv /\ None \notin Handles
    BY InitOK, BrowserAssumption
  <1>2. OneLive /\ HeardOK /\ NeverFreed
    BY <1>1 DEF Init, OneLive, HeardOK, NeverFreed
  <1>3. Abstract!Init
    BY <1>1 DEF Init, Abstract!Init, Phase
  <1>4. QED
    BY <1>1, <1>2, <1>3 DEF Alone

(***************************************************************************)
(* With one client at a time no handler uses an object that was destroyed: *)
(* the destructor has stopped its socket before it goes.                   *)
(***************************************************************************)
THEOREM HandlersSafe == ASSUME ~Overlap PROVE Spec => []NothingFreed
  <1>1. Alone => NothingFreed
    <2>1. ASSUME Alone
          PROVE  NothingFreed
      <3>1. stk \in Seq(FrameType) /\ NeverFreed
        BY <2>1 DEF Alone, Inv, TypeOK, StackOK
      <3>2. stk # <<>> => Len(stk) \in 1 .. Len(stk)
        BY <3>1
      <3>3. QED
        BY <3>1, <3>2 DEF NothingFreed, At, Top, NeverFreed
    <2>2. QED
      BY <2>1
  <1>2. Init => Alone
    BY InitAlone
  <1>3. Alone /\ [Next]_vars => Alone'
    BY StepAlone
  <1>4. QED
    BY <1>1, <1>2, <1>3, PTL DEF Spec

(***************************************************************************)
(* The refinement: a program that has one client at a time sees, through   *)
(* the handlers that know only `This', the session of its own client.      *)
(***************************************************************************)
THEOREM Implements == ASSUME ~Overlap PROVE Spec => Sessions
  <1>1. Init => Alone /\ Abstract!Init
    BY InitAlone
  <1>2. Alone /\ [Next]_vars => Alone' /\ [Abstract!Next]_(Abstract!vars)
    BY StepAlone DEF SessionStep
  <1>3. QED
    BY <1>1, <1>2, PTL DEF Spec, Sessions, Abstract!Spec

=============================================================================

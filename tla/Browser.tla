------------------------------ MODULE Browser ------------------------------
(***************************************************************************)
(* DWebSocketClient over the DWebSocket of the browser.  One thread runs   *)
(* the application and the library; between the application's turns the    *)
(* browser calls the handlers of its sockets, which look for their         *)
(* DWebSocket in the global `This'.                                        *)
(***************************************************************************)
EXTENDS Integers, Sequences

CONSTANTS
    Clients,  \* the DWebSocketClient objects the application constructs
    Handles,  \* the positive handles emscripten_websocket_new may give
    None,     \* the handle 0, and the null This
    Refused,  \* a negative handle: the socket could not be created
    Overlap,  \* whether a client is constructed while another one lives
    Budget,   \* bound: how many times the application calls each operation
    Nested    \* the pairs <<event, operation>> its callback may make

Calls == {"connect", "close", "send"}

\* The events of a socket, and those of the client itself.
SocketEvents == {"open", "message", "error", "close"}
ClientEvents == SocketEvents \cup {"connecting", "closing"}

ASSUME BrowserAssumption ==
    /\ None \notin Clients \cup Handles
    /\ Refused \notin Handles \cup {None}
    /\ Overlap \in BOOLEAN
    /\ Budget \in [Calls -> Nat]
    /\ Nested \subseteq ClientEvents \X Calls

VARIABLES
    life,   \* life[c]: constructed and destroyed
    url,    \* url[c]: DWebSocketClient::url is not empty
    socket, \* socket[c]: DWebSocket::socket
    bound,  \* bound[c]: DWebSocket::eventCallback is set
    This,   \* the global pointer
    web,    \* web[h]: the browser's socket, "failed" when its close is to come
    stk,    \* the frames of the thread, the running one last
    heard,  \* heard[c]: the last event of a socket given since start or stop
    calls   \* calls[op]: how many calls can still be made

vars == <<life, url, socket, bound, This, web, stk, heard, calls>>

Frame(label, c, event) == [at |-> label, c |-> c, event |-> event]

Top == stk[Len(stk)]
At(label) == stk # <<>> /\ Top.at = label

SetTop(label) == [stk EXCEPT ![Len(stk)] = Frame(label, Top.c, "nothing")]

Jump(label) == stk' = SetTop(label)
Return == stk' = SubSeq(stk, 1, Len(stk) - 1)

\* The application's callback is called, and the caller goes on at label.
Tell(label, event) == stk' = Append(SetTop(label), Frame("event", Top.c, event))

-----------------------------------------------------------------------------
(* DWebSocket                                                              *)

ReadyState == {"connecting", "open", "closing", "closed"}

\* getReadyState: 0 is closed; for a negative handle the browser leaves the
\* variable that is returned unset.
ReadyStates(c) ==
    CASE socket[c] = None       -> {"closed"}
      [] socket[c] = Refused    -> ReadyState
      [] socket[c] \in Handles  -> {IF web[socket[c]] = "failed" THEN "closed"
                                                                 ELSE web[socket[c]]}

Without(c) == [h \in Handles |-> IF h = socket[c] THEN "free" ELSE web[h]]

\* Mutant: stop() closes the socket and does not delete it.
StopCloses(c) ==
    IF socket[c] \in Handles
    THEN /\ socket' = [socket EXCEPT ![c] = None]
         /\ web' = [web EXCEPT ![socket[c]] = "closing"]
         /\ heard' = [heard EXCEPT ![c] = "nothing"]
    ELSE UNCHANGED <<socket, web, heard>>

\* stop(): closed, its handlers removed and its handle given back at once; a
\* handle the browser does not know stays.
Stop(c) ==
    IF socket[c] \in Handles
    THEN /\ socket' = [socket EXCEPT ![c] = None]
         /\ web' = Without(c)
         /\ heard' = [heard EXCEPT ![c] = "nothing"]
    ELSE UNCHANGED <<socket, web, heard>>

\* Mutant: start() does not stop the socket that is there.
CreateReplaces(c) ==
    /\ \E h \in Handles :
          /\ web[h] = "free"
          /\ socket' = [socket EXCEPT ![c] = h]
          /\ web' = [web EXCEPT ![h] = "connecting"]
    /\ heard' = [heard EXCEPT ![c] = "nothing"]

\* start(): a socket that is there is stopped first, and must be.
Create(c) ==
    IF socket[c] = Refused
    THEN UNCHANGED <<socket, web, heard>>
    ELSE /\ \/ \E h \in Handles :
                  /\ Without(c)[h] = "free"
                  /\ socket' = [socket EXCEPT ![c] = h]
                  /\ web' = [Without(c) EXCEPT ![h] = "connecting"]
            \/ /\ socket' = [socket EXCEPT ![c] = Refused]
               /\ web' = Without(c)
         /\ heard' = [heard EXCEPT ![c] = "nothing"]

-----------------------------------------------------------------------------
(* DWebSocketClient                                                        *)

\* setUrl() has been called, or not, when the object is made.
New(c) ==
    /\ stk = <<>>
    /\ life[c] = "none"
    /\ Overlap \/ \A d \in Clients : life[d] # "live"
    /\ life' = [life EXCEPT ![c] = "live"]
    /\ url' \in {url, [url EXCEPT ![c] = TRUE]}
    /\ This' = c
    /\ UNCHANGED <<socket, bound, web, stk, heard, calls>>

SetUrl(c) ==
    /\ stk = <<>>
    /\ life[c] = "live"
    /\ url' = [url EXCEPT ![c] = TRUE]
    /\ UNCHANGED <<life, socket, bound, This, web, stk, heard, calls>>

\* From the application's own turn, on an object that lives.
AppCall(c, op) ==
    /\ stk = <<>>
    /\ life[c] = "live"
    /\ calls[op] > 0
    /\ calls' = [calls EXCEPT ![op] = @ - 1]
    /\ stk' = <<Frame(op, c, "nothing")>>
    /\ UNCHANGED <<life, url, socket, bound, This, web, heard>>

\* From its callback, which ends with the call, or without one.
Event ==
    /\ At("event")
    /\ \/ Return /\ UNCHANGED calls
       \/ \E op \in Calls :
             /\ <<Top.event, op>> \in Nested
             /\ calls[op] > 0
             /\ calls' = [calls EXCEPT ![op] = @ - 1]
             /\ Jump(op)
    /\ UNCHANGED <<life, url, socket, bound, This, web, heard>>

Connect ==
    /\ At("connect")
    /\ IF url[Top.c] THEN Tell("restart", "connecting") ELSE Return
    /\ UNCHANGED <<life, url, socket, bound, This, web, heard, calls>>

\* The result of start() is not looked at: connect() returns true.
Restart ==
    /\ At("restart")
    /\ bound' = [bound EXCEPT ![Top.c] = TRUE]
    /\ Create(Top.c)
    /\ Return
    /\ UNCHANGED <<life, url, This, calls>>

Close ==
    /\ At("close")
    /\ \E state \in ReadyStates(Top.c) :
          IF state = "open" THEN Tell("closeStop", "closing") ELSE Return
    /\ UNCHANGED <<life, url, socket, bound, This, web, heard, calls>>

\* What is stopped now may be what the callback has just started.
CloseStop ==
    /\ At("closeStop")
    /\ Stop(Top.c)
    /\ Return
    /\ UNCHANGED <<life, url, bound, This, calls>>

\* The browser throws while it connects, and the whole turn is over.
Send ==
    /\ At("send")
    /\ IF socket[Top.c] \in Handles /\ web[socket[Top.c]] = "connecting"
       THEN stk' = <<>>
       ELSE Return
    /\ UNCHANGED <<life, url, socket, bound, This, web, heard, calls>>

\* Mutant: the object is gone before the destructor has run.
DestroyFirst(c) ==
    /\ stk = <<>>
    /\ life[c] = "live"
    /\ life' = [life EXCEPT ![c] = "dead"]
    /\ stk' = <<Frame("release", c, "nothing"), Frame("close", c, "nothing")>>
    /\ UNCHANGED <<url, socket, bound, This, web, heard, calls>>

\* The destructor closes first; the application does not call it from the
\* object's own callback.
Destroy(c) ==
    /\ stk = <<>>
    /\ life[c] = "live"
    /\ stk' = <<Frame("release", c, "nothing"), Frame("close", c, "nothing")>>
    /\ UNCHANGED <<life, url, socket, bound, This, web, heard, calls>>

\* Mutant: the destructor of DWebSocket leaves its socket to the browser.
ReleaseLeaks ==
    /\ At("release")
    /\ life' = [life EXCEPT ![Top.c] = "dead"]
    /\ Return
    /\ UNCHANGED <<url, socket, bound, This, web, heard, calls>>

\* webSocket.reset(): the destructor of DWebSocket stops, This stays.
Release ==
    /\ At("release")
    /\ Stop(Top.c)
    /\ life' = [life EXCEPT ![Top.c] = "dead"]
    /\ Return
    /\ UNCHANGED <<url, bound, This, calls>>

-----------------------------------------------------------------------------
(* The browser, and WebSocketOpen, WebSocketClose, WebSocketError and      *)
(* WebSocketMessage.                                                       *)

\* For whoever made the last DWebSocket, and freed memory if it is gone.
Deliver(event) ==
    CASE life[This] # "live" -> stk' = <<Frame("freed", This, event)>> /\ UNCHANGED heard
      [] life[This] = "live" /\ bound[This] ->
              /\ stk' = <<Frame("event", This, event)>>
              /\ heard' = [heard EXCEPT ![This] = event]
      [] life[This] = "live" /\ ~bound[This] -> UNCHANGED <<stk, heard>>

Turn(h, states, state, event) ==
    /\ stk = <<>>
    /\ web[h] \in states
    /\ web' = [web EXCEPT ![h] = state]
    /\ Deliver(event)
    /\ UNCHANGED <<life, url, socket, bound, This, calls>>

WebOpens(h) == Turn(h, {"connecting"}, "open", "open")
WebMessage(h) == Turn(h, {"open"}, "open", "message")
WebFails(h) == Turn(h, {"connecting", "open", "closing"}, "failed", "error")
WebCloses(h) == Turn(h, {"open", "closing", "failed"}, "closed", "close")

\* The peer has begun to close: no handler is called.
WebClosing(h) ==
    /\ stk = <<>>
    /\ web[h] = "open"
    /\ web' = [web EXCEPT ![h] = "closing"]
    /\ UNCHANGED <<life, url, socket, bound, This, stk, heard, calls>>

-----------------------------------------------------------------------------

Init ==
    /\ life = [c \in Clients |-> "none"]
    /\ url = [c \in Clients |-> FALSE]
    /\ socket = [c \in Clients |-> None]
    /\ bound = [c \in Clients |-> FALSE]
    /\ This = None
    /\ web = [h \in Handles |-> "free"]
    /\ stk = <<>>
    /\ heard = [c \in Clients |-> "nothing"]
    /\ calls = Budget

Library == Event \/ Connect \/ Restart \/ Close \/ CloseStop \/ Send \/ Release

Application ==
    \E c \in Clients :
        \/ New(c) \/ SetUrl(c) \/ Destroy(c)
        \/ \E op \in Calls : AppCall(c, op)

Web ==
    \E h \in Handles :
        WebOpens(h) \/ WebMessage(h) \/ WebFails(h) \/ WebCloses(h) \/ WebClosing(h)

\* The thread waits for the browser's next event, which may never come.
Idle == stk = <<>> /\ UNCHANGED vars

Next == Library \/ Application \/ Web \/ Idle

Spec == Init /\ [][Next]_vars

=============================================================================

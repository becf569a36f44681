---------------------------- MODULE ControlProofs ----------------------------
(***************************************************************************)
(* How control moves: what a step of the transport or of the loop does to  *)
(* the stack of its thread, and which of the connection's state it can     *)
(* change meanwhile, whoever owns the connection.  The safety proofs of    *)
(* the client and the server treat all these steps as one, a PlainStep.    *)
(***************************************************************************)
EXTENDS TransportProofs

-----------------------------------------------------------------------------
(* Stacks.                                                                 *)

(***************************************************************************)
(* Thread t returns, jumps or calls: its last frame goes, becomes g, or    *)
(* becomes g and calls h.  The frames below it and the other threads stay. *)
(***************************************************************************)
Moves(t, m, g, h) == LET n == Len(stk[t]) IN
    /\ stk[t] # <<>>
    /\ \A u \in Threads \ {t} : stk'[u] = stk[u]
    /\ \A i \in 1 .. n - 1 : stk'[t][i] = stk[t][i]
    /\ m \in {"return", "jump", "call"}
    /\ m = "return" => Len(stk'[t]) = n - 1
    /\ m = "jump" => Len(stk'[t]) = n /\ stk'[t][n] = g
    /\ m = "call" => Len(stk'[t]) = n + 1 /\ stk'[t][n] = g /\ stk'[t][n + 1] = h

LEMMA LastIndex ==
    ASSUME NEW t \in Threads, StacksOK, stk[t] # <<>>
    PROVE  stk[t] \in Seq(FrameType) /\ Len(stk[t]) \in Nat /\ Len(stk[t]) >= 1
  BY DEF StacksOK

LEMMA ReturnMoves ==
    ASSUME NEW t \in Threads, StacksOK, stk[t] # <<>>, Return(t)
    PROVE  Moves(t, "return", Top(t), Top(t))
  <1> DEFINE n == Len(stk[t])
  <1>1. n \in Nat /\ n >= 1 /\ stk[t] \in Seq(FrameType)
    BY LastIndex
  <1>2. n - 1 \in Nat /\ \A i \in 1 .. n - 1 : stk[t][i] \in FrameType
    BY <1>1
  <1>3. stk'[t] = SubSeq(stk[t], 1, n - 1)
    BY DEF Return, Pop, StacksOK
  <1>4. Len(stk'[t]) = n - 1 /\ \A i \in 1 .. n - 1 : stk'[t][i] = stk[t][i]
    BY <1>1, <1>2, <1>3
  <1>5. QED
    BY <1>4 DEF Return, Moves, StacksOK

LEMMA JumpMoves ==
    ASSUME NEW t \in Threads, NEW label, NEW x, StacksOK, stk[t] # <<>>,
           JumpWith(t, label, x)
    PROVE  Moves(t, "jump", Frame(label, Top(t).c, x), Top(t))
  <1>1. stk[t] \in Seq(FrameType) /\ Len(stk[t]) \in Nat /\ Len(stk[t]) >= 1
    BY LastIndex
  <1>2. stk'[t] = SetTop(stk[t], Frame(label, Top(t).c, x))
    BY DEF JumpWith, StacksOK
  <1>3. QED
    BY <1>1, <1>2 DEF JumpWith, SetTop, Moves, StacksOK

LEMMA StayMoves ==
    ASSUME NEW t \in Threads, StacksOK, stk[t] # <<>>, UNCHANGED stk
    PROVE  Moves(t, "jump", Top(t), Top(t))
  BY LastIndex DEF Moves, Top

LEMMA CallMoves ==
    ASSUME NEW t \in Threads, NEW label, NEW y, NEW callee, NEW x,
           StacksOK, stk[t] # <<>>, CallFrom(t, label, y, callee, x)
    PROVE  Moves(t, "call", Frame(label, Top(t).c, y), Frame(callee, Top(t).c, x))
  <1> DEFINE g == Frame(label, Top(t).c, y)
             h == Frame(callee, Top(t).c, x)
             s == stk[t]
             r == SetTop(s, g)
  <1>1. s \in Seq(FrameType) /\ Len(s) \in Nat /\ Len(s) >= 1
    BY LastIndex
  <1>2. stk'[t] = Append(r, h)
    BY DEF CallFrom, StacksOK
  <1>3. /\ r \in Seq(FrameType \cup {g}) /\ Len(r) = Len(s) /\ r[Len(s)] = g
        /\ \A i \in 1 .. Len(s) - 1 : r[i] = s[i]
    BY <1>1 DEF SetTop
  <1>4. /\ Len(stk'[t]) = Len(s) + 1 /\ stk'[t][Len(s) + 1] = h
        /\ \A i \in 1 .. Len(s) : stk'[t][i] = r[i]
    <2> HIDE DEF r, h, s
    <2>1. QED
      BY <1>1, <1>2, <1>3
  <1>5. \A u \in Threads \ {t} : stk'[u] = stk[u]
    BY DEF CallFrom, StacksOK
  <1> HIDE DEF r
  <1>6. QED
    BY <1>1, <1>3, <1>4, <1>5 DEF Moves

-----------------------------------------------------------------------------
(* Frames after a step.                                                    *)

\* A thread that takes a step has a last frame.
LEMMA LastFrame ==
    ASSUME NEW t \in Threads, StacksOK, stk[t] # <<>>
    PROVE  /\ Len(stk[t]) \in Nat /\ Len(stk[t]) >= 1
           /\ Top(t) = stk[t][Len(stk[t])]
  BY LastIndex DEF Top

\* Where each frame of a stack comes from.
LEMMA FramesAfter ==
    ASSUME NEW t \in Threads, StacksOK, StacksOK', stk[t] # <<>>,
           NEW m, NEW g, NEW h, Moves(t, m, g, h),
           NEW i \in 1 .. Len(stk'[t])
    PROVE  \/ i < Len(stk[t]) /\ stk'[t][i] = stk[t][i]
           \/ i = Len(stk[t]) /\ m # "return" /\ stk'[t][i] = g
           \/ i = Len(stk[t]) + 1 /\ m = "call" /\ stk'[t][i] = h
  <1>1. Len(stk[t]) \in Nat /\ Len(stk[t]) >= 1 /\ Len(stk'[t]) \in Nat
    BY LastFrame DEF StacksOK
  <1>2. QED
    BY <1>1 DEF Moves

\* The first frame changes only when it is the last.
LEMMA FirstAfter ==
    ASSUME NEW t \in Threads, StacksOK, StacksOK', stk[t] # <<>>, stk'[t] # <<>>,
           NEW m, NEW g, NEW h, Moves(t, m, g, h)
    PROVE  \/ Len(stk[t]) > 1 /\ stk'[t][1] = stk[t][1]
           \/ Len(stk[t]) = 1 /\ m # "return" /\ stk'[t][1] = g /\ stk[t][1] = Top(t)
  <1>1. Len(stk[t]) \in Nat /\ Len(stk[t]) >= 1 /\ Top(t) = stk[t][Len(stk[t])]
    BY LastFrame
  <1>2. Len(stk'[t]) \in Nat /\ Len(stk'[t]) >= 1
    BY DEF StacksOK
  <1>3. 1 \in 1 .. Len(stk'[t])
    BY <1>2
  <1>4. \/ 1 < Len(stk[t]) /\ stk'[t][1] = stk[t][1]
        \/ 1 = Len(stk[t]) /\ m # "return" /\ stk'[t][1] = g
        \/ 1 = Len(stk[t]) + 1 /\ m = "call" /\ stk'[t][1] = h
    BY <1>3, FramesAfter
  <1>5. QED
    BY <1>1, <1>4

\* Short stacks.
LEMMA FewFrames ==
    ASSUME NEW s \in Seq(FrameType)
    PROVE  /\ s = <<>> <=> Len(s) = 0
           /\ Len(s) = 0 => (\A i : i \notin 1 .. Len(s)) /\ (\A i : i \notin 1 .. Len(s) - 1)
           /\ Len(s) = 1 => (\A i \in 1 .. Len(s) : i = 1) /\ (\A i : i \notin 1 .. Len(s) - 1)
           /\ Len(s) = 2 => \A i \in 1 .. Len(s) : i \in {1, 2}
  <1> DEFINE n == Len(s)
  <1>1. s = <<>> <=> n = 0
    OBVIOUS
  <1> HIDE DEF n
  <1>2. n = 0 => (\A i : i \notin 1 .. n) /\ (\A i : i \notin 1 .. n - 1)
    OBVIOUS
  <1>3. n = 1 => (\A i \in 1 .. n : i = 1) /\ (\A i : i \notin 1 .. n - 1)
    OBVIOUS
  <1>4. n = 2 => \A i \in 1 .. n : i \in {1, 2}
    OBVIOUS
  <1>5. QED
    BY <1>1, <1>2, <1>3, <1>4 DEF n

LEMMA OneFrame ==
    ASSUME NEW f
    PROVE  Len(<<f>>) = 1 /\ <<f>>[1] = f /\ <<f>> # <<>>
  OBVIOUS

LEMMA PopOne ==
    ASSUME NEW s \in Seq(FrameType), Len(s) = 1
    PROVE  Pop(s) = <<>>
  <1>1. Pop(s) = SubSeq(s, 1, 0)
    BY DEF Pop
  <1>2. SubSeq(s, 1, 0) = <<>>
    OBVIOUS
  <1>3. QED
    BY <1>1, <1>2

-----------------------------------------------------------------------------
(***************************************************************************)
(* Where a plain step may lead.  The last frame f gives way to g, which    *)
(* may call h: on the same connection, the loop only to points of the      *)
(* loop, the end of a connection to what is left of it.                    *)
(***************************************************************************)
\* The points of the transport and of the loop, but for those of the opening
\* of a connection, of start() and of stop().
PlainPoints ==
    (LoopLabels \ (Opening \cup {"check", "open"})) \cup
    (MethodLabels \ (StopLabels \cup {"start", "callback"}))

\* What a method of the transport may be followed by, and may call.
Followers ==
    (RunLabels \ (Opening \cup {"open"})) \cup SendPath \cup {"switched", "closeIf", "closeWake"}

Callees == {"send", "close", "switch", "setClosed", "callback"}

Passes(f, m, g, h) ==
    /\ m = "return" /\ Running(f) => f.at \in {"loop", "loopStop"}
    /\ m # "return" =>
          /\ g.c = f.c /\ g.at \in Followers
          /\ Running(g) <=> Running(f)
          /\ f.at \in Closers => g.at \in Closers
    /\ m = "jump" => g.at # "nowClosed"
    /\ m = "call" =>
          /\ h.c = f.c /\ h.at \in Callees
          /\ g.at \in Suspended
          /\ g.at = "pushFailed" => h.at = "setClosed"
          /\ g.at = "nowClosed" => h.at = "callback" /\ h.arg = "close"
          /\ h.at = "callback" => h.arg \in Events \ {"open", "error"}

\* The frames that the step brings are in S.
Brings(m, g, h, S) == (m # "return" /\ g.at \in S) \/ (m = "call" /\ h.at \in S)

PlainAs(t, m, g, h) ==
    LET f   == Top(t)
        c   == Top(t).c
        old == ws[c]
        new == ws'[c]
    IN
    /\ f.at \in PlainPoints /\ Passes(f, m, g, h)
    /\ \A d \in Conns \ {c} : ws'[d] = ws[d] /\ log'[d] = log[d]
    /\ new.sk = old.sk /\ new.first = old.first
    /\ new.stop = old.stop /\ new.joinable = old.joinable
    /\ new.fd \in {old.fd, "shut"}
    /\ \/ new.st = old.st
       \/ new.st = "CLOSED" /\ f.at = "nowClosed"
       \/ new.st = "CLOSING" /\ f.at \in {"closing", "dispatch"}
    /\ \/ new.tx = old.tx
       \/ new.tx = Nobody
       \/ new.tx = t /\ m = "jump" /\ g.at = "push"
    /\ f.at \in Pushers => new.tx = Nobody \/ (m # "return" /\ g.at \in Pushers)
    /\ \/ log'[c] = log[c]
       \/ \E e \in Events \ {"open", "error"} :
             log'[c] = Append(log[c], e) /\ (e = "close" => f.at = "setClosed")
    /\ Brings(m, g, h, Closers) => f.at \in Closers \/ new.fd # "open"
    /\ Brings(m, g, h, SendPath) => f.at \in SendPath \cup LoopLabels \/ old.st # "CLOSED"
    /\ f.at = "loop" => (m = "return" <=> old.st = "CLOSED")
    /\ m = "return" /\ f.at = "loopStop" => old.stop

(***************************************************************************)
(* How the step gives the connection up.  If it stays OPEN, a socket is    *)
(* closed on the way to CLOSED, by a wake-up, or when the poll fails;      *)
(* what is left to do then is done, or ends in close() or in CLOSED.       *)
(***************************************************************************)
EndsAs(t, m, g, h) ==
    LET f   == Top(t)
        old == ws[Top(t).c]
        new == ws'[Top(t).c]
    IN
    /\ new.fd # old.fd => f.at \in SendPath \cup LoopLabels
    /\ new.st = "OPEN" =>
          /\ new.fd = "shut" =>
                \/ old.fd = "shut" \/ Brings(m, g, h, Closers)
                \/ f.at = "wait" /\ old.pipe # <<>> /\ Head(old.pipe) = "close"
                \/ f.at = "wait" /\ m = "jump" /\ g.at = "dispatch" /\ g.arg = "failed"
                \/ net'[Top(t).c].fault
          /\ f.at \in {"dispatch", "ponged", "unordered"} /\ f.arg = "failed" =>
                \/ /\ m # "return" /\ g.arg = "failed"
                   /\ g.at \in {"dispatch", "ponged", "unordered"}
                \/ m = "call" /\ g.at = "check" /\ h.at \in {"close", "switch"}
                \/ old.rxbuf # <<>> /\ Head(old.rxbuf) = "part"
          /\ f.at \in {"close", "closeIf", "closing", "switch"} =>
                \/ m = "jump" /\ g.at \in {"closeIf", "closing"}
                \/ Brings(m, g, h, Closers)
          /\ f.at \in Closers => m # "return"
          /\ ~Brings(m, g, h, {"closeWake", "echoed"})
    /\ m # "return" /\ g.at \in CloseLabels => f.at \in CloseLabels
    /\ m = "call" /\ h.at = "close" =>
          g.at \in {"stopThread", "start", "select", "unordered", "dispatch", "check"}

PlainStep(t) ==
    \E m, g, h : Moves(t, m, g, h) /\ PlainAs(t, m, g, h) /\ EndsAs(t, m, g, h)

\* What a step of the transport may rely on.
Ready(t) ==
    /\ StacksOK /\ stk[t] # <<>>
    /\ Top(t).c \in Conns /\ Top(t) \in FrameType

LEMMA ReadyAt ==
    ASSUME NEW t \in Threads, NEW label, label \notin ServerLabels, TransportOK, At(t, label)
    PROVE  Ready(t) /\ Top(t).at = label
  BY AtFrame DEF Ready, TransportOK, GoodFrame

LEMMA ReadyFacts ==
    ASSUME NEW t \in Threads, TransportOK, Ready(t)
    PROVE  /\ Top(t).c \in Conns
           /\ DOMAIN ws = Conns /\ DOMAIN log = Conns /\ ws[Top(t).c] \in SocketType
  BY DEF Ready, TransportOK, SocketsOK, LogsOK

-----------------------------------------------------------------------------
(* The plain steps.                                                        *)

\* The sends.
LEMMA SendSteps ==
    ASSUME NEW t \in Threads, TransportOK,
           \/ Send(t) \/ AppendToSendBuffer(t) \/ PushDone(t) \/ PushFrame(t)
           \/ PushError(t) \/ PushFailed(t) \/ Sent(t) \/ Flush(t)
    PROVE  PlainStep(t)
  <1> DEFINE f == Top(t)
             c == Top(t).c
             x == Top(t).arg
  <1>1. CASE Send(t)
    <2>1. Ready(t) /\ f.at = "send"
      BY <1>1, ReadyAt DEF Send, ServerLabels
    <2>2. CASE Jump(t, "append") /\ ws[c].st # "CLOSED"
      <3>1. Moves(t, "jump", Frame("append", c, x), f)
        BY <2>1, <2>2, JumpMoves DEF Ready, Jump
      <3>2. PlainAs(t, "jump", Frame("append", c, x), f)
        BY <1>1, <2>1, <2>2, ReadyFacts DEF Send, PlainAs, PlainPoints, MethodLabels,
            StopLabels, Passes, Running, Brings, Frame, Followers, Callees, Suspended,
            SendPath, Closers, Pushers, Opening, RunLabels, LoopLabels, Events,
            LoopEvents, SocketType, Kinds
      <3>3. EndsAs(t, "jump", Frame("append", c, x), f)
        BY <1>1, <2>1, <2>2, ReadyFacts DEF Send, EndsAs, Brings, Frame, Closers,
            CloseLabels, SendPath, LoopLabels, SocketType
      <3>4. QED
        BY <3>1, <3>2, <3>3 DEF PlainStep
    <2>3. CASE Return(t)
      <3>1. Moves(t, "return", f, f)
        BY <2>1, <2>3, ReturnMoves DEF Ready
      <3>2. PlainAs(t, "return", f, f)
        BY <1>1, <2>1, <2>3, ReadyFacts DEF Send, PlainAs, PlainPoints, MethodLabels,
            StopLabels, Passes, Running, Brings, Frame, Followers, Callees, Suspended,
            SendPath, Closers, Pushers, Opening, RunLabels, LoopLabels, Events,
            LoopEvents, SocketType, Kinds
      <3>3. EndsAs(t, "return", f, f)
        BY <1>1, <2>1, <2>3, ReadyFacts DEF Send, EndsAs, Brings, Frame, Closers,
            CloseLabels, SendPath, LoopLabels, SocketType
      <3>4. QED
        BY <3>1, <3>2, <3>3 DEF PlainStep
    <2>4. QED
      BY <1>1, <2>1, <2>2, <2>3, ReadyFacts DEF Send, ReadyState
  <1>2. CASE AppendToSendBuffer(t)
    <2>1. Ready(t) /\ f.at = "append"
      BY <1>2, ReadyAt DEF AppendToSendBuffer, ServerLabels
    <2>2. Moves(t, "jump", Frame("push", c, x), f)
      BY <1>2, <2>1, JumpMoves DEF Ready, AppendToSendBuffer, Jump
    <2>3. PlainAs(t, "jump", Frame("push", c, x), f)
      BY <1>2, <2>1, ReadyFacts DEF AppendToSendBuffer, Jump, PlainAs, PlainPoints,
          MethodLabels, StopLabels, Passes, Running, Brings, Frame, Followers, Callees,
          Suspended, SendPath, Closers, Pushers, Opening, RunLabels, LoopLabels, Events,
          LoopEvents, SocketType, Kinds
    <2>4. EndsAs(t, "jump", Frame("push", c, x), f)
      BY <1>2, <2>1, ReadyFacts DEF AppendToSendBuffer, Jump, EndsAs, Brings, Frame,
          Closers, CloseLabels, SendPath, LoopLabels, SocketType
    <2>5. QED
      BY <2>2, <2>3, <2>4 DEF PlainStep
  <1>3. CASE PushDone(t)
    <2>1. Ready(t) /\ f.at = "push"
      BY <1>3, ReadyAt DEF PushDone, ServerLabels
    <2>2. CASE Jump(t, "sent") /\ x \in Kinds
      <3>1. Moves(t, "jump", Frame("sent", c, x), f)
        BY <2>1, <2>2, JumpMoves DEF Ready, Jump
      <3>2. PlainAs(t, "jump", Frame("sent", c, x), f)
        BY <1>3, <2>1, <2>2, ReadyFacts DEF PushDone, PlainAs, PlainPoints,
            MethodLabels, StopLabels, Passes, Running, Brings, Frame, Followers,
            Callees, Suspended, SendPath, Closers, Pushers, Opening, RunLabels,
            LoopLabels, Events, LoopEvents, SocketType, Kinds
      <3>3. EndsAs(t, "jump", Frame("sent", c, x), f)
        BY <1>3, <2>1, <2>2, ReadyFacts DEF PushDone, EndsAs, Brings, Frame, Closers,
            CloseLabels, SendPath, LoopLabels, SocketType
      <3>4. QED
        BY <3>1, <3>2, <3>3 DEF PlainStep
    <2>3. CASE Jump(t, "flush")
      <3>1. Moves(t, "jump", Frame("flush", c, x), f)
        BY <2>1, <2>3, JumpMoves DEF Ready, Jump
      <3>2. PlainAs(t, "jump", Frame("flush", c, x), f)
        BY <1>3, <2>1, <2>3, ReadyFacts DEF PushDone, PlainAs, PlainPoints,
            MethodLabels, StopLabels, Passes, Running, Brings, Frame, Followers,
            Callees, Suspended, SendPath, Closers, Pushers, Opening, RunLabels,
            LoopLabels, Events, LoopEvents, SocketType, Kinds
      <3>3. EndsAs(t, "jump", Frame("flush", c, x), f)
        BY <1>3, <2>1, <2>3, ReadyFacts DEF PushDone, EndsAs, Brings, Frame, Closers,
            CloseLabels, SendPath, LoopLabels, SocketType
      <3>4. QED
        BY <3>1, <3>2, <3>3 DEF PlainStep
    <2>4. QED
      BY <1>3, <2>1, <2>2, <2>3 DEF PushDone
  <1>4. CASE PushFrame(t)
    <2>1. Ready(t) /\ f.at = "push"
      BY <1>4, ReadyAt DEF PushFrame, ServerLabels
    <2>2. Moves(t, "jump", f, f)
      BY <1>4, <2>1, StayMoves DEF Ready, PushFrame
    <2>3. PlainAs(t, "jump", f, f)
      BY <1>4, <2>1, ReadyFacts DEF PushFrame, PlainAs, PlainPoints, MethodLabels,
          StopLabels, Passes, Running, Brings, Frame, Followers, Callees, Suspended,
          SendPath, Closers, Pushers, Opening, RunLabels, LoopLabels, Events,
          LoopEvents, SocketType, Kinds
    <2>4. EndsAs(t, "jump", f, f)
      BY <1>4, <2>1, ReadyFacts DEF PushFrame, EndsAs, Brings, Frame, Closers,
          CloseLabels, SendPath, LoopLabels, SocketType
    <2>5. QED
      BY <2>2, <2>3, <2>4 DEF PlainStep
  <1>5. CASE PushError(t)
    <2>1. Ready(t) /\ f.at = "push"
      BY <1>5, ReadyAt DEF PushError, ServerLabels
    <2>2. CASE ws[c].st = "CLOSING" /\ Jump(t, "pushFailed")
      <3>1. Moves(t, "jump", Frame("pushFailed", c, x), f)
        BY <2>1, <2>2, JumpMoves DEF Ready, Jump
      <3>2. PlainAs(t, "jump", Frame("pushFailed", c, x), f)
        BY <1>5, <2>1, <2>2, ReadyFacts DEF PushError, PlainAs, PlainPoints,
            MethodLabels, StopLabels, Passes, Running, Brings, Frame, Followers,
            Callees, Suspended, SendPath, Closers, Pushers, Opening, RunLabels,
            LoopLabels, Events, LoopEvents, SocketType, Kinds
      <3>3. EndsAs(t, "jump", Frame("pushFailed", c, x), f)
        BY <1>5, <2>1, <2>2, ReadyFacts DEF PushError, EndsAs, Brings, Frame, Closers,
            CloseLabels, SendPath, LoopLabels, SocketType
      <3>4. QED
        BY <3>1, <3>2, <3>3 DEF PlainStep
    <2>3. CASE Call(t, "pushFailed", "setClosed", "")
      <3>1. Moves(t, "call", Frame("pushFailed", c, x), Frame("setClosed", c, ""))
        BY <2>1, <2>3, CallMoves DEF Ready, Call
      <3>2. PlainAs(t, "call", Frame("pushFailed", c, x), Frame("setClosed", c, ""))
        BY <1>5, <2>1, <2>3, ReadyFacts DEF PushError, PlainAs, PlainPoints,
            MethodLabels, StopLabels, Passes, Running, Brings, Frame, Followers,
            Callees, Suspended, SendPath, Closers, Pushers, Opening, RunLabels,
            LoopLabels, Events, LoopEvents, SocketType, Kinds
      <3>3. EndsAs(t, "call", Frame("pushFailed", c, x), Frame("setClosed", c, ""))
        BY <1>5, <2>1, <2>3, ReadyFacts DEF PushError, EndsAs, Brings, Frame, Closers,
            CloseLabels, SendPath, LoopLabels, SocketType
      <3>4. QED
        BY <3>1, <3>2, <3>3 DEF PlainStep
    <2>4. QED
      BY <1>5, <2>1, <2>2, <2>3 DEF PushError
  <1>6. CASE PushFailed(t)
    <2>1. Ready(t) /\ f.at = "pushFailed"
      BY <1>6, ReadyAt DEF PushFailed, ServerLabels
    <2>2. CASE Jump(t, "sent") /\ x \in Kinds
      <3>1. Moves(t, "jump", Frame("sent", c, x), f)
        BY <2>1, <2>2, JumpMoves DEF Ready, Jump
      <3>2. PlainAs(t, "jump", Frame("sent", c, x), f)
        BY <1>6, <2>1, <2>2, ReadyFacts DEF PushFailed, PlainAs, PlainPoints,
            MethodLabels, StopLabels, Passes, Running, Brings, Frame, Followers,
            Callees, Suspended, SendPath, Closers, Pushers, Opening, RunLabels,
            LoopLabels, Events, LoopEvents, SocketType, Kinds
      <3>3. EndsAs(t, "jump", Frame("sent", c, x), f)
        BY <1>6, <2>1, <2>2, ReadyFacts DEF PushFailed, EndsAs, Brings, Frame, Closers,
            CloseLabels, SendPath, LoopLabels, SocketType
      <3>4. QED
        BY <3>1, <3>2, <3>3 DEF PlainStep
    <2>3. CASE Return(t) /\ x = "inline"
      <3>1. Moves(t, "return", f, f)
        BY <2>1, <2>3, ReturnMoves DEF Ready
      <3>2. PlainAs(t, "return", f, f)
        BY <1>6, <2>1, <2>3, ReadyFacts DEF PushFailed, PlainAs, PlainPoints,
            MethodLabels, StopLabels, Passes, Running, Brings, Frame, Followers,
            Callees, Suspended, SendPath, Closers, Pushers, Opening, RunLabels,
            LoopLabels, Events, LoopEvents, SocketType, Kinds
      <3>3. EndsAs(t, "return", f, f)
        BY <1>6, <2>1, <2>3, ReadyFacts DEF PushFailed, EndsAs, Brings, Frame, Closers,
            CloseLabels, SendPath, LoopLabels, SocketType
      <3>4. QED
        BY <3>1, <3>2, <3>3 DEF PlainStep
    <2>4. CASE JumpWith(t, "dispatch", "failed") /\ x = "poll"
      <3>1. Moves(t, "jump", Frame("dispatch", c, "failed"), f)
        BY <2>1, <2>4, JumpMoves DEF Ready
      <3>2. PlainAs(t, "jump", Frame("dispatch", c, "failed"), f)
        BY <1>6, <2>1, <2>4, ReadyFacts DEF PushFailed, PlainAs, PlainPoints,
            MethodLabels, StopLabels, Passes, Running, Brings, Frame, Followers,
            Callees, Suspended, SendPath, Closers, Pushers, Opening, RunLabels,
            LoopLabels, Events, LoopEvents, SocketType, Kinds
      <3>3. EndsAs(t, "jump", Frame("dispatch", c, "failed"), f)
        BY <1>6, <2>1, <2>4, ReadyFacts DEF PushFailed, EndsAs, Brings, Frame, Closers,
            CloseLabels, SendPath, LoopLabels, SocketType
      <3>4. QED
        BY <3>1, <3>2, <3>3 DEF PlainStep
    <2>5. QED
      BY <1>6, <2>1, <2>2, <2>3, <2>4, FlushArg DEF PushFailed
  <1>7. CASE Sent(t)
    <2>1. Ready(t) /\ f.at = "sent"
      BY <1>7, ReadyAt DEF Sent, ServerLabels
    <2>2. CASE Return(t)
      <3>1. Moves(t, "return", f, f)
        BY <2>1, <2>2, ReturnMoves DEF Ready
      <3>2. PlainAs(t, "return", f, f)
        BY <1>7, <2>1, <2>2, ReadyFacts DEF Sent, PlainAs, PlainPoints, MethodLabels,
            StopLabels, Passes, Running, Brings, Frame, Followers, Callees, Suspended,
            SendPath, Closers, Pushers, Opening, RunLabels, LoopLabels, Events,
            LoopEvents, SocketType, Kinds
      <3>3. EndsAs(t, "return", f, f)
        BY <1>7, <2>1, <2>2, ReadyFacts DEF Sent, EndsAs, Brings, Frame, Closers,
            CloseLabels, SendPath, LoopLabels, SocketType
      <3>4. QED
        BY <3>1, <3>2, <3>3 DEF PlainStep
    <2>3. CASE JumpWith(t, "flush", "inline")
      <3>1. Moves(t, "jump", Frame("flush", c, "inline"), f)
        BY <2>1, <2>3, JumpMoves DEF Ready
      <3>2. PlainAs(t, "jump", Frame("flush", c, "inline"), f)
        BY <1>7, <2>1, <2>3, ReadyFacts DEF Sent, PlainAs, PlainPoints, MethodLabels,
            StopLabels, Passes, Running, Brings, Frame, Followers, Callees, Suspended,
            SendPath, Closers, Pushers, Opening, RunLabels, LoopLabels, Events,
            LoopEvents, SocketType, Kinds
      <3>3. EndsAs(t, "jump", Frame("flush", c, "inline"), f)
        BY <1>7, <2>1, <2>3, ReadyFacts DEF Sent, EndsAs, Brings, Frame, Closers,
            CloseLabels, SendPath, LoopLabels, SocketType
      <3>4. QED
        BY <3>1, <3>2, <3>3 DEF PlainStep
    <2>4. QED
      BY <1>7, <2>1, <2>2, <2>3 DEF Sent
  <1>8. CASE Flush(t)
    <2>1. Ready(t) /\ f.at = "flush"
      BY <1>8, ReadyAt DEF Flush, ServerLabels
    <2>2. CASE Jump(t, "polled") /\ x = "poll" /\ UNCHANGED ws
      <3>1. Moves(t, "jump", Frame("polled", c, x), f)
        BY <2>1, <2>2, JumpMoves DEF Ready, Jump
      <3>2. PlainAs(t, "jump", Frame("polled", c, x), f)
        BY <1>8, <2>1, <2>2, ReadyFacts DEF Flush, FlushWait, PlainAs, PlainPoints,
            MethodLabels, StopLabels, Passes, Running, Brings, Frame, Followers,
            Callees, Suspended, SendPath, Closers, Pushers, Opening, RunLabels,
            LoopLabels, Events, LoopEvents, SocketType, Kinds
      <3>3. EndsAs(t, "jump", Frame("polled", c, x), f)
        BY <1>8, <2>1, <2>2, ReadyFacts DEF Flush, FlushWait, EndsAs, Brings, Frame,
            Closers, CloseLabels, SendPath, LoopLabels, SocketType
      <3>4. QED
        BY <3>1, <3>2, <3>3 DEF PlainStep
    <2>3. CASE Return(t) /\ x # "poll" /\ UNCHANGED ws
      <3>1. Moves(t, "return", f, f)
        BY <2>1, <2>3, ReturnMoves DEF Ready
      <3>2. PlainAs(t, "return", f, f)
        BY <1>8, <2>1, <2>3, ReadyFacts DEF Flush, FlushWait, PlainAs, PlainPoints,
            MethodLabels, StopLabels, Passes, Running, Brings, Frame, Followers,
            Callees, Suspended, SendPath, Closers, Pushers, Opening, RunLabels,
            LoopLabels, Events, LoopEvents, SocketType, Kinds
      <3>3. EndsAs(t, "return", f, f)
        BY <1>8, <2>1, <2>3, ReadyFacts DEF Flush, FlushWait, EndsAs, Brings, Frame,
            Closers, CloseLabels, SendPath, LoopLabels, SocketType
      <3>4. QED
        BY <3>1, <3>2, <3>3 DEF PlainStep
    <2>4. CASE UNCHANGED stk /\ ws' = [ws EXCEPT ![c].pipe = Tail(@)]
      <3>1. Moves(t, "jump", f, f)
        BY <2>1, <2>4, StayMoves DEF Ready
      <3>2. PlainAs(t, "jump", f, f)
        BY <1>8, <2>1, <2>4, ReadyFacts DEF Flush, FlushWait, PlainAs, PlainPoints,
            MethodLabels, StopLabels, Passes, Running, Brings, Frame, Followers,
            Callees, Suspended, SendPath, Closers, Pushers, Opening, RunLabels,
            LoopLabels, Events, LoopEvents, SocketType, Kinds
      <3>3. EndsAs(t, "jump", f, f)
        BY <1>8, <2>1, <2>4, ReadyFacts DEF Flush, FlushWait, EndsAs, Brings, Frame,
            Closers, CloseLabels, SendPath, LoopLabels, SocketType
      <3>4. QED
        BY <3>1, <3>2, <3>3 DEF PlainStep
    <2>5. CASE Jump(t, "push") /\ ws' = [ws EXCEPT ![c].tx = t]
      <3>1. Moves(t, "jump", Frame("push", c, x), f)
        BY <2>1, <2>5, JumpMoves DEF Ready, Jump
      <3>2. PlainAs(t, "jump", Frame("push", c, x), f)
        BY <1>8, <2>1, <2>5, ReadyFacts DEF Flush, FlushWait, PlainAs, PlainPoints,
            MethodLabels, StopLabels, Passes, Running, Brings, Frame, Followers,
            Callees, Suspended, SendPath, Closers, Pushers, Opening, RunLabels,
            LoopLabels, Events, LoopEvents, SocketType, Kinds
      <3>3. EndsAs(t, "jump", Frame("push", c, x), f)
        BY <1>8, <2>1, <2>5, ReadyFacts DEF Flush, FlushWait, EndsAs, Brings, Frame,
            Closers, CloseLabels, SendPath, LoopLabels, SocketType
      <3>4. QED
        BY <3>1, <3>2, <3>3 DEF PlainStep
    <2>6. CASE /\ CallFrom(t, "dispatch", "failed", "setClosed", "") /\ x = "poll"
             /\ ws' = [ws EXCEPT ![c].fd = "shut"]
      <3>1. Moves(t, "call", Frame("dispatch", c, "failed"), Frame("setClosed", c, ""))
        BY <2>1, <2>6, CallMoves DEF Ready
      <3>2. PlainAs(t, "call", Frame("dispatch", c, "failed"), Frame("setClosed", c, ""))
        BY <1>8, <2>1, <2>6, ReadyFacts DEF Flush, FlushWait, PlainAs, PlainPoints,
            MethodLabels, StopLabels, Passes, Running, Brings, Frame, Followers,
            Callees, Suspended, SendPath, Closers, Pushers, Opening, RunLabels,
            LoopLabels, Events, LoopEvents, SocketType, Kinds
      <3>3. EndsAs(t, "call", Frame("dispatch", c, "failed"), Frame("setClosed", c, ""))
        BY <1>8, <2>1, <2>6, ReadyFacts DEF Flush, FlushWait, EndsAs, Brings, Frame,
            Closers, CloseLabels, SendPath, LoopLabels, SocketType
      <3>4. QED
        BY <3>1, <3>2, <3>3 DEF PlainStep
    <2>7. CASE /\ JumpWith(t, "setClosed", "") /\ x # "poll"
             /\ ws' = [ws EXCEPT ![c].fd = "shut"]
      <3>1. Moves(t, "jump", Frame("setClosed", c, ""), f)
        BY <2>1, <2>7, JumpMoves DEF Ready
      <3>2. PlainAs(t, "jump", Frame("setClosed", c, ""), f)
        BY <1>8, <2>1, <2>7, ReadyFacts DEF Flush, FlushWait, PlainAs, PlainPoints,
            MethodLabels, StopLabels, Passes, Running, Brings, Frame, Followers,
            Callees, Suspended, SendPath, Closers, Pushers, Opening, RunLabels,
            LoopLabels, Events, LoopEvents, SocketType, Kinds
      <3>3. EndsAs(t, "jump", Frame("setClosed", c, ""), f)
        BY <1>8, <2>1, <2>7, ReadyFacts DEF Flush, FlushWait, EndsAs, Brings, Frame,
            Closers, CloseLabels, SendPath, LoopLabels, SocketType
      <3>4. QED
        BY <3>1, <3>2, <3>3 DEF PlainStep
    <2>8. QED
      BY <1>8, <2>1, <2>2, <2>3, <2>4, <2>5, <2>6, <2>7 DEF Flush, FlushWait
  <1>9. QED
    BY <1>1, <1>2, <1>3, <1>4, <1>5, <1>6, <1>7, <1>8

\* close(), setReadyState(CLOSED) and the switch to it.
LEMMA CloseSteps ==
    ASSUME NEW t \in Threads, TransportOK,
           \/ SetClosed(t) \/ NowClosed(t) \/ Switch(t) \/ Switched(t) \/ Close(t)
           \/ CloseIf(t) \/ CloseWake(t) \/ Closing(t) \/ CloseSent(t)
    PROVE  PlainStep(t)
  <1> DEFINE f == Top(t)
             c == Top(t).c
             x == Top(t).arg
  <1>1. CASE SetClosed(t)
    <2>1. Ready(t) /\ f.at = "setClosed"
      BY <1>1, ReadyAt DEF SetClosed, ServerLabels
    <2>2. CASE ws[c].st = "CLOSED" /\ Return(t) /\ UNCHANGED log
      <3>1. Moves(t, "return", f, f)
        BY <2>1, <2>2, ReturnMoves DEF Ready
      <3>2. PlainAs(t, "return", f, f)
        BY <1>1, <2>1, <2>2, ReadyFacts DEF SetClosed, PlainAs, PlainPoints,
            MethodLabels, StopLabels, Passes, Running, Brings, Frame, Followers,
            Callees, Suspended, SendPath, Closers, Pushers, Opening, RunLabels,
            LoopLabels, Events, LoopEvents, SocketType
      <3>3. EndsAs(t, "return", f, f)
        BY <1>1, <2>1, <2>2, ReadyFacts DEF SetClosed, EndsAs, Brings, Frame, Closers,
            CloseLabels, SendPath, LoopLabels, SocketType
      <3>4. QED
        BY <3>1, <3>2, <3>3 DEF PlainStep
    <2>3. CASE Emit(t, "nowClosed", "close")
      <3>1. Moves(t, "call", Frame("nowClosed", c, x), Frame("callback", c, "close"))
        BY <2>1, <2>3, CallMoves DEF Ready, Emit, Call
      <3>2. PlainAs(t, "call", Frame("nowClosed", c, x), Frame("callback", c, "close"))
        BY <1>1, <2>1, <2>3, ReadyFacts DEF SetClosed, Emit, PlainAs, PlainPoints,
            MethodLabels, StopLabels, Passes, Running, Brings, Frame, Followers,
            Callees, Suspended, SendPath, Closers, Pushers, Opening, RunLabels,
            LoopLabels, Events, LoopEvents, SocketType
      <3>3. EndsAs(t, "call", Frame("nowClosed", c, x), Frame("callback", c, "close"))
        BY <1>1, <2>1, <2>3, ReadyFacts DEF SetClosed, Emit, EndsAs, Brings, Frame,
            Closers, CloseLabels, SendPath, LoopLabels, SocketType
      <3>4. QED
        BY <3>1, <3>2, <3>3 DEF PlainStep
    <2>4. QED
      BY <1>1, <2>1, <2>2, <2>3 DEF SetClosed
  <1>2. CASE NowClosed(t)
    <2>1. Ready(t) /\ f.at = "nowClosed"
      BY <1>2, ReadyAt DEF NowClosed, ServerLabels
    <2>2. Moves(t, "return", f, f)
      BY <1>2, <2>1, ReturnMoves DEF Ready, NowClosed
    <2>3. PlainAs(t, "return", f, f)
      BY <1>2, <2>1, ReadyFacts DEF NowClosed, PlainAs, PlainPoints, MethodLabels,
          StopLabels, Passes, Running, Brings, Frame, Followers, Callees, Suspended,
          SendPath, Closers, Pushers, Opening, RunLabels, LoopLabels, Events,
          LoopEvents, SocketType
    <2>4. EndsAs(t, "return", f, f)
      BY <1>2, <2>1, ReadyFacts DEF NowClosed, EndsAs, Brings, Frame, Closers,
          CloseLabels, SendPath, LoopLabels, SocketType
    <2>5. QED
      BY <2>2, <2>3, <2>4 DEF PlainStep
  <1>3. CASE Switch(t)
    <2>1. Ready(t) /\ f.at = "switch"
      BY <1>3, ReadyAt DEF Switch, ServerLabels
    <2>2. Moves(t, "call", Frame("switched", c, x), Frame("setClosed", c, ""))
      BY <1>3, <2>1, CallMoves DEF Ready, Switch, Call
    <2>3. PlainAs(t, "call", Frame("switched", c, x), Frame("setClosed", c, ""))
      BY <1>3, <2>1, ReadyFacts DEF Switch, Call, PlainAs, PlainPoints, MethodLabels,
          StopLabels, Passes, Running, Brings, Frame, Followers, Callees, Suspended,
          SendPath, Closers, Pushers, Opening, RunLabels, LoopLabels, Events,
          LoopEvents, SocketType
    <2>4. EndsAs(t, "call", Frame("switched", c, x), Frame("setClosed", c, ""))
      BY <1>3, <2>1, ReadyFacts DEF Switch, Call, EndsAs, Brings, Frame, Closers,
          CloseLabels, SendPath, LoopLabels, SocketType
    <2>5. QED
      BY <2>2, <2>3, <2>4 DEF PlainStep
  <1>4. CASE Switched(t)
    <2>1. Ready(t) /\ f.at = "switched"
      BY <1>4, ReadyAt DEF Switched, ServerLabels
    <2>2. Moves(t, "return", f, f)
      BY <1>4, <2>1, ReturnMoves DEF Ready, Switched
    <2>3. PlainAs(t, "return", f, f)
      BY <1>4, <2>1, ReadyFacts DEF Switched, PlainAs, PlainPoints, MethodLabels,
          StopLabels, Passes, Running, Brings, Frame, Followers, Callees, Suspended,
          SendPath, Closers, Pushers, Opening, RunLabels, LoopLabels, Events,
          LoopEvents, SocketType
    <2>4. EndsAs(t, "return", f, f)
      BY <1>4, <2>1, ReadyFacts DEF Switched, EndsAs, Brings, Frame, Closers,
          CloseLabels, SendPath, LoopLabels, SocketType
    <2>5. QED
      BY <2>2, <2>3, <2>4 DEF PlainStep
  <1>5. CASE Close(t)
    <2>1. Ready(t) /\ f.at = "close"
      BY <1>5, ReadyAt DEF Close, ServerLabels
    <2>2. Moves(t, "jump", Frame("closeIf", c, x), f)
      BY <1>5, <2>1, JumpMoves DEF Ready, Close, Jump
    <2>3. PlainAs(t, "jump", Frame("closeIf", c, x), f)
      BY <1>5, <2>1, ReadyFacts DEF Close, Jump, PlainAs, PlainPoints, MethodLabels,
          StopLabels, Passes, Running, Brings, Frame, Followers, Callees, Suspended,
          SendPath, Closers, Pushers, Opening, RunLabels, LoopLabels, Events,
          LoopEvents, SocketType
    <2>4. EndsAs(t, "jump", Frame("closeIf", c, x), f)
      BY <1>5, <2>1, ReadyFacts DEF Close, Jump, EndsAs, Brings, Frame, Closers,
          CloseLabels, SendPath, LoopLabels, SocketType
    <2>5. QED
      BY <2>2, <2>3, <2>4 DEF PlainStep
  <1>6. CASE CloseIf(t)
    <2>1. Ready(t) /\ f.at = "closeIf"
      BY <1>6, ReadyAt DEF CloseIf, ServerLabels
    <2>2. CASE Jump(t, "closing") /\ ws[c].st = "OPEN"
      <3>1. Moves(t, "jump", Frame("closing", c, x), f)
        BY <2>1, <2>2, JumpMoves DEF Ready, Jump
      <3>2. PlainAs(t, "jump", Frame("closing", c, x), f)
        BY <1>6, <2>1, <2>2, ReadyFacts DEF CloseIf, PlainAs, PlainPoints, MethodLabels,
            StopLabels, Passes, Running, Brings, Frame, Followers, Callees, Suspended,
            SendPath, Closers, Pushers, Opening, RunLabels, LoopLabels, Events,
            LoopEvents, SocketType
      <3>3. EndsAs(t, "jump", Frame("closing", c, x), f)
        BY <1>6, <2>1, <2>2, ReadyFacts DEF CloseIf, EndsAs, Brings, Frame, Closers,
            CloseLabels, SendPath, LoopLabels, SocketType
      <3>4. QED
        BY <3>1, <3>2, <3>3 DEF PlainStep
    <2>3. CASE ws[c].st # "OPEN" /\ Jump(t, "closeWake")
      <3>1. Moves(t, "jump", Frame("closeWake", c, x), f)
        BY <2>1, <2>3, JumpMoves DEF Ready, Jump
      <3>2. PlainAs(t, "jump", Frame("closeWake", c, x), f)
        BY <1>6, <2>1, <2>3, ReadyFacts DEF CloseIf, PlainAs, PlainPoints, MethodLabels,
            StopLabels, Passes, Running, Brings, Frame, Followers, Callees, Suspended,
            SendPath, Closers, Pushers, Opening, RunLabels, LoopLabels, Events,
            LoopEvents, SocketType
      <3>3. EndsAs(t, "jump", Frame("closeWake", c, x), f)
        BY <1>6, <2>1, <2>3, ReadyFacts DEF CloseIf, EndsAs, Brings, Frame, Closers,
            CloseLabels, SendPath, LoopLabels, SocketType
      <3>4. QED
        BY <3>1, <3>2, <3>3 DEF PlainStep
    <2>4. QED
      BY <1>6, <2>1, <2>2, <2>3 DEF CloseIf
  <1>7. CASE CloseWake(t)
    <2>1. Ready(t) /\ f.at = "closeWake"
      BY <1>7, ReadyAt DEF CloseWake, ServerLabels
    <2>2. Moves(t, "return", f, f)
      BY <1>7, <2>1, ReturnMoves DEF Ready, CloseWake
    <2>3. PlainAs(t, "return", f, f)
      BY <1>7, <2>1, ReadyFacts DEF CloseWake, PlainAs, PlainPoints, MethodLabels,
          StopLabels, Passes, Running, Brings, Frame, Followers, Callees, Suspended,
          SendPath, Closers, Pushers, Opening, RunLabels, LoopLabels, Events,
          LoopEvents, SocketType
    <2>4. EndsAs(t, "return", f, f)
      BY <1>7, <2>1, ReadyFacts DEF CloseWake, EndsAs, Brings, Frame, Closers,
          CloseLabels, SendPath, LoopLabels, SocketType
    <2>5. QED
      BY <2>2, <2>3, <2>4 DEF PlainStep
  <1>8. CASE Closing(t)
    <2>1. Ready(t) /\ f.at = "closing"
      BY <1>8, ReadyAt DEF Closing, ServerLabels
    <2>2. Moves(t, "call", Frame("closeSent", c, x), Frame("send", c, "close"))
      BY <1>8, <2>1, CallMoves DEF Ready, Closing, Call
    <2>3. PlainAs(t, "call", Frame("closeSent", c, x), Frame("send", c, "close"))
      BY <1>8, <2>1, ReadyFacts DEF Closing, Call, PlainAs, PlainPoints, MethodLabels,
          StopLabels, Passes, Running, Brings, Frame, Followers, Callees, Suspended,
          SendPath, Closers, Pushers, Opening, RunLabels, LoopLabels, Events,
          LoopEvents, SocketType
    <2>4. EndsAs(t, "call", Frame("closeSent", c, x), Frame("send", c, "close"))
      BY <1>8, <2>1, ReadyFacts DEF Closing, Call, EndsAs, Brings, Frame, Closers,
          CloseLabels, SendPath, LoopLabels, SocketType
    <2>5. QED
      BY <2>2, <2>3, <2>4 DEF PlainStep
  <1>9. CASE CloseSent(t)
    <2>1. Ready(t) /\ f.at = "closeSent"
      BY <1>9, ReadyAt DEF CloseSent, ServerLabels
    <2>2. Moves(t, "return", f, f)
      BY <1>9, <2>1, ReturnMoves DEF Ready, CloseSent
    <2>3. PlainAs(t, "return", f, f)
      BY <1>9, <2>1, ReadyFacts DEF CloseSent, PlainAs, PlainPoints, MethodLabels,
          StopLabels, Passes, Running, Brings, Frame, Followers, Callees, Suspended,
          SendPath, Closers, Pushers, Opening, RunLabels, LoopLabels, Events,
          LoopEvents, SocketType
    <2>4. EndsAs(t, "return", f, f)
      BY <1>9, <2>1, ReadyFacts DEF CloseSent, EndsAs, Brings, Frame, Closers,
          CloseLabels, SendPath, LoopLabels, SocketType
    <2>5. QED
      BY <2>2, <2>3, <2>4 DEF PlainStep
  <1>10. QED
    BY <1>1, <1>2, <1>3, <1>4, <1>5, <1>6, <1>7, <1>8, <1>9

\* poll().
LEMMA PollSteps ==
    ASSUME NEW t \in Threads, TransportOK,
           \/ Poll(t) \/ Pinged(t) \/ Select(t) \/ WaitWoken(t) \/ WaitRead(t)
           \/ WaitTimeout(t) \/ WaitError(t) \/ Polled(t)
    PROVE  PlainStep(t)
  <1> DEFINE f == Top(t)
             c == Top(t).c
             x == Top(t).arg
  <1>1. CASE Poll(t)
    <2>1. Ready(t) /\ f.at = "poll"
      BY <1>1, ReadyAt DEF Poll, ServerLabels
    <2>2. CASE Jump(t, "select") /\ UNCHANGED ws
      <3>1. Moves(t, "jump", Frame("select", c, x), f)
        BY <2>1, <2>2, JumpMoves DEF Ready, Jump
      <3>2. PlainAs(t, "jump", Frame("select", c, x), f)
        BY <1>1, <2>1, <2>2, ReadyFacts DEF Poll, PlainAs, PlainPoints, MethodLabels,
            StopLabels, Passes, Running, Brings, Frame, Followers, Callees, Suspended,
            SendPath, Closers, Pushers, Opening, RunLabels, LoopLabels, Events,
            LoopEvents, SocketType
      <3>3. EndsAs(t, "jump", Frame("select", c, x), f)
        BY <1>1, <2>1, <2>2, ReadyFacts DEF Poll, EndsAs, Brings, Frame, Closers,
            CloseLabels, SendPath, LoopLabels, SocketType
      <3>4. QED
        BY <3>1, <3>2, <3>3 DEF PlainStep
    <2>3. CASE Call(t, "select", "close", "") /\ UNCHANGED ws
      <3>1. Moves(t, "call", Frame("select", c, x), Frame("close", c, ""))
        BY <2>1, <2>3, CallMoves DEF Ready, Call
      <3>2. PlainAs(t, "call", Frame("select", c, x), Frame("close", c, ""))
        BY <1>1, <2>1, <2>3, ReadyFacts DEF Poll, PlainAs, PlainPoints, MethodLabels,
            StopLabels, Passes, Running, Brings, Frame, Followers, Callees, Suspended,
            SendPath, Closers, Pushers, Opening, RunLabels, LoopLabels, Events,
            LoopEvents, SocketType
      <3>3. EndsAs(t, "call", Frame("select", c, x), Frame("close", c, ""))
        BY <1>1, <2>1, <2>3, ReadyFacts DEF Poll, EndsAs, Brings, Frame, Closers,
            CloseLabels, SendPath, LoopLabels, SocketType
      <3>4. QED
        BY <3>1, <3>2, <3>3 DEF PlainStep
    <2>4. CASE /\ Call(t, "pinged", "send", "ping")
             /\ ws' = [ws EXCEPT ![c].pong = FALSE]
      <3>1. Moves(t, "call", Frame("pinged", c, x), Frame("send", c, "ping"))
        BY <2>1, <2>4, CallMoves DEF Ready, Call
      <3>2. PlainAs(t, "call", Frame("pinged", c, x), Frame("send", c, "ping"))
        BY <1>1, <2>1, <2>4, ReadyFacts DEF Poll, PlainAs, PlainPoints, MethodLabels,
            StopLabels, Passes, Running, Brings, Frame, Followers, Callees, Suspended,
            SendPath, Closers, Pushers, Opening, RunLabels, LoopLabels, Events,
            LoopEvents, SocketType
      <3>3. EndsAs(t, "call", Frame("pinged", c, x), Frame("send", c, "ping"))
        BY <1>1, <2>1, <2>4, ReadyFacts DEF Poll, EndsAs, Brings, Frame, Closers,
            CloseLabels, SendPath, LoopLabels, SocketType
      <3>4. QED
        BY <3>1, <3>2, <3>3 DEF PlainStep
    <2>5. QED
      BY <1>1, <2>1, <2>2, <2>3, <2>4 DEF Poll
  <1>2. CASE Pinged(t)
    <2>1. Ready(t) /\ f.at = "pinged"
      BY <1>2, ReadyAt DEF Pinged, ServerLabels
    <2>2. Moves(t, "jump", Frame("select", c, x), f)
      BY <1>2, <2>1, JumpMoves DEF Ready, Pinged, Jump
    <2>3. PlainAs(t, "jump", Frame("select", c, x), f)
      BY <1>2, <2>1, ReadyFacts DEF Pinged, Jump, PlainAs, PlainPoints, MethodLabels,
          StopLabels, Passes, Running, Brings, Frame, Followers, Callees, Suspended,
          SendPath, Closers, Pushers, Opening, RunLabels, LoopLabels, Events,
          LoopEvents, SocketType
    <2>4. EndsAs(t, "jump", Frame("select", c, x), f)
      BY <1>2, <2>1, ReadyFacts DEF Pinged, Jump, EndsAs, Brings, Frame, Closers,
          CloseLabels, SendPath, LoopLabels, SocketType
    <2>5. QED
      BY <2>2, <2>3, <2>4 DEF PlainStep
  <1>3. CASE Select(t)
    <2>1. Ready(t) /\ f.at = "select"
      BY <1>3, ReadyAt DEF Select, ServerLabels
    <2>2. CASE Jump(t, "polled")
      <3>1. Moves(t, "jump", Frame("polled", c, x), f)
        BY <2>1, <2>2, JumpMoves DEF Ready, Jump
      <3>2. PlainAs(t, "jump", Frame("polled", c, x), f)
        BY <1>3, <2>1, <2>2, ReadyFacts DEF Select, PlainAs, PlainPoints, MethodLabels,
            StopLabels, Passes, Running, Brings, Frame, Followers, Callees, Suspended,
            SendPath, Closers, Pushers, Opening, RunLabels, LoopLabels, Events,
            LoopEvents, SocketType
      <3>3. EndsAs(t, "jump", Frame("polled", c, x), f)
        BY <1>3, <2>1, <2>2, ReadyFacts DEF Select, EndsAs, Brings, Frame, Closers,
            CloseLabels, SendPath, LoopLabels, SocketType
      <3>4. QED
        BY <3>1, <3>2, <3>3 DEF PlainStep
    <2>3. CASE JumpWith(t, "wait", "finite")
      <3>1. Moves(t, "jump", Frame("wait", c, "finite"), f)
        BY <2>1, <2>3, JumpMoves DEF Ready
      <3>2. PlainAs(t, "jump", Frame("wait", c, "finite"), f)
        BY <1>3, <2>1, <2>3, ReadyFacts DEF Select, PlainAs, PlainPoints, MethodLabels,
            StopLabels, Passes, Running, Brings, Frame, Followers, Callees, Suspended,
            SendPath, Closers, Pushers, Opening, RunLabels, LoopLabels, Events,
            LoopEvents, SocketType
      <3>3. EndsAs(t, "jump", Frame("wait", c, "finite"), f)
        BY <1>3, <2>1, <2>3, ReadyFacts DEF Select, EndsAs, Brings, Frame, Closers,
            CloseLabels, SendPath, LoopLabels, SocketType
      <3>4. QED
        BY <3>1, <3>2, <3>3 DEF PlainStep
    <2>4. CASE JumpWith(t, "wait", "forever")
      <3>1. Moves(t, "jump", Frame("wait", c, "forever"), f)
        BY <2>1, <2>4, JumpMoves DEF Ready
      <3>2. PlainAs(t, "jump", Frame("wait", c, "forever"), f)
        BY <1>3, <2>1, <2>4, ReadyFacts DEF Select, PlainAs, PlainPoints, MethodLabels,
            StopLabels, Passes, Running, Brings, Frame, Followers, Callees, Suspended,
            SendPath, Closers, Pushers, Opening, RunLabels, LoopLabels, Events,
            LoopEvents, SocketType
      <3>3. EndsAs(t, "jump", Frame("wait", c, "forever"), f)
        BY <1>3, <2>1, <2>4, ReadyFacts DEF Select, EndsAs, Brings, Frame, Closers,
            CloseLabels, SendPath, LoopLabels, SocketType
      <3>4. QED
        BY <3>1, <3>2, <3>3 DEF PlainStep
    <2>5. QED
      BY <1>3, <2>1, <2>2, <2>3, <2>4 DEF Select
  <1>4. CASE WaitWoken(t)
    <2>1. Ready(t) /\ f.at = "wait"
      BY <1>4, ReadyAt DEF WaitWoken, ServerLabels
    <2>2. CASE JumpWith(t, "flush", "poll") /\ ws' = [ws EXCEPT ![c].pipe = Tail(@)]
      <3>1. Moves(t, "jump", Frame("flush", c, "poll"), f)
        BY <2>1, <2>2, JumpMoves DEF Ready
      <3>2. PlainAs(t, "jump", Frame("flush", c, "poll"), f)
        BY <1>4, <2>1, <2>2, ReadyFacts DEF WaitWoken, PlainAs, PlainPoints,
            MethodLabels, StopLabels, Passes, Running, Brings, Frame, Followers,
            Callees, Suspended, SendPath, Closers, Pushers, Opening, RunLabels,
            LoopLabels, Events, LoopEvents, SocketType
      <3>3. EndsAs(t, "jump", Frame("flush", c, "poll"), f)
        BY <1>4, <2>1, <2>2, ReadyFacts DEF WaitWoken, EndsAs, Brings, Frame, Closers,
            CloseLabels, SendPath, LoopLabels, SocketType
      <3>4. QED
        BY <3>1, <3>2, <3>3 DEF PlainStep
    <2>3. CASE /\ Jump(t, "polled")
             /\ ws' = [ws EXCEPT ![c].pipe = Tail(@), ![c].fd = "shut"]
      <3>1. Moves(t, "jump", Frame("polled", c, x), f)
        BY <2>1, <2>3, JumpMoves DEF Ready, Jump
      <3>2. PlainAs(t, "jump", Frame("polled", c, x), f)
        BY <1>4, <2>1, <2>3, ReadyFacts DEF WaitWoken, PlainAs, PlainPoints,
            MethodLabels, StopLabels, Passes, Running, Brings, Frame, Followers,
            Callees, Suspended, SendPath, Closers, Pushers, Opening, RunLabels,
            LoopLabels, Events, LoopEvents, SocketType
      <3>3. EndsAs(t, "jump", Frame("polled", c, x), f)
        BY <1>4, <2>1, <2>3, ReadyFacts DEF WaitWoken, EndsAs, Brings, Frame, Closers,
            CloseLabels, SendPath, LoopLabels, SocketType
      <3>4. QED
        BY <3>1, <3>2, <3>3 DEF PlainStep
    <2>4. QED
      BY <1>4, <2>1, <2>2, <2>3 DEF WaitWoken
  <1>5. CASE WaitRead(t)
    <2>1. Ready(t) /\ f.at = "wait"
      BY <1>5, ReadyAt DEF WaitRead, ServerLabels
    <2>2. CASE JumpWith(t, "dispatch", "failed")
      <3>1. Moves(t, "jump", Frame("dispatch", c, "failed"), f)
        BY <2>1, <2>2, JumpMoves DEF Ready
      <3>2. PlainAs(t, "jump", Frame("dispatch", c, "failed"), f)
        BY <1>5, <2>1, <2>2, ReadyFacts DEF WaitRead, PlainAs, PlainPoints,
            MethodLabels, StopLabels, Passes, Running, Brings, Frame, Followers,
            Callees, Suspended, SendPath, Closers, Pushers, Opening, RunLabels,
            LoopLabels, Events, LoopEvents, SocketType
      <3>3. EndsAs(t, "jump", Frame("dispatch", c, "failed"), f)
        BY <1>5, <2>1, <2>2, ReadyFacts DEF WaitRead, EndsAs, Brings, Frame, Closers,
            CloseLabels, SendPath, LoopLabels, SocketType
      <3>4. QED
        BY <3>1, <3>2, <3>3 DEF PlainStep
    <2>3. CASE ws[c].fd = "open" /\ net[c].up /\ Jump(t, "polled")
      <3>1. Moves(t, "jump", Frame("polled", c, x), f)
        BY <2>1, <2>3, JumpMoves DEF Ready, Jump
      <3>2. PlainAs(t, "jump", Frame("polled", c, x), f)
        BY <1>5, <2>1, <2>3, ReadyFacts DEF WaitRead, PlainAs, PlainPoints,
            MethodLabels, StopLabels, Passes, Running, Brings, Frame, Followers,
            Callees, Suspended, SendPath, Closers, Pushers, Opening, RunLabels,
            LoopLabels, Events, LoopEvents, SocketType
      <3>3. EndsAs(t, "jump", Frame("polled", c, x), f)
        BY <1>5, <2>1, <2>3, ReadyFacts DEF WaitRead, EndsAs, Brings, Frame, Closers,
            CloseLabels, SendPath, LoopLabels, SocketType
      <3>4. QED
        BY <3>1, <3>2, <3>3 DEF PlainStep
    <2>4. QED
      BY <1>5, <2>1, <2>2, <2>3 DEF WaitRead
  <1>6. CASE WaitTimeout(t)
    <2>1. Ready(t) /\ f.at = "wait"
      BY <1>6, ReadyAt DEF WaitTimeout, ServerLabels
    <2>2. Moves(t, "jump", Frame("polled", c, x), f)
      BY <1>6, <2>1, JumpMoves DEF Ready, WaitTimeout, Jump
    <2>3. PlainAs(t, "jump", Frame("polled", c, x), f)
      BY <1>6, <2>1, ReadyFacts DEF WaitTimeout, Jump, PlainAs, PlainPoints,
          MethodLabels, StopLabels, Passes, Running, Brings, Frame, Followers, Callees,
          Suspended, SendPath, Closers, Pushers, Opening, RunLabels, LoopLabels, Events,
          LoopEvents, SocketType
    <2>4. EndsAs(t, "jump", Frame("polled", c, x), f)
      BY <1>6, <2>1, ReadyFacts DEF WaitTimeout, Jump, EndsAs, Brings, Frame, Closers,
          CloseLabels, SendPath, LoopLabels, SocketType
    <2>5. QED
      BY <2>2, <2>3, <2>4 DEF PlainStep
  <1>7. CASE Polled(t)
    <2>1. Ready(t) /\ f.at = "polled"
      BY <1>7, ReadyAt DEF Polled, ServerLabels
    <2>2. CASE /\ Call(t, "dispatch", "setClosed", "")
             /\ ws' = [ws EXCEPT ![c].rxbuf = <<>>, ![c].fd = "shut"]
      <3>1. Moves(t, "call", Frame("dispatch", c, x), Frame("setClosed", c, ""))
        BY <2>1, <2>2, CallMoves DEF Ready, Call
      <3>2. PlainAs(t, "call", Frame("dispatch", c, x), Frame("setClosed", c, ""))
        BY <1>7, <2>1, <2>2, ReadyFacts DEF Polled, PlainAs, PlainPoints, MethodLabels,
            StopLabels, Passes, Running, Brings, Frame, Followers, Callees, Suspended,
            SendPath, Closers, Pushers, Opening, RunLabels, LoopLabels, Events,
            LoopEvents, SocketType
      <3>3. EndsAs(t, "call", Frame("dispatch", c, x), Frame("setClosed", c, ""))
        BY <1>7, <2>1, <2>2, ReadyFacts DEF Polled, EndsAs, Brings, Frame, Closers,
            CloseLabels, SendPath, LoopLabels, SocketType
      <3>4. QED
        BY <3>1, <3>2, <3>3 DEF PlainStep
    <2>3. CASE Jump(t, "dispatch") /\ UNCHANGED ws
      <3>1. Moves(t, "jump", Frame("dispatch", c, x), f)
        BY <2>1, <2>3, JumpMoves DEF Ready, Jump
      <3>2. PlainAs(t, "jump", Frame("dispatch", c, x), f)
        BY <1>7, <2>1, <2>3, ReadyFacts DEF Polled, PlainAs, PlainPoints, MethodLabels,
            StopLabels, Passes, Running, Brings, Frame, Followers, Callees, Suspended,
            SendPath, Closers, Pushers, Opening, RunLabels, LoopLabels, Events,
            LoopEvents, SocketType
      <3>3. EndsAs(t, "jump", Frame("dispatch", c, x), f)
        BY <1>7, <2>1, <2>3, ReadyFacts DEF Polled, EndsAs, Brings, Frame, Closers,
            CloseLabels, SendPath, LoopLabels, SocketType
      <3>4. QED
        BY <3>1, <3>2, <3>3 DEF PlainStep
    <2>4. QED
      BY <1>7, <2>1, <2>2, <2>3 DEF Polled
  <1>8. CASE WaitError(t)
    <2>1. Ready(t) /\ f.at = "wait"
      BY <1>8, ReadyAt DEF WaitError, ServerLabels
    <2>2. Moves(t, "jump", Frame("polled", c, x), f)
      BY <1>8, <2>1, JumpMoves DEF Ready, WaitError, Jump
    <2>3. PlainAs(t, "jump", Frame("polled", c, x), f)
      BY <1>8, <2>1, ReadyFacts DEF WaitError, Jump, PlainAs, PlainPoints,
          MethodLabels, StopLabels, Passes, Running, Brings, Frame, Followers, Callees,
          Suspended, SendPath, Closers, Pushers, Opening, RunLabels, LoopLabels, Events,
          LoopEvents, SocketType
    <2>4. ws[c].st = "OPEN" => net'[c].fault
      BY <1>8, <2>1, ReadyFacts DEF WaitError, TransportOK, PeersOK, PeerType
    <2>5. EndsAs(t, "jump", Frame("polled", c, x), f)
      BY <1>8, <2>1, <2>4, ReadyFacts DEF WaitError, Jump, EndsAs, Brings, Frame, Closers,
          CloseLabels, SendPath, LoopLabels, SocketType
    <2>6. QED
      BY <2>2, <2>3, <2>5 DEF PlainStep
  <1>9. QED
    BY <1>1, <1>2, <1>3, <1>4, <1>5, <1>6, <1>7, <1>8

\* dispatch().
LEMMA DispatchSteps ==
    ASSUME NEW t \in Threads, TransportOK,
           \/ DispatchData(t) \/ DispatchPing(t) \/ Ponged(t) \/ DispatchPong(t)
           \/ DispatchUnexpected(t) \/ Unordered(t) \/ DispatchRefused(t)
           \/ DispatchPart(t) \/ DispatchClose(t) \/ Echoed(t) \/ DispatchEnd(t)
    PROVE  PlainStep(t)
  <1> DEFINE f == Top(t)
             c == Top(t).c
             x == Top(t).arg
  <1>1. CASE DispatchData(t)
    <2>1. Ready(t) /\ f.at = "dispatch"
      BY <1>1, ReadyAt DEF DispatchData, ServerLabels
    <2>2. Moves(t, "call", Frame("dispatch", c, x), Frame("callback", c, "message"))
      BY <1>1, <2>1, CallMoves DEF Ready, DispatchData, Emit, Call
    <2>3. /\ log' = [log EXCEPT ![c] = Append(@, "message")]
          /\ "message" \in Events \ {"open", "error"}
      BY <1>1 DEF DispatchData, Emit, Events, LoopEvents
    <2>4. PlainAs(t, "call", Frame("dispatch", c, x), Frame("callback", c, "message"))
      BY <1>1, <2>1, <2>3, ReadyFacts DEF DispatchData, PlainAs, PlainPoints,
          MethodLabels, StopLabels, Passes, Running, Brings, Frame, Followers, Callees,
          Suspended, SendPath, Closers, Pushers, Opening, RunLabels, LoopLabels, Events,
          LoopEvents, SocketType
    <2>5. EndsAs(t, "call", Frame("dispatch", c, x), Frame("callback", c, "message"))
      BY <1>1, <2>1, <2>3, ReadyFacts DEF DispatchData, EndsAs, Brings, Frame, Closers,
          CloseLabels, SendPath, LoopLabels, SocketType
    <2>6. QED
      BY <2>2, <2>4, <2>5 DEF PlainStep
  <1>2. CASE DispatchPing(t)
    <2>1. Ready(t) /\ f.at = "dispatch"
      BY <1>2, ReadyAt DEF DispatchPing, ServerLabels
    <2>2. Moves(t, "call", Frame("ponged", c, x), Frame("send", c, "pong"))
      BY <1>2, <2>1, CallMoves DEF Ready, DispatchPing, Call
    <2>3. PlainAs(t, "call", Frame("ponged", c, x), Frame("send", c, "pong"))
      BY <1>2, <2>1, ReadyFacts DEF DispatchPing, Call, PlainAs, PlainPoints,
          MethodLabels, StopLabels, Passes, Running, Brings, Frame, Followers, Callees,
          Suspended, SendPath, Closers, Pushers, Opening, RunLabels, LoopLabels, Events,
          LoopEvents, SocketType
    <2>4. EndsAs(t, "call", Frame("ponged", c, x), Frame("send", c, "pong"))
      BY <1>2, <2>1, ReadyFacts DEF DispatchPing, Call, EndsAs, Brings, Frame, Closers,
          CloseLabels, SendPath, LoopLabels, SocketType
    <2>5. QED
      BY <2>2, <2>3, <2>4 DEF PlainStep
  <1>3. CASE Ponged(t)
    <2>1. Ready(t) /\ f.at = "ponged"
      BY <1>3, ReadyAt DEF Ponged, ServerLabels
    <2>2. Moves(t, "call", Frame("dispatch", c, x), Frame("callback", c, "ping"))
      BY <1>3, <2>1, CallMoves DEF Ready, Ponged, Emit, Call
    <2>3. PlainAs(t, "call", Frame("dispatch", c, x), Frame("callback", c, "ping"))
      BY <1>3, <2>1, ReadyFacts DEF Ponged, Emit, Call, PlainAs, PlainPoints,
          MethodLabels, StopLabels, Passes, Running, Brings, Frame, Followers, Callees,
          Suspended, SendPath, Closers, Pushers, Opening, RunLabels, LoopLabels, Events,
          LoopEvents, SocketType
    <2>4. EndsAs(t, "call", Frame("dispatch", c, x), Frame("callback", c, "ping"))
      BY <1>3, <2>1, ReadyFacts DEF Ponged, Emit, Call, EndsAs, Brings, Frame, Closers,
          CloseLabels, SendPath, LoopLabels, SocketType
    <2>5. QED
      BY <2>2, <2>3, <2>4 DEF PlainStep
  <1>4. CASE DispatchPong(t)
    <2>1. Ready(t) /\ f.at = "dispatch"
      BY <1>4, ReadyAt DEF DispatchPong, ServerLabels
    <2>2. Moves(t, "call", Frame("dispatch", c, x), Frame("callback", c, "pong"))
      BY <1>4, <2>1, CallMoves DEF Ready, DispatchPong, Emit, Call
    <2>3. PlainAs(t, "call", Frame("dispatch", c, x), Frame("callback", c, "pong"))
      BY <1>4, <2>1, ReadyFacts DEF DispatchPong, Emit, Call, PlainAs, PlainPoints,
          MethodLabels, StopLabels, Passes, Running, Brings, Frame, Followers, Callees,
          Suspended, SendPath, Closers, Pushers, Opening, RunLabels, LoopLabels, Events,
          LoopEvents, SocketType
    <2>4. EndsAs(t, "call", Frame("dispatch", c, x), Frame("callback", c, "pong"))
      BY <1>4, <2>1, ReadyFacts DEF DispatchPong, Emit, Call, EndsAs, Brings, Frame,
          Closers, CloseLabels, SendPath, LoopLabels, SocketType
    <2>5. QED
      BY <2>2, <2>3, <2>4 DEF PlainStep
  <1>5. CASE DispatchUnexpected(t)
    <2>1. Ready(t) /\ f.at = "dispatch"
      BY <1>5, ReadyAt DEF DispatchUnexpected, ServerLabels
    <2>2. CASE Call(t, "unordered", "close", "")
      <3>1. Moves(t, "call", Frame("unordered", c, x), Frame("close", c, ""))
        BY <2>1, <2>2, CallMoves DEF Ready, Call
      <3>2. PlainAs(t, "call", Frame("unordered", c, x), Frame("close", c, ""))
        BY <1>5, <2>1, <2>2, ReadyFacts DEF DispatchUnexpected, PlainAs, PlainPoints,
            MethodLabels, StopLabels, Passes, Running, Brings, Frame, Followers,
            Callees, Suspended, SendPath, Closers, Pushers, Opening, RunLabels,
            LoopLabels, Events, LoopEvents, SocketType
      <3>3. EndsAs(t, "call", Frame("unordered", c, x), Frame("close", c, ""))
        BY <1>5, <2>1, <2>2, ReadyFacts DEF DispatchUnexpected, EndsAs, Brings, Frame,
            Closers, CloseLabels, SendPath, LoopLabels, SocketType
      <3>4. QED
        BY <3>1, <3>2, <3>3 DEF PlainStep
    <2>3. CASE Call(t, "dispatch", "close", "")
      <3>1. Moves(t, "call", Frame("dispatch", c, x), Frame("close", c, ""))
        BY <2>1, <2>3, CallMoves DEF Ready, Call
      <3>2. PlainAs(t, "call", Frame("dispatch", c, x), Frame("close", c, ""))
        BY <1>5, <2>1, <2>3, ReadyFacts DEF DispatchUnexpected, PlainAs, PlainPoints,
            MethodLabels, StopLabels, Passes, Running, Brings, Frame, Followers,
            Callees, Suspended, SendPath, Closers, Pushers, Opening, RunLabels,
            LoopLabels, Events, LoopEvents, SocketType
      <3>3. EndsAs(t, "call", Frame("dispatch", c, x), Frame("close", c, ""))
        BY <1>5, <2>1, <2>3, ReadyFacts DEF DispatchUnexpected, EndsAs, Brings, Frame,
            Closers, CloseLabels, SendPath, LoopLabels, SocketType
      <3>4. QED
        BY <3>1, <3>2, <3>3 DEF PlainStep
    <2>4. QED
      BY <1>5, <2>1, <2>2, <2>3 DEF DispatchUnexpected
  <1>6. CASE Unordered(t)
    <2>1. Ready(t) /\ f.at = "unordered"
      BY <1>6, ReadyAt DEF Unordered, ServerLabels
    <2>2. Moves(t, "call", Frame("dispatch", c, x), Frame("callback", c, "message"))
      BY <1>6, <2>1, CallMoves DEF Ready, Unordered, Emit, Call
    <2>3. /\ log' = [log EXCEPT ![c] = Append(@, "message")]
          /\ "message" \in Events \ {"open", "error"}
      BY <1>6 DEF Unordered, Emit, Events, LoopEvents
    <2>4. PlainAs(t, "call", Frame("dispatch", c, x), Frame("callback", c, "message"))
      BY <1>6, <2>1, <2>3, ReadyFacts DEF Unordered, PlainAs, PlainPoints, MethodLabels,
          StopLabels, Passes, Running, Brings, Frame, Followers, Callees, Suspended,
          SendPath, Closers, Pushers, Opening, RunLabels, LoopLabels, Events,
          LoopEvents, SocketType
    <2>5. EndsAs(t, "call", Frame("dispatch", c, x), Frame("callback", c, "message"))
      BY <1>6, <2>1, <2>3, ReadyFacts DEF Unordered, EndsAs, Brings, Frame, Closers,
          CloseLabels, SendPath, LoopLabels, SocketType
    <2>6. QED
      BY <2>2, <2>4, <2>5 DEF PlainStep
  <1>7. CASE DispatchRefused(t)
    <2>1. Ready(t) /\ f.at = "dispatch"
      BY <1>7, ReadyAt DEF DispatchRefused, ServerLabels
    <2>2. Moves(t, "call", Frame("check", c, x), Frame("close", c, ""))
      BY <1>7, <2>1, CallMoves DEF Ready, DispatchRefused, Call
    <2>3. PlainAs(t, "call", Frame("check", c, x), Frame("close", c, ""))
      BY <1>7, <2>1, ReadyFacts DEF DispatchRefused, Call, PlainAs, PlainPoints,
          MethodLabels, StopLabels, Passes, Running, Brings, Frame, Followers, Callees,
          Suspended, SendPath, Closers, Pushers, Opening, RunLabels, LoopLabels, Events,
          LoopEvents, SocketType
    <2>4. EndsAs(t, "call", Frame("check", c, x), Frame("close", c, ""))
      BY <1>7, <2>1, ReadyFacts DEF DispatchRefused, Call, EndsAs, Brings, Frame,
          Closers, CloseLabels, SendPath, LoopLabels, SocketType
    <2>5. QED
      BY <2>2, <2>3, <2>4 DEF PlainStep
  <1>8. CASE DispatchPart(t)
    <2>1. Ready(t) /\ f.at = "dispatch"
      BY <1>8, ReadyAt DEF DispatchPart, ServerLabels
    <2>2. Moves(t, "jump", Frame("check", c, x), f)
      BY <1>8, <2>1, JumpMoves DEF Ready, DispatchPart, Jump
    <2>3. PlainAs(t, "jump", Frame("check", c, x), f)
      BY <1>8, <2>1, ReadyFacts DEF DispatchPart, Jump, PlainAs, PlainPoints,
          MethodLabels, StopLabels, Passes, Running, Brings, Frame, Followers, Callees,
          Suspended, SendPath, Closers, Pushers, Opening, RunLabels, LoopLabels, Events,
          LoopEvents, SocketType
    <2>4. EndsAs(t, "jump", Frame("check", c, x), f)
      BY <1>8, <2>1, ReadyFacts DEF DispatchPart, Jump, EndsAs, Brings, Frame, Closers,
          CloseLabels, SendPath, LoopLabels, SocketType
    <2>5. QED
      BY <2>2, <2>3, <2>4 DEF PlainStep
  <1>9. CASE DispatchClose(t)
    <2>1. Ready(t) /\ f.at = "dispatch"
      BY <1>9, ReadyAt DEF DispatchClose, ServerLabels
    <2>2. CASE /\ Call(t, "echoed", "send", "ack")
             /\ ws' = [ws EXCEPT ![c].rxbuf = Tail(@), ![c].st = "CLOSING"]
      <3>1. Moves(t, "call", Frame("echoed", c, x), Frame("send", c, "ack"))
        BY <2>1, <2>2, CallMoves DEF Ready, Call
      <3>2. PlainAs(t, "call", Frame("echoed", c, x), Frame("send", c, "ack"))
        BY <1>9, <2>1, <2>2, ReadyFacts DEF DispatchClose, PlainAs, PlainPoints,
            MethodLabels, StopLabels, Passes, Running, Brings, Frame, Followers,
            Callees, Suspended, SendPath, Closers, Pushers, Opening, RunLabels,
            LoopLabels, Events, LoopEvents, SocketType
      <3>3. EndsAs(t, "call", Frame("echoed", c, x), Frame("send", c, "ack"))
        BY <1>9, <2>1, <2>2, ReadyFacts DEF DispatchClose, EndsAs, Brings, Frame,
            Closers, CloseLabels, SendPath, LoopLabels, SocketType
      <3>4. QED
        BY <3>1, <3>2, <3>3 DEF PlainStep
    <2>3. CASE /\ Call(t, "dispatch", "switch", "")
             /\ ws' = [ws EXCEPT ![c].rxbuf = Tail(@)]
      <3>1. Moves(t, "call", Frame("dispatch", c, x), Frame("switch", c, ""))
        BY <2>1, <2>3, CallMoves DEF Ready, Call
      <3>2. PlainAs(t, "call", Frame("dispatch", c, x), Frame("switch", c, ""))
        BY <1>9, <2>1, <2>3, ReadyFacts DEF DispatchClose, PlainAs, PlainPoints,
            MethodLabels, StopLabels, Passes, Running, Brings, Frame, Followers,
            Callees, Suspended, SendPath, Closers, Pushers, Opening, RunLabels,
            LoopLabels, Events, LoopEvents, SocketType
      <3>3. EndsAs(t, "call", Frame("dispatch", c, x), Frame("switch", c, ""))
        BY <1>9, <2>1, <2>3, ReadyFacts DEF DispatchClose, EndsAs, Brings, Frame,
            Closers, CloseLabels, SendPath, LoopLabels, SocketType
      <3>4. QED
        BY <3>1, <3>2, <3>3 DEF PlainStep
    <2>4. CASE UNCHANGED stk /\ ws' = [ws EXCEPT ![c].rxbuf = Tail(@)]
      <3>1. Moves(t, "jump", f, f)
        BY <2>1, <2>4, StayMoves DEF Ready
      <3>2. PlainAs(t, "jump", f, f)
        BY <1>9, <2>1, <2>4, ReadyFacts DEF DispatchClose, PlainAs, PlainPoints,
            MethodLabels, StopLabels, Passes, Running, Brings, Frame, Followers,
            Callees, Suspended, SendPath, Closers, Pushers, Opening, RunLabels,
            LoopLabels, Events, LoopEvents, SocketType
      <3>3. EndsAs(t, "jump", f, f)
        BY <1>9, <2>1, <2>4, ReadyFacts DEF DispatchClose, EndsAs, Brings, Frame,
            Closers, CloseLabels, SendPath, LoopLabels, SocketType
      <3>4. QED
        BY <3>1, <3>2, <3>3 DEF PlainStep
    <2>5. QED
      BY <1>9, <2>1, <2>2, <2>3, <2>4 DEF DispatchClose
  <1>10. CASE Echoed(t)
    <2>1. Ready(t) /\ f.at = "echoed"
      BY <1>10, ReadyAt DEF Echoed, ServerLabels
    <2>2. Moves(t, "call", Frame("dispatch", c, x), Frame("switch", c, ""))
      BY <1>10, <2>1, CallMoves DEF Ready, Echoed, Call
    <2>3. PlainAs(t, "call", Frame("dispatch", c, x), Frame("switch", c, ""))
      BY <1>10, <2>1, ReadyFacts DEF Echoed, Call, PlainAs, PlainPoints, MethodLabels,
          StopLabels, Passes, Running, Brings, Frame, Followers, Callees, Suspended,
          SendPath, Closers, Pushers, Opening, RunLabels, LoopLabels, Events,
          LoopEvents, SocketType
    <2>4. EndsAs(t, "call", Frame("dispatch", c, x), Frame("switch", c, ""))
      BY <1>10, <2>1, ReadyFacts DEF Echoed, Call, EndsAs, Brings, Frame, Closers,
          CloseLabels, SendPath, LoopLabels, SocketType
    <2>5. QED
      BY <2>2, <2>3, <2>4 DEF PlainStep
  <1>11. CASE DispatchEnd(t)
    <2>1. Ready(t) /\ f.at = "dispatch"
      BY <1>11, ReadyAt DEF DispatchEnd, ServerLabels
    <2>2. CASE /\ ws[c].st = "CLOSING" /\ Call(t, "check", "setClosed", "")
             /\ ws' = [ws EXCEPT ![c].fd = "shut"]
      <3>1. Moves(t, "call", Frame("check", c, x), Frame("setClosed", c, ""))
        BY <2>1, <2>2, CallMoves DEF Ready, Call
      <3>2. PlainAs(t, "call", Frame("check", c, x), Frame("setClosed", c, ""))
        BY <1>11, <2>1, <2>2, ReadyFacts DEF DispatchEnd, PlainAs, PlainPoints,
            MethodLabels, StopLabels, Passes, Running, Brings, Frame, Followers,
            Callees, Suspended, SendPath, Closers, Pushers, Opening, RunLabels,
            LoopLabels, Events, LoopEvents, SocketType
      <3>3. EndsAs(t, "call", Frame("check", c, x), Frame("setClosed", c, ""))
        BY <1>11, <2>1, <2>2, ReadyFacts DEF DispatchEnd, EndsAs, Brings, Frame,
            Closers, CloseLabels, SendPath, LoopLabels, SocketType
      <3>4. QED
        BY <3>1, <3>2, <3>3 DEF PlainStep
    <2>3. CASE Call(t, "check", "switch", "") /\ UNCHANGED ws
      <3>1. Moves(t, "call", Frame("check", c, x), Frame("switch", c, ""))
        BY <2>1, <2>3, CallMoves DEF Ready, Call
      <3>2. PlainAs(t, "call", Frame("check", c, x), Frame("switch", c, ""))
        BY <1>11, <2>1, <2>3, ReadyFacts DEF DispatchEnd, PlainAs, PlainPoints,
            MethodLabels, StopLabels, Passes, Running, Brings, Frame, Followers,
            Callees, Suspended, SendPath, Closers, Pushers, Opening, RunLabels,
            LoopLabels, Events, LoopEvents, SocketType
      <3>3. EndsAs(t, "call", Frame("check", c, x), Frame("switch", c, ""))
        BY <1>11, <2>1, <2>3, ReadyFacts DEF DispatchEnd, EndsAs, Brings, Frame,
            Closers, CloseLabels, SendPath, LoopLabels, SocketType
      <3>4. QED
        BY <3>1, <3>2, <3>3 DEF PlainStep
    <2>4. CASE /\ ~(x = "failed" /\ ws[c].st = "OPEN")
             /\ Jump(t, "check") /\ UNCHANGED ws
      <3>1. Moves(t, "jump", Frame("check", c, x), f)
        BY <2>1, <2>4, JumpMoves DEF Ready, Jump
      <3>2. PlainAs(t, "jump", Frame("check", c, x), f)
        BY <1>11, <2>1, <2>4, ReadyFacts DEF DispatchEnd, PlainAs, PlainPoints,
            MethodLabels, StopLabels, Passes, Running, Brings, Frame, Followers,
            Callees, Suspended, SendPath, Closers, Pushers, Opening, RunLabels,
            LoopLabels, Events, LoopEvents, SocketType
      <3>3. EndsAs(t, "jump", Frame("check", c, x), f)
        BY <1>11, <2>1, <2>4, ReadyFacts DEF DispatchEnd, EndsAs, Brings, Frame,
            Closers, CloseLabels, SendPath, LoopLabels, SocketType
      <3>4. QED
        BY <3>1, <3>2, <3>3 DEF PlainStep
    <2>5. QED
      BY <1>11, <2>1, <2>2, <2>3, <2>4 DEF DispatchEnd
  <1>12. QED
    BY <1>1, <1>2, <1>3, <1>4, <1>5, <1>6, <1>7, <1>8, <1>9, <1>10, <1>11

\* The loop, once the connection is open.
LEMMA LoopSteps ==
    ASSUME NEW t \in Threads, TransportOK,
           \/ Opened(t) \/ FirstPinged(t) \/ Loop(t) \/ LoopStop(t)
    PROVE  PlainStep(t)
  <1> DEFINE f == Top(t)
             c == Top(t).c
             x == Top(t).arg
  <1>1. CASE Opened(t)
    <2>1. Ready(t) /\ f.at = "opened"
      BY <1>1, ReadyAt DEF Opened, ServerLabels
    <2>2. CASE /\ Call(t, "firstPinged", "send", "ping")
             /\ ws' = [ws EXCEPT ![c].pong = FALSE]
      <3>1. Moves(t, "call", Frame("firstPinged", c, x), Frame("send", c, "ping"))
        BY <2>1, <2>2, CallMoves DEF Ready, Call
      <3>2. PlainAs(t, "call", Frame("firstPinged", c, x), Frame("send", c, "ping"))
        BY <1>1, <2>1, <2>2, ReadyFacts DEF Opened, PlainAs, PlainPoints, MethodLabels,
            StopLabels, Passes, Running, Brings, Frame, Followers, Callees, Suspended,
            SendPath, Closers, Pushers, Opening, RunLabels, LoopLabels, Events,
            LoopEvents, SocketType
      <3>3. EndsAs(t, "call", Frame("firstPinged", c, x), Frame("send", c, "ping"))
        BY <1>1, <2>1, <2>2, ReadyFacts DEF Opened, EndsAs, Brings, Frame, Closers,
            CloseLabels, SendPath, LoopLabels, SocketType
      <3>4. QED
        BY <3>1, <3>2, <3>3 DEF PlainStep
    <2>3. CASE Jump(t, "check") /\ UNCHANGED ws
      <3>1. Moves(t, "jump", Frame("check", c, x), f)
        BY <2>1, <2>3, JumpMoves DEF Ready, Jump
      <3>2. PlainAs(t, "jump", Frame("check", c, x), f)
        BY <1>1, <2>1, <2>3, ReadyFacts DEF Opened, PlainAs, PlainPoints, MethodLabels,
            StopLabels, Passes, Running, Brings, Frame, Followers, Callees, Suspended,
            SendPath, Closers, Pushers, Opening, RunLabels, LoopLabels, Events,
            LoopEvents, SocketType
      <3>3. EndsAs(t, "jump", Frame("check", c, x), f)
        BY <1>1, <2>1, <2>3, ReadyFacts DEF Opened, EndsAs, Brings, Frame, Closers,
            CloseLabels, SendPath, LoopLabels, SocketType
      <3>4. QED
        BY <3>1, <3>2, <3>3 DEF PlainStep
    <2>4. QED
      BY <1>1, <2>1, <2>2, <2>3 DEF Opened
  <1>2. CASE FirstPinged(t)
    <2>1. Ready(t) /\ f.at = "firstPinged"
      BY <1>2, ReadyAt DEF FirstPinged, ServerLabels
    <2>2. Moves(t, "jump", Frame("check", c, x), f)
      BY <1>2, <2>1, JumpMoves DEF Ready, FirstPinged, Jump
    <2>3. PlainAs(t, "jump", Frame("check", c, x), f)
      BY <1>2, <2>1, ReadyFacts DEF FirstPinged, Jump, PlainAs, PlainPoints,
          MethodLabels, StopLabels, Passes, Running, Brings, Frame, Followers, Callees,
          Suspended, SendPath, Closers, Pushers, Opening, RunLabels, LoopLabels, Events,
          LoopEvents, SocketType
    <2>4. EndsAs(t, "jump", Frame("check", c, x), f)
      BY <1>2, <2>1, ReadyFacts DEF FirstPinged, Jump, EndsAs, Brings, Frame, Closers,
          CloseLabels, SendPath, LoopLabels, SocketType
    <2>5. QED
      BY <2>2, <2>3, <2>4 DEF PlainStep
  <1>3. CASE Loop(t)
    <2>1. Ready(t) /\ f.at = "loop"
      BY <1>3, ReadyAt DEF Loop, ServerLabels
    <2>2. CASE Return(t) /\ ws[c].st = "CLOSED"
      <3>1. Moves(t, "return", f, f)
        BY <2>1, <2>2, ReturnMoves DEF Ready
      <3>2. PlainAs(t, "return", f, f)
        BY <1>3, <2>1, <2>2, ReadyFacts DEF Loop, PlainAs, PlainPoints, MethodLabels,
            StopLabels, Passes, Running, Brings, Frame, Followers, Callees, Suspended,
            SendPath, Closers, Pushers, Opening, RunLabels, LoopLabels, Events,
            LoopEvents, SocketType
      <3>3. EndsAs(t, "return", f, f)
        BY <1>3, <2>1, <2>2, ReadyFacts DEF Loop, EndsAs, Brings, Frame, Closers,
            CloseLabels, SendPath, LoopLabels, SocketType
      <3>4. QED
        BY <3>1, <3>2, <3>3 DEF PlainStep
    <2>3. CASE Jump(t, "loopStop") /\ ws[c].st # "CLOSED"
      <3>1. Moves(t, "jump", Frame("loopStop", c, x), f)
        BY <2>1, <2>3, JumpMoves DEF Ready, Jump
      <3>2. PlainAs(t, "jump", Frame("loopStop", c, x), f)
        BY <1>3, <2>1, <2>3, ReadyFacts DEF Loop, PlainAs, PlainPoints, MethodLabels,
            StopLabels, Passes, Running, Brings, Frame, Followers, Callees, Suspended,
            SendPath, Closers, Pushers, Opening, RunLabels, LoopLabels, Events,
            LoopEvents, SocketType
      <3>3. EndsAs(t, "jump", Frame("loopStop", c, x), f)
        BY <1>3, <2>1, <2>3, ReadyFacts DEF Loop, EndsAs, Brings, Frame, Closers,
            CloseLabels, SendPath, LoopLabels, SocketType
      <3>4. QED
        BY <3>1, <3>2, <3>3 DEF PlainStep
    <2>4. QED
      BY <1>3, <2>1, <2>2, <2>3, ReadyFacts DEF Loop
  <1>4. CASE LoopStop(t)
    <2>1. Ready(t) /\ f.at = "loopStop"
      BY <1>4, ReadyAt DEF LoopStop, ServerLabels
    <2>2. CASE Return(t) /\ ws[c].stop
      <3>1. Moves(t, "return", f, f)
        BY <2>1, <2>2, ReturnMoves DEF Ready
      <3>2. PlainAs(t, "return", f, f)
        BY <1>4, <2>1, <2>2, ReadyFacts DEF LoopStop, PlainAs, PlainPoints,
            MethodLabels, StopLabels, Passes, Running, Brings, Frame, Followers,
            Callees, Suspended, SendPath, Closers, Pushers, Opening, RunLabels,
            LoopLabels, Events, LoopEvents, SocketType
      <3>3. EndsAs(t, "return", f, f)
        BY <1>4, <2>1, <2>2, ReadyFacts DEF LoopStop, EndsAs, Brings, Frame, Closers,
            CloseLabels, SendPath, LoopLabels, SocketType
      <3>4. QED
        BY <3>1, <3>2, <3>3 DEF PlainStep
    <2>3. CASE Jump(t, "poll")
      <3>1. Moves(t, "jump", Frame("poll", c, x), f)
        BY <2>1, <2>3, JumpMoves DEF Ready, Jump
      <3>2. PlainAs(t, "jump", Frame("poll", c, x), f)
        BY <1>4, <2>1, <2>3, ReadyFacts DEF LoopStop, PlainAs, PlainPoints,
            MethodLabels, StopLabels, Passes, Running, Brings, Frame, Followers,
            Callees, Suspended, SendPath, Closers, Pushers, Opening, RunLabels,
            LoopLabels, Events, LoopEvents, SocketType
      <3>3. EndsAs(t, "jump", Frame("poll", c, x), f)
        BY <1>4, <2>1, <2>3, ReadyFacts DEF LoopStop, EndsAs, Brings, Frame, Closers,
            CloseLabels, SendPath, LoopLabels, SocketType
      <3>4. QED
        BY <3>1, <3>2, <3>3 DEF PlainStep
    <2>4. QED
      BY <1>4, <2>1, <2>2, <2>3 DEF LoopStop
  <1>5. QED
    BY <1>1, <1>2, <1>3, <1>4

(***************************************************************************)
(* Every step of a thread inside ix::WebSocket is a plain one, or opens    *)
(* the connection, or is one of start() and stop().                        *)
(***************************************************************************)
LEMMA WebSocketSteps ==
    ASSUME NEW t \in Threads, TransportOK, WebSocketStep(t)
    PROVE  \/ PlainStep(t)
           \/ Check(t) \/ Connect(t) \/ Handshake(t) \/ Upgrade(t) \/ UpgradeFails(t)
           \/ Upgraded(t) \/ Open(t)
           \/ Start(t) \/ Stop(t) \/ StopThread(t) \/ Join(t) \/ Stopped(t)
  BY SendSteps, CloseSteps, PollSteps, DispatchSteps, LoopSteps
     DEF WebSocketStep, TransportStep, WaitStep, DispatchStep

=============================================================================

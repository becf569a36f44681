--------------------------- MODULE MessagesProofs ---------------------------
(***************************************************************************)
(* Theorems about the data path, for every budget, number of connections   *)
(* and choice of lengths up to 255: what is given to an application is     *)
(* what the other one has sent, and nothing of an output buffer comes      *)
(* twice.                                                                  *)
(***************************************************************************)
EXTENDS MessagesProperties, SequenceTheorems, TLAPS

-----------------------------------------------------------------------------
(* Types.                                                                  *)

LEMMA NativeType ==
    ASSUME NEW m \in Message, NEW o, o = "bytes" => m.len > 0
    PROVE  NativePayload(o, m) \in Message
  BY DEF NativePayload, Message

LEMMA BrowserType ==
    ASSUME NEW m \in Message, NEW o
    PROVE  BrowserPayload(o, m) \in Message
  <1> DEFINE n == IF o = "buffer" THEN m.len % 256 ELSE m.len
  <1>1. m.len \in Nat /\ m.len % 256 \in Nat
    BY DEF Message
  <1>2. n \in Nat
    BY <1>1
  <1>3. BrowserPayload(o, m) = [m EXCEPT !.len = n, !.text = FALSE]
    BY DEF BrowserPayload
  <1> HIDE DEF n
  <1>4. QED
    BY <1>2, <1>3 DEF Message

LEMMA MeantType ==
    ASSUME TypeOK, NEW s \in Sides, NEW o, NEW n \in Nat
    PROVE  Meant(s, o, n) \in Message
  BY DEF TypeOK, Meant, Message

LEMMA ClearedType ==
    ASSUME TypeOK, NEW s \in Sides
    PROVE  Cleared(s) \in [Sides -> [first : Nat \ {0}, len : Nat]]
  BY DEF TypeOK, Cleared

LEMMA SpendType ==
    ASSUME TypeOK, NEW what \in {"calls", "connections"}, Spend(what)
    PROVE  left' \in [{"calls", "connections"} -> Nat]
  BY DEF TypeOK, Spend

LEMMA GoesType ==
    ASSUME TypeOK, NEW s \in Sides, NEW t \in Threads, NEW label, Goes(s, t, label),
           label \in {"idle", "callback", "append", "clear", "stuck"}
    PROVE  pc' \in [Sides -> [Threads -> {"idle", "callback", "append", "clear", "stuck"}]]
  BY DEF TypeOK, Goes

LEMMA DoneType ==
    ASSUME TypeOK, NEW s \in Sides, NEW t \in Threads, Done(s, t),
           NEW label, Goes(s, t, label), label # "append"
    PROVE  /\ job' \in [Sides -> [Threads -> Job \cup {<<>>}]]
           /\ \A r \in Sides, u \in Threads : pc'[r][u] = "append" => job'[r][u] \in Job
  BY DEF TypeOK, Done, Goes

LEMMA JobsKept ==
    ASSUME TypeOK, NEW s \in Sides, NEW t \in Threads, job' = job,
           NEW label, Goes(s, t, label), label # "append"
    PROVE  \A r \in Sides, u \in Threads : pc'[r][u] = "append" => job'[r][u] \in Job
  BY DEF TypeOK, Goes

LEMMA SendType ==
    ASSUME TypeOK, NEW s \in Sides, NEW t \in Threads, NEW o \in Direct \cup {"buffer"},
           NEW n \in Nat, o # "buffer" => n > 0, Send(s, t, o, n)
    PROVE  TypeOK'
  <1>1. Meant(s, o, n) \in Message /\ NativePayload(o, Meant(s, o, n)) \in Message
    <2>1. o = "bytes" => Meant(s, o, n).len > 0
      BY DEF Meant
    <2>2. QED
      BY <2>1, MeantType, NativeType
  <1>2. left' \in [{"calls", "connections"} -> Nat]
    BY SpendType DEF Send
  <1>3. given' \in [Sides -> Nat]
    BY DEF Send, Gives, TypeOK
  <1>4. CASE UNCHANGED <<pc, job>>
    BY <1>2, <1>3, <1>4 DEF Send, TypeOK
  <1>5. CASE /\ Goes(s, t, "append")
             /\ job' = [job EXCEPT ![s][t] =
                           [meant |-> Meant(s, o, n), sends |-> NativePayload(o, Meant(s, o, n))]]
    <2>1. [meant |-> Meant(s, o, n), sends |-> NativePayload(o, Meant(s, o, n))] \in Job
      BY <1>1 DEF Job
    <2>2. /\ job' \in [Sides -> [Threads -> Job \cup {<<>>}]]
          /\ \A r \in Sides, u \in Threads : pc'[r][u] = "append" => job'[r][u] \in Job
      BY <1>5, <2>1 DEF TypeOK, Goes
    <2>3. pc' \in [Sides -> [Threads -> {"idle", "callback", "append", "clear", "stuck"}]]
      BY <1>5, GoesType
    <2>4. QED
      BY <1>2, <1>3, <2>2, <2>3 DEF Send, TypeOK
  <1>6. QED
    BY <1>4, <1>5 DEF Send

LEMMA BrowserSendType ==
    ASSUME TypeOK, NEW t \in Threads, NEW o \in Direct \cup {"buffer"}, NEW n \in Nat,
           BrowserSend(t, o, n)
    PROVE  TypeOK'
  <1> DEFINE s == "client"
  <1>1. s \in Sides
    BY DEF Sides
  <1>2. Meant(s, o, n) \in Message /\ BrowserPayload(o, Meant(s, o, n)) \in Message
    BY <1>1, MeantType, BrowserType
  <1>3. left' \in [{"calls", "connections"} -> Nat]
    BY SpendType DEF BrowserSend
  <1>4. given' \in [Sides -> Nat]
    BY <1>1 DEF BrowserSend, Gives, TypeOK
  <1>5. /\ out' \in [Sides -> [first : Nat \ {0}, len : Nat]]
        /\ sent' \in [Sides -> Seq(Message)]
        /\ wire' \in [Sides -> Seq(Message)]
    <2>1. CASE UNCHANGED <<out, sent, wire>>
      BY <2>1 DEF TypeOK
    <2>2. CASE /\ out' = IF o = "buffer" THEN Cleared(s) ELSE out
               /\ sent' = [sent EXCEPT ![s] = Append(sent[s], Meant(s, o, n))]
               /\ wire' = IF state[s] = "open"
                          THEN [wire EXCEPT ![s] =
                                   Append(wire[s], BrowserPayload(o, Meant(s, o, n)))]
                          ELSE wire
      <3>1. /\ Append(sent[s], Meant(s, o, n)) \in Seq(Message)
            /\ Append(wire[s], BrowserPayload(o, Meant(s, o, n))) \in Seq(Message)
        BY <1>1, <1>2 DEF TypeOK
      <3>2. out' \in [Sides -> [first : Nat \ {0}, len : Nat]]
        BY <1>1, <2>2, ClearedType DEF TypeOK
      <3>3. QED
        BY <1>1, <2>2, <3>1, <3>2 DEF TypeOK
    <2>3. QED
      BY <2>1, <2>2 DEF BrowserSend
  <1>6. QED
    BY <1>3, <1>4, <1>5 DEF BrowserSend, TypeOK

LEMMA SendingType ==
    ASSUME TypeOK, NEW s \in Sides, NEW t \in Threads,
           AppendFrame(s, t) \/ AppendFails(s, t) \/ Clear(s, t)
    PROVE  TypeOK'
  <1>1. Free(t) \in {"idle", "callback"}
    BY DEF Free
  <1>2. CASE AppendFrame(s, t)
    <2>1. PICK label \in {"idle", "callback", "clear"} : Goes(s, t, label)
      BY <1>1, <1>2 DEF AppendFrame
    <2>2. job[s][t].meant \in Message /\ job[s][t].sends \in Message
      BY <1>2 DEF AppendFrame, TypeOK, Job
    <2>3. wire' \in [Sides -> Seq(Message)] /\ sent' \in [Sides -> Seq(Message)]
      <3>1. CASE state[s] = "closed"
        BY <1>2, <3>1 DEF AppendFrame, TypeOK
      <3>2. CASE state[s] # "closed"
        <4>1. /\ Append(wire[s], job[s][t].sends) \in Seq(Message)
              /\ Append(sent[s], job[s][t].meant) \in Seq(Message)
          BY <2>2 DEF TypeOK
        <4>2. /\ wire' = [wire EXCEPT ![s] = Append(wire[s], job[s][t].sends)]
              /\ sent' = [sent EXCEPT ![s] = Append(sent[s], job[s][t].meant)]
          BY <1>2, <3>2 DEF AppendFrame
        <4>3. QED
          BY <4>1, <4>2 DEF TypeOK
      <3>3. QED
        BY <3>1, <3>2
    <2>4. QED
      BY <1>2, <2>1, <2>3, GoesType, DoneType DEF AppendFrame, TypeOK
  <1>3. CASE AppendFails(s, t)
    <2>1. state' \in [Sides -> {"closed", "connecting", "open", "closing"}]
      BY <1>3 DEF AppendFails, TypeOK
    <2>2. QED
      BY <1>1, <1>3, <2>1, GoesType, DoneType DEF AppendFails, TypeOK
  <1>4. CASE Clear(s, t)
    BY <1>1, <1>4, GoesType, JobsKept, ClearedType DEF Clear, TypeOK
  <1>5. QED
    BY <1>2, <1>3, <1>4

LEMMA TakeType ==
    ASSUME TypeOK, NEW s \in Sides, Take(s)
    PROVE  TypeOK'
  <1> DEFINE p == Peer(s)
             m == Head(wire[p])
  <1>1. p \in Sides /\ wire[p] \in Seq(Message) /\ wire[p] # <<>>
    BY DEF Take, Peer, Sides, TypeOK
  <1>2. m \in Message /\ Tail(wire[p]) \in Seq(Message)
    BY <1>1
  <1>3. wire' \in [Sides -> Seq(Message)]
    BY <1>1, <1>2 DEF Take, TypeOK
  <1>4. /\ pc' \in [Sides -> [Threads -> {"idle", "callback", "append", "clear", "stuck"}]]
        /\ \A r \in Sides, u \in Threads : pc'[r][u] = "append" => job'[r][u] \in Job
    BY GoesType, JobsKept DEF Take, Threads
  <1>5. CASE UNCHANGED <<got, seen>>
    BY <1>3, <1>4, <1>5 DEF Take, TypeOK
  <1>6. CASE /\ got' = [got EXCEPT ![s] = Append(@, [m EXCEPT !.len = Set(Arrives(s, m))])]
             /\ seen' = IF m.buffer THEN [seen EXCEPT ![p] = m.first + m.len - 1] ELSE seen
    <2>1. Arrives(s, m) \in Nat
      BY <1>2 DEF Arrives, Message
    <2>2. Set(Arrives(s, m)) \in Nat
      BY <2>1 DEF Set
    <2>3. [m EXCEPT !.len = Set(Arrives(s, m))] \in Message
      BY <1>2, <2>2 DEF Message
    <2>4. got' \in [Sides -> Seq(Message)]
      BY <1>6, <2>3 DEF TypeOK
    <2>5. seen' \in [Sides -> Nat]
      <3>1. m.first + m.len - 1 \in Nat
        BY <1>2 DEF Message
      <3>2. QED
        BY <1>1, <1>6, <3>1 DEF TypeOK
    <2>6. QED
      BY <1>3, <1>4, <2>4, <2>5 DEF Take, TypeOK
  <1>7. QED
    BY <1>5, <1>6 DEF Take

LEMMA InitType ==
    ASSUME Init
    PROVE  TypeOK
  BY MessagesAssumption DEF Init, TypeOK, Sides, Threads

LEMMA StepType ==
    ASSUME TypeOK, [Next]_vars
    PROVE  TypeOK'
  <1>1. CASE UNCHANGED vars
    BY <1>1 DEF vars, TypeOK
  <1>2. ASSUME NEW s \in Sides, Application(s)
        PROVE  TypeOK'
    <2>1. ASSUME NEW t \in Threads, NEW n \in Chunks, Push(s, t, n)
          PROVE  TypeOK'
      <3>1. n \in Nat
        BY MessagesAssumption
      <3>2. left' \in [{"calls", "connections"} -> Nat]
        BY <2>1, SpendType DEF Push
      <3>3. out' \in [Sides -> [first : Nat \ {0}, len : Nat]]
        <4>1. out' = [out EXCEPT ![s] = [out[s] EXCEPT !.len = out[s].len + n]]
          BY <2>1 DEF Push
        <4>2. out[s] \in [first : Nat \ {0}, len : Nat]
          BY DEF TypeOK
        <4>3. out[s].len + n \in Nat
          BY <3>1, <4>2
        <4>4. [out[s] EXCEPT !.len = out[s].len + n] \in [first : Nat \ {0}, len : Nat]
          BY <4>2, <4>3
        <4>5. QED
          BY <4>1, <4>4 DEF TypeOK
      <3>4. QED
        BY <2>1, <3>2, <3>3 DEF Push, TypeOK
    <2>2. \A n \in Sizes : n \in Nat /\ n > 0
      BY MessagesAssumption
    <2>3. QED
      BY <1>2, <2>1, <2>2, SendType DEF Application, Direct
  <1>3. CASE BrowserApplication
    <2>1. \A n \in Sizes : n \in Nat
      BY MessagesAssumption
    <2>2. QED
      BY <1>3, <2>1, BrowserSendType DEF BrowserApplication
  <1>4. ASSUME NEW s \in Sides, Sending(s)
        PROVE  TypeOK'
    BY <1>4, SendingType DEF Sending
  <1>5. ASSUME NEW s \in Sides, Take(s)
        PROVE  TypeOK'
    BY <1>5, TakeType
  <1>6. ASSUME NEW s \in Sides, Return(s)
        PROVE  TypeOK'
    BY <1>6, GoesType, JobsKept DEF Return, TypeOK, Threads
  <1>7. CASE Network
    <2>1. CASE Start
      <3>1. "server" \in Sides
        BY DEF Sides
      <3>2. /\ out' \in [Sides -> [first : Nat \ {0}, len : Nat]]
            /\ left' \in [{"calls", "connections"} -> Nat]
        BY <2>1, <3>1, SpendType, ClearedType DEF Start
      <3>3. /\ state' \in [Sides -> {"closed", "connecting", "open", "closing"}]
            /\ wire' \in [Sides -> Seq(Message)]
            /\ sent' \in [Sides -> Seq(Message)]
            /\ got' \in [Sides -> Seq(Message)]
        BY <2>1 DEF Start
      <3>4. QED
        BY <2>1, <3>2, <3>3 DEF Start, TypeOK
    <2>2. ASSUME NEW s \in Sides, Open(s)
          PROVE  TypeOK'
      <3>1. state' \in [Sides -> {"closed", "connecting", "open", "closing"}]
        BY <2>2 DEF Open, TypeOK
      <3>2. QED
        BY <2>2, <3>1, GoesType, JobsKept DEF Open, TypeOK, Threads
    <2>3. ASSUME NEW s \in Sides, Closing(s) \/ Closed(s)
          PROVE  TypeOK'
      BY <2>3 DEF Closing, Closed, TypeOK
    <2>4. QED
      BY <1>7, <2>1, <2>2, <2>3 DEF Network
  <1>8. QED
    BY <1>1, <1>2, <1>3, <1>4, <1>5, <1>6, <1>7 DEF Next, Idle

(***************************************************************************)
(* The variables of the data path keep their types.                        *)
(***************************************************************************)
THEOREM TypeCorrect == Spec => []TypeOK
  BY InitType, StepType, PTL DEF Spec

-----------------------------------------------------------------------------
(* What the application must keep to, and the invariant that then holds.   *)

\* Lengths a uint8_t can count, the overloads that send what they are given
\* and as the kind it is, and one thread at a buffer.
Careful ==
    /\ MaxSize <= 255
    /\ "bytes" \notin Overloads["native"] \cup Overloads["server"]
    /\ "string" \notin Overloads["browser"] \cup Overloads["server"]
    /\ \A s \in Sides : \A t, u \in BufferUsers[s] : t = u

Short(s, m) == m.len <= 255 /\ (s = "server" => ~m.text)

Wires == \A s \in Sides : \A i \in 1 .. Len(wire[s]) : Short(s, wire[s][i])

Buffers == \A s \in Sides : out[s].len <= MaxSize

Jobs ==
    \A s \in Sides, t \in Threads :
        /\ pc[s][t] = "append" =>
              /\ job[s][t].sends = job[s][t].meant
              /\ Short(s, job[s][t].sends)
              /\ job[s][t].meant.buffer =>
                    /\ job[s][t].meant.first = out[s].first
                    /\ job[s][t].meant.len = out[s].len
                    /\ t \in BufferUsers[s]
        /\ pc[s][t] = "clear" => t \in BufferUsers[s]
        /\ pc[s][t] \in {"append", "clear"} => ~Browser(s)

\* As long as a message can still be taken, nothing is missing.
Exact(s) == ~Browser(s) \/ state[s] \in {"connecting", "open"} =>
                sent[s] = got[Peer(s)] \o wire[s]

Told == \A s \in Sides : Exact(s) /\ Prefix(got[Peer(s)] \o wire[s], sent[s])

\* The first byte of the buffer that no message has taken yet.
Fresh(s) ==
    IF \E t \in Threads : pc[s][t] = "clear" THEN out[s].first + out[s].len ELSE out[s].first

After(m) == m.first + m.len

\* The messages of the buffer on the wire are in line behind what was seen.
InLine(s) ==
    /\ seen[s] < Fresh(s)
    /\ \A i \in 1 .. Len(wire[s]) :
          wire[s][i].buffer =>
              /\ seen[s] < wire[s][i].first
              /\ After(wire[s][i]) <= Fresh(s)
              /\ \A j \in 1 .. Len(wire[s]) :
                    i < j /\ wire[s][j].buffer => After(wire[s][i]) <= wire[s][j].first

Lines == \A s \in Sides : InLine(s)

DataInv == TypeOK /\ Wires /\ Buffers /\ Jobs /\ Told /\ Lines

-----------------------------------------------------------------------------
(* Sequences.                                                              *)

LEMMA AppendRight ==
    ASSUME NEW a \in Seq(Message), NEW b \in Seq(Message), NEW x \in Message
    PROVE  a \o Append(b, x) = Append(a \o b, x)
  <1>1. Append(b, x) \in Seq(Message) /\ a \o b \in Seq(Message)
    OBVIOUS
  <1>2. Append(a \o b, x) \in Seq(Message) /\ a \o Append(b, x) \in Seq(Message)
    BY <1>1
  <1>3. Len(a \o Append(b, x)) = Len(Append(a \o b, x))
    BY <1>1
  <1>4. \A i \in 1 .. Len(a \o Append(b, x)) : (a \o Append(b, x))[i] = Append(a \o b, x)[i]
    BY <1>1
  <1>5. QED
    BY <1>2, <1>3, <1>4, SeqEqual

LEMMA MoveHead ==
    ASSUME NEW a \in Seq(Message), NEW b \in Seq(Message), b # <<>>
    PROVE  Append(a, Head(b)) \o Tail(b) = a \o b
  <1>1. Head(b) \in Message /\ Tail(b) \in Seq(Message) /\ Len(b) \in Nat \ {0}
    OBVIOUS
  <1>2. Append(a, Head(b)) \in Seq(Message)
    BY <1>1
  <1>3. Append(a, Head(b)) \o Tail(b) \in Seq(Message) /\ a \o b \in Seq(Message)
    BY <1>1, <1>2
  <1>4. Len(Append(a, Head(b)) \o Tail(b)) = Len(a \o b)
    BY <1>1, <1>2
  <1>5. \A i \in 1 .. Len(a \o b) : (Append(a, Head(b)) \o Tail(b))[i] = (a \o b)[i]
    BY <1>1, <1>2
  <1>6. QED
    BY <1>3, <1>4, <1>5, SeqEqual

LEMMA PrefixAppend ==
    ASSUME NEW a \in Seq(Message), NEW b \in Seq(Message), NEW x \in Message, Prefix(a, b)
    PROVE  Prefix(a, Append(b, x))
  BY DEF Prefix

LEMMA PrefixSelf ==
    ASSUME NEW a \in Seq(Message)
    PROVE  Prefix(a, a)
  BY DEF Prefix

-----------------------------------------------------------------------------
(* The steps.                                                              *)

\* A step that moves no message.
LEMMA StillOK ==
    ASSUME DataInv,
           UNCHANGED <<platform, wire, sent, got, seen>>,
           \A s \in Sides : Fresh(s)' = Fresh(s),
           \A s \in Sides : state'[s] \in {"connecting", "open"} =>
                                state[s] \in {"connecting", "open"}
    PROVE  Wires' /\ Told' /\ Lines'
  <1>1. Wires'
    BY DEF DataInv, Wires, Short
  <1>2. Told'
    BY DEF DataInv, Told, Exact, Browser
  <1>3. Lines'
    BY DEF DataInv, Lines, InLine, After
  <1>4. QED
    BY <1>1, <1>2, <1>3

\* A thread that goes somewhere else leaves the others' jobs.
LEMMA JobsOK ==
    ASSUME DataInv, NEW s \in Sides, NEW t \in Threads, NEW label, Goes(s, t, label),
           label \notin {"append", "clear"},
           UNCHANGED <<platform, out>>, job' = job \/ Done(s, t)
    PROVE  Jobs'
  <1>1. ASSUME NEW r \in Sides, NEW u \in Threads, pc'[r][u] \in {"append", "clear"}
        PROVE  pc[r][u] = pc'[r][u] /\ job'[r][u] = job[r][u]
    BY <1>1 DEF Goes, Done, DataInv, TypeOK
  <1>2. QED
    BY <1>1 DEF DataInv, Jobs, Short, Browser

\* Where a thread that is not at "clear" goes, without being there.
LEMMA FreshStays ==
    ASSUME DataInv, NEW s \in Sides, NEW t \in Threads, NEW label, Goes(s, t, label),
           pc[s][t] # "clear", label # "clear", out' = out
    PROVE  \A r \in Sides : Fresh(r)' = Fresh(r)
  <1>1. \A r \in Sides, u \in Threads : pc'[r][u] = "clear" <=> pc[r][u] = "clear"
    BY DEF Goes, DataInv, TypeOK
  <1>2. QED
    BY <1>1 DEF Fresh

\* The thread that uses the buffer is the only one: no other is at "clear".
LEMMA OneAtBuffer ==
    ASSUME Careful, DataInv, NEW s \in Sides, NEW t \in BufferUsers[s], t \in Threads,
           pc[s][t] # "clear"
    PROVE  Fresh(s) = out[s].first
  <1>1. \A u \in Threads : pc[s][u] = "clear" => u = t
    BY DEF Careful, DataInv, Jobs
  <1>2. QED
    BY <1>1 DEF Fresh

LEMMA PushOK ==
    ASSUME Careful, DataInv, TypeOK', NEW s \in Sides, NEW t \in Threads, NEW n \in Nat,
           Push(s, t, n)
    PROVE  DataInv'
  <1>1. /\ pc[s][t] \in {"idle", "callback"} /\ t \in BufferUsers[s]
        /\ out' = [out EXCEPT ![s] = [out[s] EXCEPT !.len = out[s].len + n]]
        /\ out[s].len + n <= MaxSize
    BY DEF Push, Runs, Free
  <1>2. /\ out'[s].first = out[s].first /\ out'[s].len = out[s].len + n
        /\ \A r \in Sides \ {s} : out'[r] = out[r]
    BY <1>1 DEF DataInv, TypeOK
  <1>3. \A u \in Threads : pc[s][u] # "clear" /\ (pc[s][u] = "append" => ~job[s][u].meant.buffer)
    BY <1>1 DEF Careful, DataInv, Jobs
  <1>4. \A r \in Sides : Fresh(r)' = Fresh(r)
    BY <1>2, <1>3 DEF Fresh, Push
  <1>5. Wires' /\ Told' /\ Lines'
    BY <1>4, StillOK DEF Push
  <1>6. Buffers'
    BY <1>1, <1>2 DEF DataInv, Buffers
  <1>7. Jobs'
    BY <1>2, <1>3 DEF Push, DataInv, Jobs, Short, Browser
  <1>8. QED
    BY <1>5, <1>6, <1>7 DEF DataInv

LEMMA MeantShort ==
    ASSUME Careful, DataInv, NEW s \in Sides, NEW o \in Allowed(s), NEW n \in Nat,
           o # "buffer" => n <= MaxSize, s = "server" => o # "string"
    PROVE  Short(s, Meant(s, o, n)) /\ Meant(s, o, n).len \in Nat
  <1>1. MaxSize \in Nat /\ MaxSize <= 255 /\ out[s].len \in Nat /\ out[s].len <= MaxSize
    BY MessagesAssumption DEF Careful, DataInv, Buffers, TypeOK
  <1>2. CASE o = "buffer"
    BY <1>1, <1>2 DEF Short, Meant
  <1>3. CASE o # "buffer"
    <2>1. Meant(s, o, n).len = n /\ (Meant(s, o, n).text <=> o = "string")
      BY <1>3 DEF Meant
    <2>2. QED
      BY <1>1, <1>3, <2>1 DEF Short
  <1>4. QED
    BY <1>2, <1>3

LEMMA SendOK ==
    ASSUME Careful, DataInv, TypeOK', NEW s \in Sides, NEW t \in Threads,
           NEW o, NEW n \in Nat, Send(s, t, o, n)
    PROVE  DataInv'
  <1>1. /\ pc[s][t] \in {"idle", "callback"} /\ ~Browser(s) /\ o \in Allowed(s)
        /\ UNCHANGED <<platform, state, out, wire, sent, got, seen>>
        /\ IF o = "buffer" THEN t \in BufferUsers[s] ELSE n <= MaxSize
    BY DEF Send, Runs, Free
  <1>2. o # "bytes" /\ (s = "server" => o # "string")
    <2>1. CASE s = "server"
      <3>1. o \in Overloads["server"]
        BY <1>1, <2>1 DEF Allowed
      <3>2. QED
        BY <3>1 DEF Careful
    <2>2. CASE s # "server"
      <3>1. s = "client" /\ platform \in {"native", "browser"}
        BY <2>2, MessagesAssumption DEF Sides, DataInv, TypeOK
      <3>2. platform = "native"
        BY <1>1, <3>1 DEF Browser
      <3>3. o \in Overloads["native"]
        BY <1>1, <2>2, <3>2 DEF Allowed
      <3>4. QED
        BY <2>2, <3>3 DEF Careful
    <2>3. QED
      BY <2>1, <2>2
  <1>3. Buffers'
    BY <1>1 DEF DataInv, Buffers
  <1>4. CASE UNCHANGED <<pc, job>>
    <2>1. \A r \in Sides : Fresh(r)' = Fresh(r)
      BY <1>1, <1>4 DEF Fresh
    <2>2. Jobs'
      BY <1>1, <1>4 DEF DataInv, Jobs, Short, Browser
    <2>3. QED
      BY <1>1, <1>3, <2>1, <2>2, StillOK DEF DataInv
  <1>5. CASE /\ Goes(s, t, "append")
             /\ job' = [job EXCEPT ![s][t] =
                           [meant |-> Meant(s, o, n), sends |-> NativePayload(o, Meant(s, o, n))]]
    <2>1. \A r \in Sides : Fresh(r)' = Fresh(r)
      BY <1>1, <1>5, FreshStays
    <2>2. NativePayload(o, Meant(s, o, n)) = Meant(s, o, n)
      BY <1>2 DEF NativePayload
    <2>3. Short(s, Meant(s, o, n))
      BY <1>1, <1>2, MeantShort
    <2>4. pc'[s][t] = "append" /\ job'[s][t] = [meant |-> Meant(s, o, n), sends |-> Meant(s, o, n)]
      BY <1>5, <2>2 DEF Goes, DataInv, TypeOK
    <2>5. Meant(s, o, n).buffer =>
              /\ Meant(s, o, n).first = out[s].first /\ Meant(s, o, n).len = out[s].len
              /\ t \in BufferUsers[s]
      BY <1>1 DEF Meant
    <2>6. ASSUME NEW r \in Sides, NEW u \in Threads, ~(r = s /\ u = t)
          PROVE  pc'[r][u] = pc[r][u] /\ job'[r][u] = job[r][u]
      <3>1. /\ pc \in [Sides -> [Threads -> {"idle", "callback", "append", "clear", "stuck"}]]
            /\ job \in [Sides -> [Threads -> Job \cup {<<>>}]]
        BY DEF DataInv, TypeOK
      <3>2. CASE r = s
        BY <1>5, <2>6, <3>1, <3>2 DEF Goes
      <3>3. CASE r # s
        BY <1>5, <3>1, <3>3 DEF Goes
      <3>4. QED
        BY <3>2, <3>3
    <2>7. Jobs'
      BY <1>1, <2>3, <2>4, <2>5, <2>6 DEF DataInv, Jobs, Short, Browser
    <2>8. QED
      BY <1>1, <1>3, <2>1, <2>7, StillOK DEF DataInv
  <1>6. QED
    BY <1>4, <1>5 DEF Send

\* A message of the buffer takes all that is fresh, and any other nothing.
LEMMA LineGrows ==
    ASSUME DataInv, NEW s \in Sides, NEW m \in Message,
           wire'[s] = Append(wire[s], m), seen' = seen,
           IF m.buffer THEN m.first = Fresh(s) /\ Fresh(s)' = After(m)
                       ELSE Fresh(s)' = Fresh(s)
    PROVE  InLine(s)'
  <1>1. /\ InLine(s) /\ wire[s] \in Seq(Message) /\ seen[s] \in Nat
        /\ out[s].first \in Nat /\ out[s].len \in Nat
    BY DEF DataInv, Lines, TypeOK
  <1>2. Fresh(s) \in Nat
    BY <1>1 DEF Fresh
  <1>3. Fresh(s)' \in Nat /\ Fresh(s) <= Fresh(s)' /\ (m.buffer => After(m) = Fresh(s)')
    BY <1>2 DEF After, Message
  <1>4. /\ Len(wire'[s]) = Len(wire[s]) + 1 /\ wire'[s][Len(wire[s]) + 1] = m
        /\ \A i \in 1 .. Len(wire[s]) : wire'[s][i] = wire[s][i] /\ wire[s][i] \in Message
    BY <1>1
  <1>5. ASSUME NEW i \in 1 .. Len(wire'[s]), wire'[s][i].buffer
        PROVE  seen[s] < wire'[s][i].first /\ After(wire'[s][i]) <= Fresh(s)'
    <2>1. CASE i = Len(wire[s]) + 1
      BY <1>1, <1>3, <1>4, <1>5, <2>1 DEF InLine
    <2>2. CASE i \in 1 .. Len(wire[s])
      <3>1. seen[s] < wire[s][i].first /\ After(wire[s][i]) <= Fresh(s)
        BY <1>1, <1>4, <1>5, <2>2 DEF InLine
      <3>2. After(wire[s][i]) \in Nat
        BY <1>4, <2>2 DEF After, Message
      <3>3. QED
        BY <1>2, <1>3, <1>4, <2>2, <3>1, <3>2
    <2>3. QED
      BY <1>1, <1>4, <2>1, <2>2
  <1>6. ASSUME NEW i \in 1 .. Len(wire'[s]), NEW j \in 1 .. Len(wire'[s]),
               i < j, wire'[s][i].buffer, wire'[s][j].buffer
        PROVE  After(wire'[s][i]) <= wire'[s][j].first
    <2>1. i \in 1 .. Len(wire[s])
      BY <1>1, <1>4, <1>6
    <2>2. CASE j = Len(wire[s]) + 1
      BY <1>1, <1>4, <1>6, <2>1, <2>2 DEF InLine
    <2>3. CASE j \in 1 .. Len(wire[s])
      BY <1>1, <1>4, <1>6, <2>1, <2>3 DEF InLine
    <2>4. QED
      BY <1>1, <1>4, <2>2, <2>3
  <1>7. seen[s] < Fresh(s)'
    BY <1>1, <1>2, <1>3 DEF InLine
  <1>8. QED
    BY <1>5, <1>6, <1>7 DEF InLine, After

LEMMA LineLoose ==
    ASSUME DataInv, NEW s \in Sides, UNCHANGED <<wire, seen>>,
           Fresh(s) <= Fresh(s)', Fresh(s)' \in Nat
    PROVE  InLine(s)'
  <1>1. /\ InLine(s) /\ wire[s] \in Seq(Message) /\ seen[s] \in Nat
        /\ out[s].first \in Nat /\ out[s].len \in Nat
    BY DEF DataInv, Lines, TypeOK
  <1>2. Fresh(s) \in Nat
    BY <1>1 DEF Fresh
  <1>3. \A i \in 1 .. Len(wire[s]) : After(wire[s][i]) \in Nat
    <2>1. \A x \in Message : After(x) \in Nat
      BY DEF After, Message
    <2>2. \A i \in 1 .. Len(wire[s]) : wire[s][i] \in Message
      BY <1>1
    <2>3. QED
      BY <2>1, <2>2
  <1>4. QED
    BY <1>1, <1>2, <1>3 DEF InLine, After

LEMMA WireGrows ==
    ASSUME DataInv, NEW s \in Sides, NEW m \in Message, Short(s, m),
           wire'[s] = Append(wire[s], m), \A r \in Sides \ {s} : wire'[r] = wire[r]
    PROVE  Wires'
  <1>1. ASSUME NEW i \in 1 .. Len(wire'[s])
        PROVE  Short(s, wire'[s][i])
    <2>1. wire[s] \in Seq(Message)
      BY DEF DataInv, TypeOK
    <2>2. IF i \in 1 .. Len(wire[s]) THEN wire'[s][i] = wire[s][i] ELSE wire'[s][i] = m
      BY <2>1
    <2>3. QED
      BY <2>2 DEF DataInv, Wires
  <1>2. QED
    BY <1>1 DEF DataInv, Wires, Short

\* A message that is sent while nothing is missing.
LEMMA ToldGrows ==
    ASSUME DataInv, NEW s \in Sides, NEW m \in Message,
           ~Browser(s) \/ state[s] \in {"connecting", "open"},
           wire'[s] = Append(wire[s], m), sent'[s] = Append(sent[s], m), got' = got
    PROVE  sent'[s] = got'[Peer(s)] \o wire'[s] /\ Prefix(got'[Peer(s)] \o wire'[s], sent'[s])
  <1>1. /\ Peer(s) \in Sides /\ got[Peer(s)] \in Seq(Message)
        /\ wire[s] \in Seq(Message)
    BY DEF DataInv, TypeOK, Peer, Sides
  <1>2. sent[s] = got[Peer(s)] \o wire[s]
    BY DEF DataInv, Told, Exact
  <1>3. sent'[s] = got'[Peer(s)] \o wire'[s]
    <2>1. got[Peer(s)] \o Append(wire[s], m) = Append(got[Peer(s)] \o wire[s], m)
      BY <1>1, AppendRight
    <2>2. QED
      BY <1>2, <2>1
  <1>4. sent'[s] \in Seq(Message)
    BY <1>1, <1>2
  <1>5. QED
    BY <1>3, <1>4, PrefixSelf

LEMMA AppendFrameOK ==
    ASSUME Careful, DataInv, TypeOK', NEW s \in Sides, NEW t \in Threads, AppendFrame(s, t)
    PROVE  DataInv'
  <1>1. /\ pc[s][t] = "append" /\ Done(s, t)
        /\ UNCHANGED <<platform, state, out, given, got, seen, left>>
    BY DEF AppendFrame
  <1>2. Buffers'
    BY <1>1 DEF DataInv, Buffers
  <1>3. Free(t) \in {"idle", "callback"}
    BY DEF Free
  <1>4. CASE state[s] = "closed"
    <2>1. Goes(s, t, Free(t)) /\ UNCHANGED <<wire, sent>>
      BY <1>4 DEF AppendFrame
    <2>2. \A r \in Sides : Fresh(r)' = Fresh(r)
      BY <1>1, <1>3, <2>1, FreshStays
    <2>3. Jobs'
      BY <1>1, <1>3, <2>1, JobsOK
    <2>4. QED
      BY <1>1, <1>2, <2>1, <2>2, <2>3, StillOK DEF DataInv
  <1>5. CASE state[s] # "closed"
    <2> DEFINE m == job[s][t].meant
    <2>1. /\ m \in Message /\ job[s][t].sends = m /\ Short(s, m) /\ ~Browser(s)
          /\ m.buffer => m.first = out[s].first /\ m.len = out[s].len /\ t \in BufferUsers[s]
      BY <1>1 DEF DataInv, TypeOK, Jobs, Job
    <2>2. /\ wire' = [wire EXCEPT ![s] = Append(wire[s], m)]
          /\ sent' = [sent EXCEPT ![s] = Append(sent[s], m)]
          /\ Goes(s, t, IF m.buffer THEN "clear" ELSE Free(t))
      BY <1>5, <2>1 DEF AppendFrame
    <2>3. /\ wire'[s] = Append(wire[s], m) /\ sent'[s] = Append(sent[s], m)
          /\ \A r \in Sides \ {s} : wire'[r] = wire[r] /\ sent'[r] = sent[r]
      BY <2>2 DEF DataInv, TypeOK
    <2> HIDE DEF m
    <2>4. Wires'
      BY <2>1, <2>3, WireGrows
    <2>5. Told'
      <3>1. sent'[s] = got'[Peer(s)] \o wire'[s] /\ Prefix(got'[Peer(s)] \o wire'[s], sent'[s])
        BY <1>1, <2>1, <2>3, ToldGrows
      <3>2. QED
        BY <1>1, <2>3, <3>1 DEF DataInv, Told, Exact, Browser
    <2>6. CASE m.buffer
      <3>1. Goes(s, t, "clear")
        BY <2>2, <2>6
      <3>2. /\ pc'[s][t] = "clear"
            /\ \A r \in Sides, u \in Threads : r # s => pc'[r][u] = pc[r][u]
        BY <3>1 DEF Goes, DataInv, TypeOK
      <3>3. Fresh(s) = out[s].first /\ Fresh(s)' = After(m)
        BY <1>1, <2>1, <2>6, <3>2, OneAtBuffer DEF Fresh, After
      <3>4. \A r \in Sides \ {s} : Fresh(r)' = Fresh(r)
        BY <1>1, <3>2 DEF Fresh
      <3>5. Lines'
        <4>1. InLine(s)'
          BY <1>1, <2>1, <2>3, <2>6, <3>3, LineGrows
        <4>2. \A r \in Sides \ {s} : InLine(r)'
          BY <1>1, <2>3, <3>4 DEF DataInv, Lines, InLine, After
        <4>3. QED
          BY <4>1, <4>2 DEF Lines
      <3>6. ASSUME NEW r \in Sides, NEW u \in Threads, ~(r = s /\ u = t)
            PROVE  pc'[r][u] = pc[r][u] /\ job'[r][u] = job[r][u]
        <4>1. /\ pc \in [Sides -> [Threads -> {"idle", "callback", "append", "clear", "stuck"}]]
              /\ job \in [Sides -> [Threads -> Job \cup {<<>>}]]
          BY DEF DataInv, TypeOK
        <4>2. CASE r = s
          BY <1>1, <3>1, <3>6, <4>1, <4>2 DEF Goes, Done
        <4>3. CASE r # s
          BY <1>1, <3>1, <4>1, <4>3 DEF Goes, Done
        <4>4. QED
          BY <4>2, <4>3
      <3>7. Jobs'
        BY <1>1, <2>1, <2>6, <3>2, <3>6 DEF DataInv, Jobs, Short, Browser
      <3>8. QED
        BY <1>2, <2>4, <2>5, <3>5, <3>7 DEF DataInv
    <2>7. CASE ~m.buffer
      <3>1. Goes(s, t, Free(t))
        BY <2>2, <2>7
      <3>2. \A r \in Sides : Fresh(r)' = Fresh(r)
        BY <1>1, <1>3, <3>1, FreshStays
      <3>3. Lines'
        <4>1. InLine(s)'
          BY <1>1, <2>1, <2>3, <2>7, <3>2, LineGrows
        <4>2. \A r \in Sides \ {s} : InLine(r)'
          BY <1>1, <2>3, <3>2 DEF DataInv, Lines, InLine, After
        <4>3. QED
          BY <4>1, <4>2 DEF Lines
      <3>4. Jobs'
        BY <1>1, <1>3, <3>1, JobsOK
      <3>5. QED
        BY <1>2, <2>4, <2>5, <3>3, <3>4 DEF DataInv
    <2>8. QED
      BY <2>6, <2>7
  <1>6. QED
    BY <1>4, <1>5

LEMMA AppendFailsOK ==
    ASSUME DataInv, TypeOK', NEW s \in Sides, NEW t \in Threads, AppendFails(s, t)
    PROVE  DataInv'
  <1>1. /\ pc[s][t] = "append" /\ Goes(s, t, Free(t)) /\ Done(s, t)
        /\ UNCHANGED <<platform, out, wire, sent, got, seen>>
        /\ state' = [state EXCEPT ![s] = "closed"]
    BY DEF AppendFails
  <1>2. Free(t) \in {"idle", "callback"}
    BY DEF Free
  <1>3. Jobs'
    BY <1>1, <1>2, JobsOK
  <1>4. \A r \in Sides : Fresh(r)' = Fresh(r)
    BY <1>1, <1>2, FreshStays
  <1>5. \A r \in Sides : state'[r] \in {"connecting", "open"} => state[r] \in {"connecting", "open"}
    BY <1>1 DEF DataInv, TypeOK
  <1>6. Wires' /\ Told' /\ Lines'
    BY <1>1, <1>4, <1>5, StillOK
  <1>7. QED
    BY <1>1, <1>3, <1>6 DEF DataInv, Buffers

LEMMA ClearOK ==
    ASSUME Careful, DataInv, TypeOK', NEW s \in Sides, NEW t \in Threads, Clear(s, t)
    PROVE  DataInv'
  <1>1. /\ pc[s][t] = "clear" /\ Goes(s, t, Free(t)) /\ out' = Cleared(s)
        /\ UNCHANGED <<platform, state, job, wire, sent, got, seen>>
    BY DEF Clear
  <1>2. Free(t) \in {"idle", "callback"}
    BY DEF Free
  <1>3. /\ out'[s].first = out[s].first + out[s].len /\ out'[s].len = 0
        /\ \A r \in Sides \ {s} : out'[r] = out[r]
    BY <1>1 DEF Cleared, DataInv, TypeOK
  <1>4. /\ \A u \in Threads : pc'[s][u] # "clear"
        /\ \A u \in Threads : pc'[s][u] = "append" => u # t /\ pc[s][u] = "append"
        /\ \A r \in Sides \ {s} : pc'[r] = pc[r]
    <2>1. \A u \in Threads : pc[s][u] = "clear" => u = t
      BY <1>1 DEF Careful, DataInv, Jobs
    <2>2. QED
      BY <1>1, <1>2, <2>1 DEF Goes, DataInv, TypeOK
  <1>5. \A r \in Sides : Fresh(r)' = Fresh(r)
    BY <1>1, <1>3, <1>4 DEF Fresh
  <1>6. Wires' /\ Told' /\ Lines'
    BY <1>1, <1>5, StillOK
  <1>7. Buffers'
    BY <1>3, MessagesAssumption DEF DataInv, Buffers
  <1>8. \A u \in Threads : pc'[s][u] = "append" => ~job[s][u].meant.buffer
    BY <1>1, <1>4 DEF Careful, DataInv, Jobs
  <1>9. Jobs'
    BY <1>1, <1>3, <1>4, <1>8 DEF DataInv, Jobs, Short, Browser
  <1>10. QED
    BY <1>6, <1>7, <1>9 DEF DataInv

LEMMA BrowserSendOK ==
    ASSUME Careful, DataInv, TypeOK', NEW t \in Threads, NEW o, NEW n \in Nat,
           BrowserSend(t, o, n)
    PROVE  DataInv'
  <1> DEFINE s == "client"
             m == Meant(s, o, n)
  <1>1. /\ s \in Sides /\ Browser(s) /\ o \in Allowed(s)
        /\ UNCHANGED <<platform, state, pc, job, got, seen>>
        /\ o # "buffer" => n <= MaxSize
    BY DEF Sides, BrowserSend
  <1>2. o # "string"
    BY <1>1 DEF Allowed, Careful, Browser
  <1>3. m \in Message /\ Short(s, m) /\ ~m.text /\ m.len \in Nat
    <2>1. Short(s, m) /\ m.len \in Nat
      BY <1>1, <1>2, MeantShort
    <2>2. m \in Message /\ ~m.text
      BY <1>1, <1>2, MeantType DEF DataInv, Meant
    <2>3. QED
      BY <2>1, <2>2
  <1>4. BrowserPayload(o, m) = m
    <2>1. m.len % 256 = m.len
      BY <1>3 DEF Short
    <2>2. QED
      BY <1>3, <2>1 DEF BrowserPayload, Message
  <1>5. \A u \in Threads : pc[s][u] \notin {"append", "clear"}
    BY <1>1 DEF DataInv, Jobs
  <1>6. CASE UNCHANGED <<out, sent, wire>>
    <2>1. \A r \in Sides : Fresh(r)' = Fresh(r)
      BY <1>1, <1>6 DEF Fresh
    <2>2. Jobs' /\ Buffers'
      BY <1>1, <1>6 DEF DataInv, Jobs, Buffers, Short, Browser
    <2>3. QED
      BY <1>1, <1>6, <2>1, <2>2, StillOK DEF DataInv
  <1>7. CASE /\ state[s] # "connecting"
             /\ out' = IF o = "buffer" THEN Cleared(s) ELSE out
             /\ sent' = [sent EXCEPT ![s] = Append(sent[s], m)]
             /\ wire' = IF state[s] = "open"
                        THEN [wire EXCEPT ![s] = Append(wire[s], BrowserPayload(o, m))]
                        ELSE wire
    <2>1. /\ \A r \in Sides \ {s} : out'[r] = out[r] /\ sent'[r] = sent[r] /\ wire'[r] = wire[r]
          /\ sent'[s] = Append(sent[s], m)
      BY <1>1, <1>7 DEF Cleared, DataInv, TypeOK
    <2>2. IF m.buffer
          THEN out'[s].len = 0 /\ m.first = out[s].first /\ out'[s].first = After(m)
          ELSE out'[s] = out[s]
      BY <1>1, <1>7 DEF Cleared, Meant, After, DataInv, TypeOK
    <2>3. Fresh(s) = out[s].first /\ Fresh(s)' = out'[s].first
      BY <1>1, <1>5 DEF Fresh
    <2>4. \A r \in Sides \ {s} : Fresh(r)' = Fresh(r)
      BY <1>1, <2>1 DEF Fresh
    <2>5. Buffers'
      BY <1>1, <2>1, <2>2, MessagesAssumption DEF DataInv, Buffers
    <2>6. Jobs'
      BY <1>1, <1>5, <2>1 DEF DataInv, Jobs, Short, Browser
    <2> HIDE DEF m
    <2>7. \A r \in Sides \ {s} : InLine(r)'
      BY <1>1, <2>1, <2>4 DEF DataInv, Lines, InLine, After
    <2>8. \A r \in Sides \ {s} : Exact(r)' /\ Prefix(got'[Peer(r)] \o wire'[r], sent'[r])
      BY <1>1, <2>1 DEF DataInv, Told, Exact, Browser
    <2>9. CASE state[s] = "open"
      <3>1. wire'[s] = Append(wire[s], m)
        BY <1>1, <1>4, <1>7, <2>9 DEF m, DataInv, TypeOK
      <3>2. Wires'
        BY <1>1, <1>3, <2>1, <3>1, WireGrows
      <3>3. sent'[s] = got'[Peer(s)] \o wire'[s] /\ Prefix(got'[Peer(s)] \o wire'[s], sent'[s])
        BY <1>1, <1>3, <2>1, <2>9, <3>1, ToldGrows
      <3>4. Told'
        BY <1>1, <2>8, <3>3 DEF Told, Exact, Browser
      <3>5. InLine(s)'
        BY <1>1, <1>3, <2>2, <2>3, <3>1, LineGrows
      <3>6. QED
        BY <2>5, <2>6, <2>7, <3>2, <3>4, <3>5 DEF DataInv, Lines
    <2>10. CASE state[s] # "open"
      <3>1. wire' = wire
        BY <1>7, <2>10
      <3>2. Wires'
        BY <3>1 DEF DataInv, Wires, Short
      <3>3. Prefix(got'[Peer(s)] \o wire'[s], sent'[s])
        <4>1. Prefix(got[Peer(s)] \o wire[s], sent[s])
          BY <1>1 DEF DataInv, Told
        <4>2. got[Peer(s)] \o wire[s] \in Seq(Message) /\ sent[s] \in Seq(Message)
          BY <1>1 DEF DataInv, TypeOK, Peer, Sides
        <4>3. QED
          BY <1>1, <1>3, <2>1, <3>1, <4>1, <4>2, PrefixAppend
      <3>4. Exact(s)'
        BY <1>1, <1>7, <2>10 DEF Exact, Browser
      <3>5. InLine(s)'
        <4>1. out[s].first \in Nat
          BY <1>1 DEF DataInv, TypeOK
        <4>2. Fresh(s)' \in Nat /\ Fresh(s) <= Fresh(s)'
          <5>1. CASE m.buffer
            <6>1. Fresh(s)' = Fresh(s) + m.len
              BY <2>2, <2>3, <5>1 DEF After
            <6>2. QED
              BY <1>3, <2>3, <4>1, <6>1
          <5>2. CASE ~m.buffer
            BY <2>2, <2>3, <4>1, <5>2
          <5>3. QED
            BY <5>1, <5>2
        <4>3. QED
          BY <1>1, <3>1, <4>2, LineLoose
      <3>6. QED
        BY <2>5, <2>6, <2>7, <2>8, <3>2, <3>3, <3>4, <3>5 DEF DataInv, Lines, Told
    <2>11. QED
      BY <2>9, <2>10
  <1>8. QED
    BY <1>6, <1>7 DEF BrowserSend

\* What is taken was short, so it is given whole; the rest of the wire is in
\* line behind it.
LEMMA TakeOK ==
    ASSUME Careful, DataInv, TypeOK', NEW s \in Sides, Take(s)
    PROVE  DataInv'
  <1> DEFINE p == Peer(s)
             m == Head(wire[p])
  <1>1. /\ p \in Sides /\ p # s /\ Peer(p) = s
        /\ \A r \in Sides : r = s \/ r = p
        /\ wire[p] \in Seq(Message) /\ wire[p] # <<>> /\ pc[s]["loop"] = "idle"
        /\ wire' = [wire EXCEPT ![p] = Tail(wire[p])]
        /\ UNCHANGED <<platform, state, job, out, given, sent, left>>
    BY DEF Take, Peer, Sides, DataInv, TypeOK
  <1>2. /\ m \in Message /\ m = wire[p][1] /\ 1 \in 1 .. Len(wire[p]) /\ Short(p, m)
        /\ Tail(wire[p]) \in Seq(Message)
    <2>1. m \in Message /\ m = wire[p][1] /\ 1 \in 1 .. Len(wire[p]) /\ Tail(wire[p]) \in Seq(Message)
      BY <1>1
    <2>2. QED
      BY <1>1, <2>1 DEF DataInv, Wires
  <1>3. m.len \in Nat /\ m.first \in Nat /\ m.len <= 255
    BY <1>2 DEF Message, Short
  <1>4. Arrives(s, m) = m.len
    <2>1. s = "client" => ~m.text
      BY <1>2 DEF Short, Peer
    <2>2. QED
      BY <2>1 DEF Arrives, Browser
  <1>5. Set(Arrives(s, m)) = m.len /\ SetEnds(Arrives(s, m))
    BY <1>3, <1>4 DEF Set, SetEnds
  <1>6. [m EXCEPT !.len = m.len] = m
    BY <1>2 DEF Message
  <1>7. /\ got' = [got EXCEPT ![s] = Append(got[s], m)]
        /\ seen' = IF m.buffer THEN [seen EXCEPT ![p] = m.first + m.len - 1] ELSE seen
        /\ Goes(s, "loop", "callback")
    BY <1>5, <1>6 DEF Take
  <1> HIDE DEF m
  <1> HIDE DEF p
  <1>8. /\ wire'[p] = Tail(wire[p]) /\ wire'[s] = wire[s]
        /\ got'[s] = Append(got[s], m) /\ got'[p] = got[p]
        /\ seen'[s] = seen[s]
        /\ seen'[p] = IF m.buffer THEN m.first + m.len - 1 ELSE seen[p]
    BY <1>1, <1>7 DEF DataInv, TypeOK
  <1>9. \A r \in Sides : Fresh(r)' = Fresh(r)
    <2>1. "loop" \in Threads
      BY DEF Threads
    <2>2. QED
      BY <1>1, <1>7, <2>1, FreshStays
  <1>10. Jobs'
    <2>1. "loop" \in Threads
      BY DEF Threads
    <2>2. QED
      BY <1>1, <1>7, <2>1, JobsOK
  <1>11. \A i \in 1 .. Len(wire'[p]) : i + 1 \in 1 .. Len(wire[p]) /\ wire'[p][i] = wire[p][i + 1]
    <2>1. Len(wire[p]) \in Nat /\ Len(Tail(wire[p])) = Len(wire[p]) - 1
      BY <1>1
    <2>2. \A i \in 1 .. Len(Tail(wire[p])) : Tail(wire[p])[i] = wire[p][i + 1]
      BY <1>1
    <2>3. QED
      BY <1>8, <2>1, <2>2
  <1>12. Wires'
    <2>1. \A i \in 1 .. Len(wire'[p]) : Short(p, wire'[p][i])
      BY <1>1, <1>11 DEF DataInv, Wires
    <2>2. \A i \in 1 .. Len(wire'[s]) : Short(s, wire'[s][i])
      BY <1>8 DEF DataInv, Wires
    <2>3. QED
      BY <1>1, <2>1, <2>2 DEF Wires, Short
  <1>13. Told'
    <2>1. got'[Peer(p)] \o wire'[p] = got[Peer(p)] \o wire[p]
      <3>1. got[s] \in Seq(Message)
        BY DEF DataInv, TypeOK
      <3>2. Append(got[s], Head(wire[p])) \o Tail(wire[p]) = got[s] \o wire[p]
        BY <1>1, <3>1, MoveHead
      <3>3. QED
        BY <1>1, <1>8, <3>2 DEF m
    <2>2. got'[Peer(s)] \o wire'[s] = got[Peer(s)] \o wire[s]
      BY <1>8 DEF p
    <2>3. \A r \in Sides : got'[Peer(r)] \o wire'[r] = got[Peer(r)] \o wire[r]
      BY <1>1, <2>1, <2>2
    <2>4. QED
      BY <1>1, <2>3 DEF DataInv, Told, Exact, Browser
  <1>14. InLine(s)'
    BY <1>8, <1>9 DEF DataInv, Lines, InLine, After
  <1>15. InLine(p)'
    <2>1. InLine(p) /\ seen[p] \in Nat /\ Fresh(p) \in Nat
      <3>1. InLine(p) /\ seen[p] \in Nat /\ out[p].first \in Nat /\ out[p].len \in Nat
        BY <1>1 DEF DataInv, Lines, TypeOK
      <3>2. QED
        BY <3>1 DEF Fresh
    <2>2. CASE ~m.buffer
      <3>1. seen'[p] = seen[p] /\ Fresh(p)' = Fresh(p)
        BY <1>1, <1>8, <1>9, <2>2
      <3>2. ASSUME NEW i \in 1 .. Len(wire'[p]), wire'[p][i].buffer
            PROVE  seen[p] < wire'[p][i].first /\ After(wire'[p][i]) <= Fresh(p)
        BY <1>11, <2>1, <3>2 DEF InLine
      <3>3. ASSUME NEW i \in 1 .. Len(wire'[p]), NEW j \in 1 .. Len(wire'[p]),
                   i < j, wire'[p][i].buffer, wire'[p][j].buffer
            PROVE  After(wire'[p][i]) <= wire'[p][j].first
        <4>1. /\ i + 1 \in 1 .. Len(wire[p]) /\ wire'[p][i] = wire[p][i + 1]
              /\ j + 1 \in 1 .. Len(wire[p]) /\ wire'[p][j] = wire[p][j + 1] /\ i + 1 < j + 1
          BY <1>11, <3>3
        <4>2. QED
          BY <2>1, <3>3, <4>1 DEF InLine
      <3>4. QED
        BY <2>1, <3>1, <3>2, <3>3 DEF InLine, After
    <2>3. CASE m.buffer
      <3>1. seen'[p] = After(m) - 1 /\ Fresh(p)' = Fresh(p) /\ After(m) \in Nat
        BY <1>1, <1>3, <1>8, <1>9, <2>3 DEF After
      <3>2. After(m) <= Fresh(p)
        BY <1>2, <2>1, <2>3 DEF InLine
      <3>3. ASSUME NEW i \in 1 .. Len(wire'[p]), wire'[p][i].buffer
            PROVE  After(m) <= wire'[p][i].first /\ After(wire'[p][i]) <= Fresh(p)
        <4>1. i + 1 \in 1 .. Len(wire[p]) /\ wire'[p][i] = wire[p][i + 1] /\ 1 < i + 1
          BY <1>11
        <4>2. QED
          BY <1>2, <2>1, <2>3, <3>3, <4>1 DEF InLine
      <3>4. ASSUME NEW i \in 1 .. Len(wire'[p]), NEW j \in 1 .. Len(wire'[p]),
                   i < j, wire'[p][i].buffer, wire'[p][j].buffer
            PROVE  After(wire'[p][i]) <= wire'[p][j].first
        <4>1. /\ i + 1 \in 1 .. Len(wire[p]) /\ wire'[p][i] = wire[p][i + 1]
              /\ j + 1 \in 1 .. Len(wire[p]) /\ wire'[p][j] = wire[p][j + 1] /\ i + 1 < j + 1
          BY <1>11, <3>4
        <4>2. QED
          BY <2>1, <3>4, <4>1 DEF InLine
      <3>5. \A i \in 1 .. Len(wire'[p]) : wire'[p][i].first \in Nat
        <4>1. \A x \in Message : x.first \in Nat
          BY DEF Message
        <4>2. \A i \in 1 .. Len(wire'[p]) : wire'[p][i] \in Message
          BY <1>2, <1>8
        <4>3. QED
          BY <4>1, <4>2
      <3>6. seen'[p] < Fresh(p)'
        BY <2>1, <3>1, <3>2
      <3>7. \A i \in 1 .. Len(wire'[p]) : wire'[p][i].buffer => seen'[p] < wire'[p][i].first
        BY <3>1, <3>3, <3>5
      <3>8. QED
        BY <3>1, <3>3, <3>4, <3>6, <3>7 DEF InLine, After
    <2>4. QED
      BY <2>2, <2>3
  <1>16. QED
    BY <1>1, <1>10, <1>12, <1>13, <1>14, <1>15 DEF DataInv, Buffers, Lines

\* The handlers that return, and the events of the connection.
LEMMA EventOK ==
    ASSUME DataInv, TypeOK', NEW s \in Sides, Return(s) \/ Open(s)
    PROVE  DataInv'
  <1>1. /\ pc[s]["loop"] \in {"idle", "callback"} /\ "loop" \in Threads
        /\ UNCHANGED <<platform, job, out, wire, sent, got, seen>>
        /\ state' = state \/ (state[s] = "connecting" /\ state' = [state EXCEPT ![s] = "open"])
    BY DEF Return, Open, Threads
  <1>2. PICK label \in {"idle", "callback"} : Goes(s, "loop", label)
    BY DEF Return, Open
  <1>3. Jobs'
    BY <1>1, <1>2, JobsOK
  <1>4. \A r \in Sides : Fresh(r)' = Fresh(r)
    BY <1>1, <1>2, FreshStays
  <1>5. \A r \in Sides : state'[r] \in {"connecting", "open"} => state[r] \in {"connecting", "open"}
    BY <1>1 DEF DataInv, TypeOK
  <1>6. Wires' /\ Told' /\ Lines'
    BY <1>1, <1>4, <1>5, StillOK
  <1>7. QED
    BY <1>1, <1>3, <1>6 DEF DataInv, Buffers

LEMMA EndOK ==
    ASSUME DataInv, TypeOK', NEW s \in Sides, Closing(s) \/ Closed(s)
    PROVE  DataInv'
  <1>1. /\ UNCHANGED <<platform, pc, job, out, wire, sent, got, seen>>
        /\ \E new \in {"closing", "closed"} : state' = [state EXCEPT ![s] = new]
    BY DEF Closing, Closed
  <1>2. \A r \in Sides : state'[r] \in {"connecting", "open"} => state[r] \in {"connecting", "open"}
    BY <1>1 DEF DataInv, TypeOK
  <1>3. \A r \in Sides : Fresh(r)' = Fresh(r)
    BY <1>1 DEF Fresh
  <1>4. Wires' /\ Told' /\ Lines'
    BY <1>1, <1>2, <1>3, StillOK
  <1>5. Jobs' /\ Buffers'
    BY <1>1 DEF DataInv, Jobs, Buffers, Short, Browser
  <1>6. QED
    BY <1>4, <1>5 DEF DataInv

\* A new connection has lost what was on the wire, and the server's endpoint
\* what was in its buffer.
LEMMA StartOK ==
    ASSUME DataInv, TypeOK', Start
    PROVE  DataInv'
  <1>1. /\ \A s \in Sides, t \in Threads : pc[s][t] = "idle"
        /\ out' = Cleared("server") /\ "server" \in Sides
        /\ wire' = [s \in Sides |-> <<>>] /\ sent' = [s \in Sides |-> <<>>]
        /\ got' = [s \in Sides |-> <<>>]
        /\ UNCHANGED <<platform, pc, job, given, seen>>
    BY DEF Start, Rests, Sides
  <1>2. /\ out'["server"].first = out["server"].first + out["server"].len
        /\ out'["server"].len = 0
        /\ \A s \in Sides \ {"server"} : out'[s] = out[s]
    BY <1>1 DEF Cleared, DataInv, TypeOK
  <1>3. Wires'
    BY <1>1 DEF Wires
  <1>4. Buffers'
    BY <1>2, MessagesAssumption DEF DataInv, Buffers
  <1>5. Jobs'
    BY <1>1 DEF Jobs
  <1>6. Told'
    <2>1. <<>> \o <<>> = <<>> /\ <<>> \in Seq(Message)
      OBVIOUS
    <2>2. ASSUME NEW s \in Sides
          PROVE  sent'[s] = <<>> /\ got'[Peer(s)] = <<>> /\ wire'[s] = <<>>
      BY <1>1 DEF Peer, Sides
    <2>3. Prefix(<<>>, <<>>)
      BY <2>1, PrefixSelf
    <2>4. QED
      BY <2>1, <2>2, <2>3 DEF Told, Exact
  <1>7. Lines'
    <2>1. ASSUME NEW s \in Sides
          PROVE  InLine(s)'
      <3>1. Fresh(s) = out[s].first /\ Fresh(s)' = out'[s].first /\ InLine(s)
        BY <1>1 DEF Fresh, DataInv, Lines
      <3>2. out[s].first \in Nat /\ out[s].len \in Nat /\ seen[s] \in Nat
        BY DEF DataInv, TypeOK
      <3>3. seen[s] < out'[s].first
        <4>1. seen[s] < out[s].first
          BY <3>1 DEF InLine
        <4>2. CASE s = "server"
          BY <1>2, <3>2, <4>1, <4>2
        <4>3. CASE s # "server"
          BY <1>2, <3>2, <4>1, <4>3
        <4>4. QED
          BY <4>2, <4>3
      <3>4. wire'[s] = <<>> /\ seen' = seen
        BY <1>1
      <3>5. QED
        BY <3>1, <3>3, <3>4 DEF InLine
    <2>2. QED
      BY <2>1 DEF Lines
  <1>8. QED
    BY <1>3, <1>4, <1>5, <1>6, <1>7 DEF DataInv

LEMMA InitData ==
    ASSUME Init
    PROVE  DataInv
  <1>1. TypeOK
    BY InitType
  <1>2. Wires /\ Buffers /\ Jobs
    BY MessagesAssumption DEF Init, Wires, Buffers, Jobs
  <1>3. Told
    <2>1. <<>> \o <<>> = <<>> /\ <<>> \in Seq(Message)
      OBVIOUS
    <2>2. \A s \in Sides : sent[s] = <<>> /\ got[Peer(s)] = <<>> /\ wire[s] = <<>>
      BY DEF Init, Peer, Sides
    <2>3. Prefix(<<>>, <<>>)
      BY <2>1, PrefixSelf
    <2>4. QED
      BY <2>1, <2>2, <2>3 DEF Told, Exact
  <1>4. Lines
    <2>1. \A s \in Sides : Fresh(s) = 1 /\ seen[s] = 0 /\ wire[s] = <<>>
      BY DEF Init, Fresh
    <2>2. QED
      BY <2>1 DEF Lines, InLine
  <1>5. QED
    BY <1>1, <1>2, <1>3, <1>4 DEF DataInv

LEMMA StepData ==
    ASSUME Careful, DataInv, [Next]_vars
    PROVE  DataInv'
  <1>1. TypeOK'
    BY StepType DEF DataInv
  <1>2. CASE UNCHANGED vars
    <2>1. \A s \in Sides : Fresh(s)' = Fresh(s)
      BY <1>2 DEF vars, Fresh
    <2>2. Wires' /\ Told' /\ Lines'
      BY <1>2, <2>1, StillOK DEF vars
    <2>3. Jobs' /\ Buffers'
      BY <1>2 DEF vars, DataInv, Jobs, Buffers, Short, Browser
    <2>4. QED
      BY <1>1, <2>2, <2>3 DEF DataInv
  <1>3. ASSUME NEW s \in Sides, Application(s)
        PROVE  DataInv'
    <2>1. \A n \in Chunks \cup Sizes : n \in Nat
      BY MessagesAssumption
    <2>2. QED
      BY <1>1, <1>3, <2>1, PushOK, SendOK DEF Application
  <1>4. CASE BrowserApplication
    <2>1. \A n \in Sizes : n \in Nat
      BY MessagesAssumption
    <2>2. QED
      BY <1>1, <1>4, <2>1, BrowserSendOK DEF BrowserApplication
  <1>5. ASSUME NEW s \in Sides, Sending(s)
        PROVE  DataInv'
    BY <1>1, <1>5, AppendFrameOK, AppendFailsOK, ClearOK DEF Sending
  <1>6. ASSUME NEW s \in Sides, Take(s) \/ Return(s)
        PROVE  DataInv'
    BY <1>1, <1>6, TakeOK, EventOK
  <1>7. CASE Network
    BY <1>1, <1>7, StartOK, EventOK, EndOK DEF Network
  <1>8. QED
    BY <1>2, <1>3, <1>4, <1>5, <1>6, <1>7 DEF Next, Idle

(***************************************************************************)
(* An application that keeps to what Careful says gives its peer what it   *)
(* sends, whole and in order, however the sends, callbacks and failures    *)
(* interleave.                                                             *)
(***************************************************************************)
THEOREM Whole ==
    ASSUME Careful
    PROVE  Spec => []Intact
  <1>1. Init => DataInv
    BY InitData
  <1>2. DataInv /\ [Next]_vars => DataInv'
    BY StepData
  <1>3. DataInv => Intact
    BY DEF DataInv, Told, Intact
  <1>4. QED
    BY <1>1, <1>2, <1>3, PTL DEF Spec

(***************************************************************************)
(* And no byte of an output buffer reaches the peer's application twice,   *)
(* whatever fails and is sent again.                                       *)
(***************************************************************************)
THEOREM NotTwice ==
    ASSUME Careful
    PROVE  Spec => []Once
  <1>1. Init => DataInv
    BY InitData
  <1>2. DataInv /\ [Next]_vars => DataInv'
    BY StepData
  <1>3. ASSUME DataInv, NEW s \in Sides, wire[s] # <<>>, Head(wire[s]).buffer
        PROVE  Head(wire[s]).first > seen[s]
    <2>1. Head(wire[s]) = wire[s][1] /\ 1 \in 1 .. Len(wire[s]) /\ wire[s][1] \in Message
      BY <1>3 DEF DataInv, TypeOK
    <2>2. seen[s] < wire[s][1].first
      BY <1>3, <2>1 DEF DataInv, Lines, InLine
    <2>3. seen[s] \in Nat /\ wire[s][1].first \in Nat
      BY <1>3, <2>1 DEF DataInv, TypeOK, Message
    <2>4. QED
      BY <2>1, <2>2, <2>3
  <1>4. DataInv => Once
    BY <1>3 DEF Once
  <1>5. QED
    BY <1>1, <1>2, <1>4, PTL DEF Spec

=============================================================================

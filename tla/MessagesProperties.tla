------------------------- MODULE MessagesProperties -------------------------
(***************************************************************************)
(* What becomes of the data the applications send.                         *)
(***************************************************************************)
EXTENDS Messages

Message == [buffer : BOOLEAN, first : Nat \ {0}, len : Nat, text : BOOLEAN]

Job == [meant : Message, sends : Message]

(***************************************************************************)
(* Type correctness.                                                       *)
(***************************************************************************)
TypeOK ==
    /\ platform \in Platforms
    /\ state \in [Sides -> {"closed", "connecting", "open", "closing"}]
    /\ pc \in [Sides -> [Threads -> {"idle", "callback", "append", "clear", "stuck"}]]
    /\ job \in [Sides -> [Threads -> Job \cup {<<>>}]]
    /\ \A s \in Sides, t \in Threads : pc[s][t] = "append" => job[s][t] \in Job
    /\ out \in [Sides -> [first : Nat \ {0}, len : Nat]]
    /\ given \in [Sides -> Nat]
    /\ wire \in [Sides -> Seq(Message)]
    /\ sent \in [Sides -> Seq(Message)]
    /\ got \in [Sides -> Seq(Message)]
    /\ seen \in [Sides -> Nat]
    /\ left \in [{"calls", "connections"} -> Nat]

Prefix(a, b) == Len(a) <= Len(b) /\ \A i \in 1 .. Len(a) : a[i] = b[i]

(***************************************************************************)
(* What an application is given is what the other one has sent, whole, in  *)
(* the order of the sends and as the kind it was, up to the end of the     *)
(* connection: no length is cut to the width of a counter, and no reply of *)
(* a callback overtakes or splits what another thread sends.               *)
(***************************************************************************)
Intact == \A s \in Sides : Prefix(got[Peer(s)] \o wire[s], sent[s])

(***************************************************************************)
(* No byte of an output buffer arrives twice: not when a send fails and    *)
(* the application repeats it, on this connection or on the next, and not  *)
(* when one callback sends while another thread does.                      *)
(***************************************************************************)
Once ==
    \A s \in Sides :
        wire[s] # <<>> /\ Head(wire[s]).buffer => Head(wire[s]).first > seen[s]

(***************************************************************************)
(* What was sent is given to the other application, or its connection      *)
(* ends: no handler stays in setBuffer.                                    *)
(***************************************************************************)
Delivered ==
    \A s \in Sides : wire[s] # <<>> ~> (wire[s] = <<>> /\ pc[Peer(s)]["loop"] # "stuck")
                                       \/ state[Peer(s)] = "closed"

=============================================================================

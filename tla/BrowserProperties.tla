------------------------- MODULE BrowserProperties -------------------------
(***************************************************************************)
(* What the client promises in the browser, and the abstract session each  *)
(* client is.                                                              *)
(***************************************************************************)
EXTENDS Browser

Labels == Calls \cup {"restart", "closeStop", "release", "event", "freed"}

FrameType == [at : Labels, c : Clients, event : ClientEvents \cup {"nothing"}]

WebState == {"free", "connecting", "open", "closing", "failed", "closed"}

\* A method runs on an object that lives, and the destructor runs first.
FrameOK(i, f) ==
    /\ f.at # "freed" => life[f.c] = "live"
    /\ f.at = "release" => i = 1

StackOK(s) == s \in Seq(FrameType) /\ \A i \in 1 .. Len(s) : FrameOK(i, s[i])

(***************************************************************************)
(* Type correctness.  No method of the client is on the stack of an object *)
(* that has been destroyed.                                                *)
(***************************************************************************)
TypeOK ==
    /\ life \in [Clients -> {"none", "live", "dead"}]
    /\ url \in [Clients -> BOOLEAN]
    /\ socket \in [Clients -> Handles \cup {None, Refused}]
    /\ bound \in [Clients -> BOOLEAN]
    /\ This \in Clients \cup {None}
    /\ web \in [Handles -> WebState]
    /\ StackOK(stk)
    /\ heard \in [Clients -> SocketEvents \cup {"nothing"}]
    /\ calls \in [Calls -> Nat]

-----------------------------------------------------------------------------

(***************************************************************************)
(* Every socket of the browser whose handlers can still be called belongs  *)
(* to one client, which lives: no connect, close or destructor, nested in  *)
(* a callback or cut short by an exception, leaves one behind.             *)
(***************************************************************************)
SocketsOwned ==
    /\ \A h \in Handles : web[h] # "free" => \E c \in Clients : socket[c] = h
    /\ \A c \in Clients :
          socket[c] \in Handles =>
              /\ life[c] = "live" /\ web[socket[c]] # "free"
              /\ \A d \in Clients : socket[d] = socket[c] => d = c

(***************************************************************************)
(* The handlers never use an object that was destroyed.                    *)
(***************************************************************************)
NothingFreed == ~At("freed")

-----------------------------------------------------------------------------
(* The abstract session.                                                   *)

Phase(c) ==
    IF socket[c] \notin Handles THEN "idle"
    ELSE IF web[socket[c]] = "failed" THEN "closed" ELSE web[socket[c]]

Abstract == INSTANCE Session WITH phase <- [c \in Clients |-> Phase(c)]

(***************************************************************************)
(* The clients of the browser implement Session: an application hears of   *)
(* the connection its client has asked for, in the order of a connection's *)
(* life, and of nothing else, although the handlers know only `This'.      *)
(***************************************************************************)
Sessions == Abstract!Spec

=============================================================================

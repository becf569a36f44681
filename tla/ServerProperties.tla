-------------------------- MODULE ServerProperties --------------------------
(***************************************************************************)
(* What the server promises for its threads, its clients and the map of    *)
(* its endpoints.                                                          *)
(***************************************************************************)
EXTENDS Server, TransportProperties

-----------------------------------------------------------------------------
(* Types.                                                                  *)

ServerType ==
    [ stop : BOOLEAN, wake : Nat, accept : BOOLEAN, collect : BOOLEAN,
      stopGc : BOOLEAN, canGc : BOOLEAN,
      came : SUBSET Conns, queue : SUBSET Conns, threads : SUBSET Conns,
      pass : SUBSET Conns, ended : SUBSET Conns, clients : SUBSET Conns,
      bound : SUBSET Conns, todo : SUBSET Conns ]

ServerOK ==
    /\ srv \in ServerType
    /\ srv.queue \subseteq srv.came
    /\ srv.pass \subseteq srv.threads
    /\ srv.clients \subseteq srv.came \ srv.queue

(***************************************************************************)
(* Type correctness.  The collector visits threads that are in the list,   *)
(* an endpoint belongs to a connection that was accepted, and a thread is  *)
(* where its role lets it be.                                              *)
(***************************************************************************)
TypeOK ==
    /\ TransportOK
    /\ ServerOK
    /\ eps \in [of : SUBSET (srv.came \ srv.queue), mutex : Threads \cup {Nobody}]
    /\ calls \in [Calls -> Nat]
    /\ \A c \in Conns : stk[c] # <<>> => stk[c][1].c = c

-----------------------------------------------------------------------------
(* Threads.                                                                *)

(***************************************************************************)
(* When stop() is about to return, the acceptor, the collector and the     *)
(* threads of all connections have ended, and no client is listed, in      *)
(* whatever order connections came, failed and closed meanwhile.           *)
(***************************************************************************)
StopJoinsAll ==
    (\E t \in Threads : At(t, "srvStopped")) =>
        srv.clients = {} /\ \A t \in Conns \cup {Acceptor, Collector} : stk[t] = <<>>

(***************************************************************************)
(* The collector does not sleep over a thread that has ended: each end is  *)
(* joined in the pass it falls into, or leaves a notification behind, also *)
(* when it falls between that pass and the wait.                           *)
(***************************************************************************)
NoMissedEnd ==
    At(Collector, "collectWait") /\ ~srv.canGc =>
        \A c \in srv.threads : stk[c] # <<>>

(***************************************************************************)
(* A connection is in _clients only while its thread runs, so that stop()  *)
(* and getClients() see no connection that nobody serves.                  *)
(***************************************************************************)
ClientsServed == \A c \in srv.clients : stk[c] # <<>>

(***************************************************************************)
(* "First: do callback.  Then: remove client from list"                    *)
(* (dwebsocket_server_ix.cpp:99): a connection whose thread has ended has  *)
(* no endpoint left in the map, where hasClient() would find it.           *)
(***************************************************************************)
EndpointsServed == \A c \in eps.of : stk[c] # <<>>

-----------------------------------------------------------------------------
(* Liveness, under FairSpec.                                               *)

(***************************************************************************)
(* "Join all threads and make sure that all connections are terminated"    *)
(* (IXSocketServer.cpp:218): stop() returns, also when the peers stay.     *)
(***************************************************************************)
StopReturns == \A t \in Users : At(t, "srvClose") ~> stk[t] = <<>>
(***************************************************************************)
(* "When a connection is closed by a client, the connection state          *)
(* terminated field becomes true" (IXSocketServer.cpp:244): a connection   *)
(* whose Close has been reported is terminated, for the collector to join. *)
(***************************************************************************)
ClosedTerminates ==
    \A c \in Conns : (\E i \in DOMAIN log[c] : log[c][i] = "close") ~> c \in srv.ended

=============================================================================

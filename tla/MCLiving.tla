------------------------------ MODULE MCLiving ------------------------------
(* Two components with liveness that share no state, checked side by side: *)
(* a behaviour is one of the component `part`, and the other stays in its  *)
(* initial state.                                                          *)
(*                                                                         *)
(* The communicator: the route and another servant, so that one's task     *)
(* meets the other's clients.  Connections: two clients that reconnect,    *)
(* one with heartbeats.                                                    *)
EXTENDS Communicator

CONSTANTS route, demo, c1, c2, None, MaxBeats, MaxTimers

BothServants == {route, demo}
OneLoop == [s \in BothServants |-> 1]
Pair == {c1, c2}

VARIABLES part, byUid, obj, crashed

Conn == INSTANCE ClientConn
          WITH Clients <- Pair, Fds <- {1, 2}, AutoReconnect <- Pair,
               Beating <- {c1}, clients <- byUid

(* What the proofs about the communicator take of the constants. *)
ASSUME CommConstantsHold == CommConstants

connVars == <<byUid, obj, crashed>>
allVars == <<part, commVars, connVars>>

AllInit == part \in {"comm", "conn"} /\ CommInit /\ Conn!Init

AllNext ==
  \/ part = "comm" /\ CommNext /\ UNCHANGED <<part, connVars>>
  \/ part = "conn" /\ Conn!Next /\ UNCHANGED <<part, commVars>>

(* No fair action of a component is enabled in its initial state, so the   *)
(* fairness says nothing of the part not chosen.                           *)
AllSpec ==
  /\ AllInit /\ [][AllNext]_allVars
  /\ CommFairness /\ Conn!Fairness

(* A client that should reconnect dials again, and hears of every end,     *)
(* unless the process dies of one that has heartbeats or a twin.           *)
Recovers == Conn!DialsAgain /\ Conn!EndNoticed /\ Conn!OnlyMixedUpCrash
=============================================================================

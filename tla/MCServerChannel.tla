--------------------------- MODULE MCServerChannel --------------------------
(* A server's two kinds of servant, checked side by side: they share the   *)
(* process and nothing else that changes, a behaviour is one of the `kind`,*)
(* and the other stays in its initial state.                               *)
(*                                                                         *)
(* TCP: two connections are the least for a descriptor to be used again,   *)
(* two handlers for replies to overtake each other and for a removal to be *)
(* posted twice, two packets for a connection to be told to close twice.   *)
(* UDP: three datagrams and channel objects of two peers, for a channel to *)
(* be removed late and its peer's next one to be made and used before.     *)
EXTENDS ServerChannel, TLC

CONSTANTS c1, c2, h1, h2, p1, p2

TwoConns == {c1, c2}
TwoHandlers == {h1, h2}
OneHandler == {h1}
TwoFds == {1, 2}
BothKinds == {"call", "bye"}
Byes == {"bye"}
TwoPeers == {p1, p2}

Symmetry ==
  Permutations(TwoConns) \cup Permutations(TwoHandlers) \cup Permutations(TwoPeers)

VARIABLES
  kind,
  listed, of, open, udpSignalled, udpWbuf, udpQuiet, udpLoopq, waitingFor, todo,
  udpInbox, arrivals, udpJobs, replying, sentTo, udpCrashed

Udp == INSTANCE UdpServant
         WITH Peers <- TwoPeers, NumChans <- 3, NumHandlers <- 2, MaxArrivals <- 3,
              signalled <- udpSignalled, wbuf <- udpWbuf, quiet <- udpQuiet,
              loopq <- udpLoopq, inbox <- udpInbox, jobs <- udpJobs,
              crashed <- udpCrashed

udpVars ==
  <<listed, of, open, udpSignalled, udpWbuf, udpQuiet, udpLoopq, waitingFor, todo,
    udpInbox, arrivals, udpJobs, replying, sentTo, udpCrashed>>

(* What the proofs about these parts take of the constants. *)
ASSUME UdpConstantsHold == Udp!UdpConstants

(* A TCP servant on its own. *)
TcpInit == kind = "tcp" /\ Init /\ Udp!UdpInit
TcpNext == Next /\ UNCHANGED <<kind, udpVars>>

AllInit ==
  /\ kind \in {"tcp", "udp"}
  /\ Init /\ Udp!UdpInit
  /\ kind = "udp" => ~blocking

AllNext ==
  \/ kind = "tcp" /\ TcpNext
  \/ kind = "udp" /\ Udp!UdpNext /\ UNCHANGED <<kind, vars>>

(* UdpServant's properties, where they are stated in full: a peer is served*)
(* by one channel;                                                         *)
OneServes == Udp!OneServes

(* a reply goes to the peer whose call it answers, at most once;           *)
RepliesOnce == Udp!RepliesOnce

(* a channel in the map with replies in its buffer is signalled.           *)
BufferSignalled == Udp!BufferSignalled
=============================================================================

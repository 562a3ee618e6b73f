---------------------------- MODULE MCClientConn ----------------------------
(* Three hosts for the safety of ClientConn, two for its liveness. *)
EXTENDS ClientConn

CONSTANTS c1, c2, c3

Hosts == {c1, c2, c3}
Pair == {c1, c2}
First == {c1}
ThreeFds == {1, 2, 3}
TwoFds == {1, 2}
=============================================================================

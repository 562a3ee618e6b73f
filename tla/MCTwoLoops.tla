----------------------------- MODULE MCTwoLoops -----------------------------
(* The route's proxy on a machine with two client loops, when its hash and *)
(* its hash % 0xFFF select different ones.                                 *)
EXTENDS Communicator

CONSTANT route

OneServant == {route}
FirstLoop == [s \in OneServant |-> 1]
SecondLoop == [s \in OneServant |-> 2]
=============================================================================

------------------------------ MODULE MCFraming ------------------------------
(* A packet with a payload of two bytes and one without, in pieces of any  *)
(* size.                                                                   *)
EXTENDS Framing

TwoStarts == <<0, 22, 42>>
=============================================================================

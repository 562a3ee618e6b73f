--------------------------- MODULE MCClientSession --------------------------
(* Two calls are the least to share a second; a call of each kind and two  *)
(* seconds let a shared and an unshared id exist side by side, and two     *)
(* handlers let a repeated response overtake the first.                    *)
EXTENDS ClientSession

CONSTANTS a, b, s

OneAsync == {a}
TwoAsync == {a, b}
OneSync == {s}
NoSync == {}
=============================================================================

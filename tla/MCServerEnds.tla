--------------------------- MODULE MCServerEnds -----------------------------
(* For liveness there are two casts.  In one, two peers do as they please. *)
(* In the other, there is a third that says nothing and stays, while of    *)
(* the first two one says goodbye and one calls, if anything: the          *)
(* descriptor that is used again leaves a connection out of the map, and   *)
(* it is the third that suffers.                                           *)
EXTENDS ServerChannel

CONSTANTS c1, c2, c3, h1, h2

ThreeConns == {c1, c2, c3}
TwoHandlers == {h1, h2}
TwoFds == {1, 2}
BothKinds == {"call", "bye"}

VARIABLE cast

Says(c, kind) == \A i \in DOMAIN inbox[c] : inbox[c][i].kind = kind

InCast ==
  IF cast = "two"
  THEN peer[c3] = "none"
  ELSE /\ peer[c2] # "none" => peer[c1] # "none"
       /\ peer[c3] # "none" => peer[c2] # "none"
       /\ Says(c1, "bye") /\ Says(c2, "call")
       /\ sent[c3] = 0 /\ peer[c3] # "gone" /\ quiet \subseteq {c3}

LiveInit == Init /\ cast \in {"two", "three"}
LiveNext == Next /\ UNCHANGED cast /\ InCast'
LiveSpec == LiveInit /\ [][LiveNext]_<<vars, cast>> /\ Fairness
=============================================================================

------------------------------ MODULE Mailbox -------------------------------
(***************************************************************************)
(* What MyLoop promises to those who hand it functions: a loop runs them   *)
(* in its own thread in the order they were accepted, each once at most,   *)
(* and none once it has left.  A function that arrives later is accepted   *)
(* and never run.                                                          *)
(***************************************************************************)
EXTENDS Sequences

CONSTANTS Loops, Tasks

VARIABLES
  mail,  \* accepted and not run, oldest first
  done,  \* run
  left   \* loops that have left

vars == <<mail, done, left>>

Init ==
  /\ mail = [l \in Loops |-> <<>>]
  /\ done = {}
  /\ left = {}

Seen(t) == t \in done \/ \E l \in Loops : \E i \in DOMAIN mail[l] : mail[l][i] = t

Accept(l, t) ==
  /\ ~Seen(t)
  /\ mail' = [mail EXCEPT ![l] = Append(mail[l], t)]
  /\ UNCHANGED <<done, left>>

(* The oldest runs, with what it calls in turn. *)
Take(l, called) ==
  /\ l \notin left
  /\ mail[l] # <<>>
  /\ mail' = [mail EXCEPT ![l] = Tail(mail[l])]
  /\ Head(mail[l]) \notin done
  /\ \A t \in called : ~Seen(t)
  /\ done' = done \cup {Head(mail[l])} \cup called
  /\ UNCHANGED left

Leave(l) ==
  /\ left' = left \cup {l}
  /\ UNCHANGED <<mail, done>>

Next ==
  \E l \in Loops :
    \/ \E t \in Tasks : Accept(l, t)
    \/ \E called \in SUBSET Tasks : Take(l, called)
    \/ Leave(l)

Spec == Init /\ [][Next]_vars
=============================================================================

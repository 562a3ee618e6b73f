------------------------------ MODULE Executor ------------------------------
(***************************************************************************)
(* What MyThreadPool promises its callers: jobs start in the order exec()  *)
(* was called, each runs at most once, and none runs after it was          *)
(* discarded by clear() (initialize() or wait()).                          *)
(***************************************************************************)
EXTENDS Sequences

CONSTANT Jobs

VARIABLES
  submitted,  \* jobs handed to exec()
  pending,    \* those not started, oldest first
  running,    \* those a worker is executing
  finished    \* those executed

vars == <<submitted, pending, running, finished>>

Init ==
  /\ submitted = {}
  /\ pending = <<>>
  /\ running = {}
  /\ finished = {}

Submit(j) ==
  /\ j \notin submitted
  /\ submitted' = submitted \cup {j}
  /\ pending' = Append(pending, j)
  /\ UNCHANGED <<running, finished>>

Start ==
  /\ pending # <<>>
  /\ Head(pending) \notin running \cup finished
  /\ pending' = Tail(pending)
  /\ running' = running \cup {Head(pending)}
  /\ UNCHANGED <<submitted, finished>>

Finish(j) ==
  /\ j \in running
  /\ j \notin finished
  /\ running' = running \ {j}
  /\ finished' = finished \cup {j}
  /\ UNCHANGED <<submitted, pending>>

Discard == pending' = <<>> /\ UNCHANGED <<submitted, running, finished>>

Next ==
  \/ \E j \in Jobs : Submit(j) \/ Finish(j)
  \/ Start
  \/ Discard

Spec == Init /\ [][Next]_vars
=============================================================================

----------------------------- MODULE MCThreads ------------------------------
(* Threads and what they are handed, checked side by side: the thread pool *)
(* and the event loop share no state, a behaviour is one of the component  *)
(* `part`, and the others stay in their initial states.                    *)
(*                                                                         *)
(* The pool: two MyThread objects and two jobs.  With NumThreads = 1 a     *)
(* second initialize() starts one while the other is still leaving: both   *)
(* are in workers_ and take jobs and notifications from each other, and    *)
(* both may be told to drain.                                              *)
(*                                                                         *)
(* A loop with a function to run; a loop with a timer that is made and     *)
(* destroyed again and again (the two meet in what a loop does, not in     *)
(* each other's watchers or queue).                                        *)
EXTENDS ThreadPool

CONSTANTS w1, w2, j1, j2, f1, timer, Main, Other, NoLoop

TwoWorkers == {w1, w2}
TwoJobs == {j1, j2}

VARIABLES
  part,
  loopQueue, unsignalled, ran, loopPc, loopExit, joined, call, side, dead,
  list, listened, lasting, home, active, pending, adding, mixed

Turn == INSTANCE Loop
          WITH Tasks <- {f1}, Timers <- {}, NumLoops <- 1,
               queue <- loopQueue, pc <- loopPc, exit <- loopExit
Timed == INSTANCE Loop
           WITH Tasks <- {}, Timers <- {timer}, NumLoops <- 1,
                queue <- loopQueue, pc <- loopPc, exit <- loopExit

turnVars ==
  <<loopQueue, unsignalled, ran, loopPc, loopExit, joined, call, side, dead,
    list, listened, lasting, home, active, pending, adding, mixed>>
allVars == <<part, vars, turnVars>>

(* A loop is a server's or a client's; the pool does not ask. *)
AllInit ==
  /\ part \in {"pool", "loop", "timed"}
  /\ Init
  /\ IF part = "timed" THEN Timed!LoopInit ELSE Turn!LoopInit
  /\ part = "pool" => side = "server"

AllNext ==
  \/ part = "pool" /\ Next /\ UNCHANGED <<part, turnVars>>
  \/ part = "loop" /\ Turn!LoopNext /\ UNCHANGED <<part, vars>>
  \/ part = "timed" /\ Timed!LoopNext /\ UNCHANGED <<part, vars>>
  \/ part # "pool" /\ UNCHANGED allVars  \* a loop may stop, the pool may not

(* No fair action of a component is enabled in its initial state, so the   *)
(* fairness says nothing of the parts not chosen.  The two loops have the  *)
(* same threads, so the fairness of one is the other's; but it has no      *)
(* function to signal.                                                     *)
AllSpec ==
  /\ AllInit /\ [][AllNext]_allVars
  /\ Fairness
  /\ Timed!LoopFairness /\ WF_turnVars(Turn!Signal(f1, 1))

(* The loops' own properties, where they are stated in full: libev is left *)
(* with no watcher but those there are;                                    *)
ServedAlive ==
  IF part = "timed" THEN Timed!ServedAlive ELSE Turn!ServedAlive

(* whatever a loop is asked to do it does, unless it is stopped.           *)
Heeded == Turn!TaskRuns /\ Timed!StopEnds
=============================================================================

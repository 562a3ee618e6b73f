----------------------------- MODULE ThreadPool -----------------------------
(***************************************************************************)
(* MyThreadPool and its workers (util/MyThreadPool.h) over MyThreadQueue.  *)
(* Any thread may call exec; one owner calls initialize, stop,             *)
(* StopAfterAllDone and wait, one after the other (the first three hold    *)
(* mutex_, wait reads workers_ without it).  A worker's loop is one action *)
(* per read of shared state.  exit_ and exit_after_done_ are plain bools   *)
(* written by the owner while the worker reads them: the model gives the   *)
(* reads and writes the order of the source, one of the orders a build can *)
(* produce and enough for what is found.                                   *)
(***************************************************************************)
EXTENDS Naturals, Sequences, FiniteSets

CONSTANTS
  Workers,     \* names of MyThread objects
  NumThreads,  \* initialize()'s argument
  Jobs,        \* jobs handed to exec, each once
  NoJob,       \* the null shared_ptr
  NoWorker

ASSUME PoolAssumption ==
  /\ NumThreads \in Nat
  /\ NoJob \notin Jobs
  /\ NoWorker \notin Workers

VARIABLES
  queue, waiting, notified,  \* job_queue_
  workers,        \* workers_
  pc,             \* where each worker's run() is
  exit,           \* exit_
  exitAfterDone,  \* exit_after_done_
  job,            \* run()'s local variable
  owner,          \* the owner's call in progress
  submitted,      \* jobs handed to exec so far
  finished,       \* jobs executed
  mode            \* "stop" or "drain" once stop or StopAfterAllDone was called

INSTANCE ThreadQueue
  WITH elements <- queue, Items <- Jobs, Timed <- Workers, Blocking <- {}

workerVars == <<pc, job, finished>>
flagVars == <<exit, exitAfterDone>>
historyVars == <<submitted, mode>>
vars == <<queue, waiting, notified, workers, pc, exit, exitAfterDone, job,
          owner, submitted, finished, mode>>

Idle == [op |-> "idle", todo |-> {}, half |-> NoWorker]

Init ==
  /\ QInit
  /\ workers = {}
  /\ pc = [w \in Workers |-> "absent"]
  /\ exit = [w \in Workers |-> FALSE]
  /\ exitAfterDone = [w \in Workers |-> FALSE]
  /\ job = [w \in Workers |-> NoJob]
  /\ owner = Idle
  /\ submitted = {} /\ finished = {}
  /\ mode = "run"

Queued == {queue[i] : i \in DOMAIN queue}
-----------------------------------------------------------------------------
(* Mutant: exec pushes at the wrong end. *)
ExecFront(j) ==
  /\ j \notin submitted
  /\ PushFront(j)
  /\ submitted' = submitted \cup {j}
  /\ UNCHANGED <<workers, workerVars, flagVars, owner, mode>>

(* exec(): any thread, at any time. *)
Exec(j) ==
  /\ j \notin submitted
  /\ PushBack(j)
  /\ submitted' = submitted \cup {j}
  /\ UNCHANGED <<workers, workerVars, flagVars, owner, mode>>

-----------------------------------------------------------------------------
(* The worker's run(). *)
Goto(w, from, to) == pc[w] = from /\ pc' = [pc EXCEPT ![w] = to]

CheckExit(w) ==
  /\ Goto(w, "loop", IF exit[w] THEN "flag" ELSE "pop")
  /\ UNCHANGED <<queue, waiting, notified, workers, flagVars, job, finished,
                 owner, historyVars>>

(* exit_after_done_ && ... *)
CheckAfterDone(w) ==
  /\ Goto(w, "flag", IF exitAfterDone[w] THEN "count" ELSE "flag again")
  /\ UNCHANGED <<queue, waiting, notified, workers, flagVars, job, finished,
                 owner, historyVars>>

(* ... && pool_->GetJobNum() == 0 *)
CountJobs(w) ==
  /\ Goto(w, "count", IF queue = <<>> THEN "done" ELSE "flag again")
  /\ UNCHANGED <<queue, waiting, notified, workers, flagVars, job, finished,
                 owner, historyVars>>

(* Mutant: the second operand does not let the thread go. *)
CheckAfterDoneNever(w) ==
  /\ Goto(w, "flag again", "pop")
  /\ UNCHANGED <<queue, waiting, notified, workers, flagVars, job, finished,
                 owner, historyVars>>

(* ... || !exit_after_done_ *)
CheckAfterDoneAgain(w) ==
  /\ Goto(w, "flag again", IF exitAfterDone[w] THEN "pop" ELSE "done")
  /\ UNCHANGED <<queue, waiting, notified, workers, flagVars, job, finished,
                 owner, historyVars>>

(* GetJob() takes a job at once, or after a wait of at most 500ms ... *)
GotJob(w) ==
  /\ \/ Goto(w, "pop", "run") /\ PopNow(w)
     \/ Goto(w, "asleep", "run") /\ WokenPop(w)
  /\ job' = [job EXCEPT ![w] = Head(queue)]
  /\ UNCHANGED <<workers, flagVars, finished, owner, historyVars>>

WaitForJob(w) ==
  /\ Goto(w, "pop", "asleep")
  /\ Block(w)
  /\ UNCHANGED <<workers, flagVars, job, finished, owner, historyVars>>

(* Mutant: a worker with nothing to do leaves. *)
GotNothingLeaves(w) ==
  /\ Goto(w, "asleep", "done")
  /\ WokenEmpty(w) \/ TimedOut(w)
  /\ UNCHANGED <<workers, flagVars, job, finished, owner, historyVars>>

(* ... or returns nullptr: woken for nothing, or too late. *)
GotNothing(w) ==
  /\ Goto(w, "asleep", "loop")
  /\ WokenEmpty(w) \/ TimedOut(w)
  /\ UNCHANGED <<workers, flagVars, job, finished, owner, historyVars>>

RunJob(w) ==
  /\ Goto(w, "run", "loop")
  /\ finished' = finished \cup {job[w]}
  /\ job' = [job EXCEPT ![w] = NoJob]
  /\ UNCHANGED <<queue, waiting, notified, workers, flagVars, owner,
                 historyVars>>

Worker(w) ==
  \/ CheckExit(w) \/ CheckAfterDone(w) \/ CountJobs(w) \/ CheckAfterDoneAgain(w)
  \/ GotJob(w) \/ WaitForJob(w) \/ GotNothing(w) \/ RunJob(w)
-----------------------------------------------------------------------------
(* The owner's calls.  stop() and StopAfterAllDone() go over workers_ (in  *)
(* any order here: the workers are alike).                                 *)
Call(op, todo) ==
  /\ owner = Idle
  /\ owner' = [op |-> op, todo |-> todo, half |-> NoWorker]

(* initialize() begins with stop().  Bound: it is called only while names  *)
(* for NumThreads new workers are left.                                    *)
CallInitialize ==
  /\ Cardinality({w \in Workers : pc[w] = "absent"}) >= NumThreads
  /\ Call("restart", workers)
  /\ mode' = "stop"
  /\ UNCHANGED <<queue, waiting, notified, workers, workerVars, flagVars,
                 submitted>>

CallStop ==
  /\ Call("stop", workers)
  /\ mode' = "stop"
  /\ UNCHANGED <<queue, waiting, notified, workers, workerVars, flagVars,
                 submitted>>

CallStopAfterAllDone ==
  /\ Call("drain", workers)
  /\ mode' = IF mode = "run" THEN "drain" ELSE mode
  /\ UNCHANGED <<queue, waiting, notified, workers, workerVars, flagVars,
                 submitted>>

CallWait ==
  /\ Call("wait", {})
  /\ UNCHANGED <<queue, waiting, notified, workers, workerVars, flagVars,
                 historyVars>>

(* terminate() *)
Terminate(w) ==
  /\ owner.op \in {"stop", "restart"} /\ w \in owner.todo
  /\ exit' = [exit EXCEPT ![w] = TRUE]
  /\ owner' = [owner EXCEPT !.todo = @ \ {w}]
  /\ UNCHANGED <<queue, waiting, notified, workers, workerVars, exitAfterDone,
                 historyVars>>

(* TerminateAfterAllDone(): two stores. *)
SetExit(w) ==
  /\ owner.op = "drain" /\ w \in owner.todo /\ owner.half = NoWorker
  /\ exit' = [exit EXCEPT ![w] = TRUE]
  /\ owner' = [owner EXCEPT !.half = w]
  /\ UNCHANGED <<queue, waiting, notified, workers, workerVars, exitAfterDone,
                 historyVars>>

SetExitAfterDone(w) ==
  /\ owner.op = "drain" /\ w = owner.half
  /\ exitAfterDone' = [exitAfterDone EXCEPT ![w] = TRUE]
  /\ owner' = [owner EXCEPT !.todo = @ \ {w}, !.half = NoWorker]
  /\ UNCHANGED <<queue, waiting, notified, workers, workerVars, exit,
                 historyVars>>

Return ==
  /\ owner.op \in {"stop", "drain"} /\ owner.todo = {}
  /\ owner' = Idle
  /\ UNCHANGED <<queue, waiting, notified, workers, workerVars, flagVars,
                 historyVars>>

(* Mutant: new threads inherit the flags of the old ones. *)
SpawnKeepsFlags ==
  /\ owner.op = "restart" /\ owner.todo = {}
  /\ ClearAll
  /\ \E New \in SUBSET {w \in Workers : pc[w] = "absent"} :
       /\ Cardinality(New) = NumThreads
       /\ workers' = workers \cup New
       /\ pc' = [w \in Workers |-> IF w \in New THEN "loop" ELSE pc[w]]
  /\ owner' = Idle /\ mode' = "run"
  /\ UNCHANGED <<job, finished, submitted, flagVars>>

(* MyThread's constructor: no flag is set, and the thread enters run(). *)
Launched(New) ==
  /\ pc' = [w \in Workers |-> IF w \in New THEN "loop" ELSE pc[w]]
  /\ exit' = [w \in Workers |-> exit[w] /\ w \notin New]
  /\ exitAfterDone' = [w \in Workers |-> exitAfterDone[w] /\ w \notin New]

(* The rest of initialize(): clear() and num new threads.  The terminated  *)
(* ones stay in workers_.                                                  *)
Spawn ==
  /\ owner.op = "restart" /\ owner.todo = {}
  /\ ClearAll
  /\ \E New \in SUBSET {w \in Workers : pc[w] = "absent"} :
       /\ Cardinality(New) = NumThreads
       /\ workers' = workers \cup New
       /\ Launched(New)
  /\ owner' = Idle
  /\ mode' = "run"
  /\ UNCHANGED <<job, finished, submitted>>

(* wait(): every thread joined, then both containers emptied. *)
Joined ==
  /\ owner.op = "wait"
  /\ \A w \in workers : pc[w] = "done"
  /\ workers' = {}
  /\ pc' = [w \in Workers |-> IF w \in workers THEN "absent" ELSE pc[w]]
  /\ ClearAll
  /\ owner' = Idle
  /\ UNCHANGED <<job, finished, flagVars, historyVars>>

Owner ==
  \/ \E w \in Workers : Terminate(w) \/ SetExit(w) \/ SetExitAfterDone(w)
  \/ Return \/ Spawn \/ Joined

Next ==
  \/ \E j \in Jobs : Exec(j)
  \/ \E w \in Workers : Worker(w)
  \/ CallInitialize \/ CallStop \/ CallStopAfterAllDone \/ CallWait
  \/ Owner

(* Every thread that can run does, jobs return, 500ms pass. *)
Fairness == (\A w \in Workers : WF_vars(Worker(w))) /\ WF_vars(Owner)

Spec == Init /\ [][Next]_vars /\ Fairness
-----------------------------------------------------------------------------
PCs == {"absent", "loop", "flag", "count", "flag again", "pop", "asleep",
        "run", "done"}

TypeOK ==
  /\ queue \in Seq(Jobs)
  /\ waiting \subseteq Workers
  /\ notified \subseteq Workers \ waiting
  /\ workers \subseteq Workers
  /\ pc \in [Workers -> PCs]
  /\ exit \in [Workers -> BOOLEAN]
  /\ exitAfterDone \in [Workers -> BOOLEAN]
  /\ job \in [Workers -> Jobs \cup {NoJob}]
  /\ owner \in [op : {"idle", "restart", "stop", "drain", "wait"},
                todo : SUBSET Workers, half : Workers \cup {NoWorker}]
  /\ submitted \subseteq Jobs
  /\ finished \subseteq submitted
  /\ mode \in {"run", "stop", "drain"}

Held == {job[w] : w \in Workers} \ {NoJob}

(* No job is in two hands: it is queued once, or held by one worker, or    *)
(* finished, whatever wake-ups, timeouts, stops and restarts came between. *)
OnePlace ==
  /\ \A i, k \in DOMAIN queue : queue[i] = queue[k] => i = k
  /\ \A w, v \in Workers : job[w] = job[v] /\ job[w] # NoJob => w = v
  /\ Queued \cap Held = {}
  /\ Queued \cap finished = {}
  /\ Held \cap finished = {}

(* A pool that is running has the threads it was initialised with, however *)
(* the old ones were stopped and are still leaving.                        *)
Staffed ==
  (mode = "run" /\ owner = Idle /\ workers # {}) =>
    Cardinality({w \in Workers : ~exit[w] /\ pc[w] \notin {"absent", "done"}})
      = NumThreads

(* A job handed to exec() leaves the pool unfinished in two ways only, the *)
(* clear() of initialize() and that of wait(): no exit of a worker, no     *)
(* notification given to a thread that leaves and no stop drops it.        *)
OnlyClearDrops ==
  [][\A j \in Jobs : j \in Queued \cup Held \cup finished =>
       j \in (Queued \cup Held \cup finished)' \/ Spawn \/ Joined]_vars

(* The pool implements the abstract executor: FIFO start, at most one run, *)
(* nothing that was discarded.                                             *)
Abstract == INSTANCE Executor WITH pending <- queue, running <- Held
Implements == Abstract!Spec

(* A job handed to a pool that nobody stops is executed, though the        *)
(* notification of its push may go to a worker whose wait has expired.     *)
PendingRuns ==
  \A j \in Jobs :
    (j \in Queued /\ workers # {} /\ mode = "run" /\ owner = Idle)
      ~> (j \in finished \/ owner # Idle)

(* A job is not dropped, except by clear(), and not left lying either.     *)
JobsServed == OnlyClearDrops /\ PendingRuns

(* wait() after stop() or StopAfterAllDone() returns: no worker sleeps or  *)
(* loops through it for ever.                                              *)
WaitReturns ==
  (owner.op = "wait" /\ \A w \in workers : exit[w]) ~> (owner = Idle)
=============================================================================

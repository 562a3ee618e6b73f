-------------------------- MODULE ThreadPoolProofs --------------------------
(***************************************************************************)
(* Proofs about ThreadPool, for every number of workers and jobs: the      *)
(* types, OnePlace, and that the pool implements Executor.  Inv adds to    *)
(* OnePlace what its steps need: a worker holds a job exactly while it     *)
(* runs it, only a worker inside popFront is on the condition variable,    *)
(* and every job in any of the places was submitted.                       *)
(***************************************************************************)
EXTENDS ThreadPool, TLAPS

Distinct(q) == \A i, k \in DOMAIN q : q[i] = q[k] => i = k
Members(q) == {q[i] : i \in DOMAIN q}

Attached ==
  \A w \in Workers : /\ job[w] # NoJob <=> pc[w] = "run"
                     /\ w \in waiting \cup notified <=> pc[w] = "asleep"

Known == Queued \cup Held \subseteq submitted

Inv == TypeOK /\ OnePlace /\ Attached /\ Known

(* Pushing a job that is not queued keeps the queue free of repetitions. *)
LEMMA PushedMembers ==
  ASSUME NEW S, NEW q \in Seq(S), NEW x \in S, Distinct(q), x \notin Members(q)
  PROVE  /\ Append(q, x) \in Seq(S)
         /\ Distinct(Append(q, x))
         /\ Members(Append(q, x)) = Members(q) \cup {x}
<1>1. /\ DOMAIN q = 1 .. Len(q) /\ Len(q) \in Nat
      /\ DOMAIN Append(q, x) = 1 .. Len(q) + 1
      /\ \A i \in 1 .. Len(q) : Append(q, x)[i] = q[i]
      /\ Append(q, x)[Len(q) + 1] = x
      /\ Append(q, x) \in Seq(S)
  OBVIOUS
<1> HIDE DEF Members
<1>2. Distinct(Append(q, x))
  BY <1>1 DEF Distinct, Members
<1>3. Members(Append(q, x)) = Members(q) \cup {x}
  BY <1>1 DEF Members
<1> QED BY <1>1, <1>2, <1>3

(* Popping removes exactly the head. *)
LEMMA PoppedMembers ==
  ASSUME NEW S, NEW q \in Seq(S), q # <<>>, Distinct(q)
  PROVE  /\ Tail(q) \in Seq(S)
         /\ Head(q) \in Members(q) \cap S
         /\ Distinct(Tail(q))
         /\ Members(Tail(q)) = Members(q) \ {Head(q)}
<1>1. /\ DOMAIN q = 1 .. Len(q) /\ Len(q) \in Nat /\ Len(q) >= 1
      /\ DOMAIN Tail(q) = 1 .. Len(q) - 1
      /\ \A i \in 1 .. Len(q) - 1 : Tail(q)[i] = q[i + 1]
      /\ Head(q) = q[1]
      /\ Tail(q) \in Seq(S)
  OBVIOUS
<1>2. Distinct(Tail(q))
  BY <1>1 DEF Distinct
<1>3. Head(q) \in Members(q) \cap S
  BY <1>1 DEF Members
<1>4. Members(Tail(q)) \subseteq Members(q) \ {Head(q)}
  BY <1>1 DEF Members, Distinct
<1>5. Members(q) \ {Head(q)} \subseteq Members(Tail(q))
  <2>1. SUFFICES ASSUME NEW i \in 1 .. Len(q), q[i] # q[1]
                 PROVE  q[i] \in Members(Tail(q))
    BY <1>1 DEF Members
  <2>2. i - 1 \in 1 .. Len(q) - 1 /\ q[i] = Tail(q)[i - 1]
    BY <1>1, <2>1
  <2> QED BY <1>1, <2>2 DEF Members
<1> QED BY <1>1, <1>2, <1>3, <1>4, <1>5

(* notify_one moves one sleeper, so the threads inside popFront stay the   *)
(* same.                                                                   *)
LEMMA NotifyOneKeepsCallers ==
  ASSUME TypeOK, NotifyOne
  PROVE  /\ waiting' \cup notified' = waiting \cup notified
         /\ waiting' \subseteq Workers
         /\ notified' \subseteq Workers \ waiting'
BY DEF NotifyOne, TypeOK

(* The jobs that are held change with one worker's local variable only.    *)
LEMMA HeldAfter ==
  ASSUME TypeOK, OnePlace, NEW w \in Workers, NEW x,
         job' = [job EXCEPT ![w] = x]
  PROVE  Held' = ((Held \ {job[w]}) \cup {x}) \ {NoJob}
<1>1. \A v \in Workers : job'[v] = IF v = w THEN x ELSE job[v]
  BY DEF TypeOK
<1>2. \A v \in Workers : v # w /\ job[v] # NoJob => job[v] # job[w]
  BY DEF OnePlace
<1> QED BY <1>1, <1>2 DEF Held

(* An empty hand takes a job; a full one lets it go. *)
LEMMA HeldTaken ==
  ASSUME TypeOK, OnePlace, NEW w \in Workers, NEW x, x # NoJob,
         job[w] = NoJob, job' = [job EXCEPT ![w] = x]
  PROVE  Held' = Held \cup {x}
<1>1. Held' = ((Held \ {NoJob}) \cup {x}) \ {NoJob}
  BY HeldAfter
<1>2. NoJob \notin Held
  BY DEF Held
<1> QED BY <1>1, <1>2

LEMMA HeldDropped ==
  ASSUME TypeOK, OnePlace, NEW w \in Workers, job' = [job EXCEPT ![w] = NoJob]
  PROVE  Held' = Held \ {job[w]}
<1>1. Held' = ((Held \ {job[w]}) \cup {NoJob}) \ {NoJob}
  BY HeldAfter
<1>2. NoJob \notin Held
  BY DEF Held
<1> QED BY <1>1, <1>2

-----------------------------------------------------------------------------
LEMMA InitInv == Init => Inv
BY PoolAssumption
   DEF Init, QInit, Inv, TypeOK, OnePlace, Attached, Known, Queued, Held, Idle,
       PCs

(* exec pushes a job that is in none of the places. *)
LEMMA ExecInv == ASSUME Inv, NEW j \in Jobs, Exec(j) PROVE Inv'
<1>1. /\ j \notin submitted /\ submitted' = submitted \cup {j}
      /\ queue' = Append(queue, j) /\ NotifyOne
      /\ UNCHANGED <<workers, pc, job, finished, exit, exitAfterDone, owner,
                     mode>>
  BY DEF Exec, PushBack, workerVars, flagVars
<1>2. /\ queue \in Seq(Jobs) /\ Distinct(queue) /\ j \notin Members(queue)
      /\ j \notin Queued
  BY <1>1 DEF Inv, TypeOK, OnePlace, Known, Queued, Distinct, Members
<1>3. /\ queue' \in Seq(Jobs) /\ Distinct(queue')
      /\ Queued' = Queued \cup {j}
  BY <1>1, <1>2, PushedMembers DEF Queued, Members
<1>4. /\ waiting' \cup notified' = waiting \cup notified
      /\ waiting' \subseteq Workers
      /\ notified' \subseteq Workers \ waiting'
  BY <1>1, NotifyOneKeepsCallers DEF Inv
<1>5. Held' = Held /\ j \notin Held /\ j \notin finished
  BY <1>1 DEF Inv, Held, Known, TypeOK
<1>6. TypeOK'
  BY <1>1, <1>3, <1>4 DEF Inv, TypeOK
<1>7. OnePlace'
  BY <1>1, <1>3, <1>5 DEF Inv, OnePlace, Distinct
<1>8. Attached' /\ Known'
  BY <1>1, <1>3, <1>4, <1>5 DEF Inv, Attached, Known
<1> QED BY <1>6, <1>7, <1>8 DEF Inv

(* A worker takes the head of the queue into its empty hand. *)
LEMMA GotJobInv == ASSUME Inv, NEW w \in Workers, GotJob(w) PROVE Inv'
<1> DEFINE h == Head(queue)
<1>1. /\ queue # <<>> /\ queue' = Tail(queue)
      /\ pc[w] \in {"pop", "asleep"} /\ pc' = [pc EXCEPT ![w] = "run"]
      /\ job' = [job EXCEPT ![w] = h]
      /\ UNCHANGED <<workers, exit, exitAfterDone, finished, owner, submitted,
                     mode>>
  BY DEF GotJob, Goto, PopNow, WokenPop, flagVars, historyVars
<1>2. waiting' = waiting \ {w} /\ notified' = notified \ {w}
  <2>1. CASE PopNow(w)
    BY <2>1 DEF PopNow, Busy
  <2>2. CASE WokenPop(w)
    BY <2>2 DEF WokenPop, Leave
  <2> QED BY <2>1, <2>2 DEF GotJob
<1>3. queue \in Seq(Jobs) /\ Distinct(queue)
  BY DEF Inv, TypeOK, OnePlace, Distinct
<1>4. /\ queue' \in Seq(Jobs) /\ Distinct(queue')
      /\ h \in Queued \cap Jobs /\ Queued' = Queued \ {h}
  <2>1. queue' \in Seq(Jobs)
    BY <1>1, <1>3
  <2>2. Queued = Members(queue) /\ Queued' = Members(queue')
    BY DEF Queued, Members
  <2> QED BY <1>1, <1>3, <2>1, <2>2, PoppedMembers
<1>5. h \in Jobs /\ h # NoJob
  BY <1>3, <1>4, PoolAssumption DEF Queued
<1>6. job[w] = NoJob
  BY <1>1 DEF Inv, Attached
<1>7. Held' = Held \cup {h}
  BY <1>1, <1>5, <1>6, HeldTaken DEF Inv
<1> HIDE DEF h
<1>8. h \in submitted /\ h \notin Held /\ h \notin finished
  BY <1>4 DEF Inv, OnePlace, Known
<1>9. TypeOK'
  BY <1>1, <1>2, <1>4, <1>5 DEF Inv, TypeOK, PCs
<1>10. OnePlace'
  <2>1. \A u, v \in Workers : job'[u] = job'[v] /\ job'[u] # NoJob => u = v
    <3>1. \A v \in Workers : v # w => job'[v] = job[v] /\ job[v] # h
      BY <1>1, <1>5, <1>8 DEF Inv, TypeOK, Held
    <3>2. job'[w] = h
      BY <1>1 DEF Inv, TypeOK
    <3> QED BY <3>1, <3>2 DEF Inv, OnePlace
  <2> QED BY <1>1, <1>4, <1>7, <1>8, <2>1 DEF Inv, OnePlace, Distinct
<1>11. Attached'
  BY <1>1, <1>2, <1>5 DEF Inv, Attached, TypeOK
<1>12. Known'
  BY <1>1, <1>4, <1>7, <1>8 DEF Inv, Known
<1> QED BY <1>9, <1>10, <1>11, <1>12 DEF Inv

(* The job a worker has executed leaves its hand. *)
LEMMA RunJobInv == ASSUME Inv, NEW w \in Workers, RunJob(w) PROVE Inv'
<1>1. /\ pc[w] = "run" /\ pc' = [pc EXCEPT ![w] = "loop"]
      /\ finished' = finished \cup {job[w]}
      /\ job' = [job EXCEPT ![w] = NoJob]
      /\ UNCHANGED <<queue, waiting, notified, workers, exit, exitAfterDone,
                     owner, submitted, mode>>
  BY DEF RunJob, Goto, flagVars, historyVars
<1>2. job[w] \in Held /\ job[w] # NoJob
  BY <1>1 DEF Inv, Attached, Held
<1>3. Held' = Held \ {job[w]}
  BY <1>1, HeldDropped DEF Inv
<1>4. Queued' = Queued
  BY <1>1 DEF Queued
<1>5. TypeOK'
  BY <1>1, <1>2 DEF Inv, TypeOK, PCs, Known
<1>6. OnePlace'
  BY <1>1, <1>2, <1>3, <1>4 DEF Inv, TypeOK, OnePlace
<1>7. Attached'
  BY <1>1 DEF Inv, TypeOK, Attached
<1>8. Known'
  BY <1>1, <1>3, <1>4 DEF Inv, Known
<1> QED BY <1>5, <1>6, <1>7, <1>8 DEF Inv

(* Steps that leave the jobs alone and move one worker's program counter   *)
(* between places without a job, in and out of popFront consistently.      *)
LEMMA MoveInv ==
  ASSUME Inv, NEW w \in Workers, NEW to \in PCs \ {"run"},
         pc[w] # "run", pc' = [pc EXCEPT ![w] = to],
         waiting' \subseteq Workers, notified' \subseteq Workers \ waiting',
         waiting' \cup notified' = IF to = "asleep"
                                  THEN waiting \cup notified \cup {w}
                                  ELSE (waiting \cup notified) \ {w},
         UNCHANGED <<queue, workers, exit, exitAfterDone, job, owner, submitted,
                     finished, mode>>
  PROVE  Inv'
<1>1. Queued' = Queued /\ Held' = Held
  BY DEF Queued, Held
<1>2. TypeOK'
  BY DEF Inv, TypeOK
<1>3. OnePlace' /\ Known'
  BY <1>1 DEF Inv, OnePlace, Known
<1>4. Attached'
  BY DEF Inv, TypeOK, Attached
<1> QED BY <1>2, <1>3, <1>4 DEF Inv

LEMMA WorkerInv == ASSUME Inv, NEW w \in Workers, Worker(w) PROVE Inv'
<1> USE DEF workerVars, flagVars, historyVars, Goto, PCs
<1>1. waiting \subseteq Workers /\ notified \subseteq Workers \ waiting
  BY DEF Inv, TypeOK
<1>2. ASSUME CheckExit(w) \/ CheckAfterDone(w) \/ CountJobs(w)
               \/ CheckAfterDoneAgain(w)
      PROVE  Inv'
  <2>1. PICK to \in PCs \ {"run", "asleep"} : pc' = [pc EXCEPT ![w] = to]
    BY <1>2 DEF CheckExit, CheckAfterDone, CountJobs, CheckAfterDoneAgain
  <2>2. /\ pc[w] \notin {"run", "asleep"}
        /\ UNCHANGED <<queue, waiting, notified, workers, exit, exitAfterDone,
                       job, owner, submitted, finished, mode>>
    BY <1>2 DEF CheckExit, CheckAfterDone, CountJobs, CheckAfterDoneAgain
  <2>3. w \notin waiting \cup notified
    BY <2>2 DEF Inv, Attached
  <2> QED BY <1>1, <2>1, <2>2, <2>3, MoveInv
<1>3. ASSUME WaitForJob(w) PROVE Inv'
  <2>1. /\ pc[w] = "pop" /\ pc' = [pc EXCEPT ![w] = "asleep"]
        /\ waiting' = waiting \cup {w} /\ w \notin notified
        /\ UNCHANGED <<queue, notified, workers, exit, exitAfterDone, job, owner,
                       submitted, finished, mode>>
    BY <1>3 DEF WaitForJob, Block, Busy
  <2> QED BY <1>1, <2>1, MoveInv
<1>4. ASSUME GotNothing(w) PROVE Inv'
  <2>1. /\ pc[w] = "asleep" /\ pc' = [pc EXCEPT ![w] = "loop"]
        /\ waiting' = waiting \ {w} /\ notified' = notified \ {w}
        /\ UNCHANGED <<queue, workers, exit, exitAfterDone, job, owner,
                       submitted, finished, mode>>
    BY <1>4 DEF GotNothing, WokenEmpty, TimedOut, Leave
  <2> QED BY <1>1, <2>1, MoveInv
<1> QED BY <1>2, <1>3, <1>4, GotJobInv, RunJobInv DEF Worker

(* The owner's calls touch the flags, the history and, in clear(), the     *)
(* queue; Spawn and Joined move workers between places without a job.      *)
LEMMA OwnerInv ==
  ASSUME Inv,
         \/ CallInitialize \/ CallStop \/ CallStopAfterAllDone \/ CallWait
         \/ Owner
  PROVE  Inv'
<1> USE DEF workerVars, flagVars, historyVars
<1>1. ASSUME UNCHANGED <<queue, waiting, notified, workers, pc, job, finished,
                         submitted>>,
             TypeOK'
      PROVE  Inv'
  <2>1. Queued' = Queued /\ Held' = Held
    BY <1>1 DEF Queued, Held
  <2> QED BY <1>1, <2>1 DEF Inv, OnePlace, Attached, Known
<1>2. CASE CallInitialize \/ CallStop \/ CallStopAfterAllDone \/ CallWait
  <2>1. /\ UNCHANGED <<queue, waiting, notified, workers, pc, job, finished,
                       submitted, exit, exitAfterDone>>
        /\ mode' \in {"run", "stop", "drain"}
    BY <1>2 DEF CallInitialize, CallStop, CallStopAfterAllDone, CallWait, Inv,
                TypeOK, Queued
  <2>2. PICK op \in {"restart", "stop", "drain", "wait"}, S \in SUBSET Workers :
          owner' = [op |-> op, todo |-> S, half |-> NoWorker]
    BY <1>2 DEF CallInitialize, CallStop, CallStopAfterAllDone, CallWait, Call,
                Inv, TypeOK
  <2>3. TypeOK'
    BY <2>1, <2>2 DEF Inv, TypeOK
  <2> QED BY <1>1, <2>1, <2>3
<1>3. ASSUME NEW w \in Workers, Terminate(w) \/ SetExit(w) \/ SetExitAfterDone(w)
      PROVE  Inv'
  <2>1. UNCHANGED <<queue, waiting, notified, workers, pc, job, finished,
                    submitted, mode>>
    BY <1>3 DEF Terminate, SetExit, SetExitAfterDone
  <2>2. exit' \in [Workers -> BOOLEAN] /\ exitAfterDone' \in [Workers -> BOOLEAN]
    BY <1>3 DEF Terminate, SetExit, SetExitAfterDone, Inv, TypeOK
  <2>3. owner' \in [op : {"idle", "restart", "stop", "drain", "wait"},
                    todo : SUBSET Workers, half : Workers \cup {NoWorker}]
    <3>1. owner \in [op : {"idle", "restart", "stop", "drain", "wait"},
                     todo : SUBSET Workers, half : Workers \cup {NoWorker}]
      BY DEF Inv, TypeOK
    <3>2. CASE Terminate(w)
      BY <3>1, <3>2 DEF Terminate
    <3>3. CASE SetExit(w)
      BY <3>1, <3>3 DEF SetExit
    <3>4. CASE SetExitAfterDone(w)
      BY <3>1, <3>4 DEF SetExitAfterDone
    <3> QED BY <1>3, <3>2, <3>3, <3>4
  <2> QED BY <1>1, <2>1, <2>2, <2>3 DEF Inv, TypeOK
<1>4. CASE Return
  BY <1>1, <1>4 DEF Return, Inv, TypeOK, Idle
<1>5. ASSUME queue' = <<>>, UNCHANGED <<waiting, notified, job, finished, submitted>>,
             owner' = Idle, workers' \subseteq Workers, pc' \in [Workers -> PCs],
             exit' \in [Workers -> BOOLEAN], exitAfterDone' \in [Workers -> BOOLEAN],
             mode' \in {"run", "stop", "drain"},
             \A w \in Workers : pc'[w] # pc[w] => {pc'[w], pc[w]} \cap {"run", "asleep"} = {}
      PROVE  Inv'
  <2>1. Queued' = {} /\ Held' = Held
    BY <1>5 DEF Queued, Held
  <2>2. TypeOK'
    BY <1>5 DEF Inv, TypeOK, Idle
  <2>3. OnePlace' /\ Known'
    BY <1>5, <2>1 DEF Inv, OnePlace, Known
  <2>4. Attached'
    BY <1>5 DEF Inv, Attached
  <2> QED BY <2>2, <2>3, <2>4 DEF Inv
<1>6. CASE Spawn
  <2>1. PICK New \in SUBSET {w \in Workers : pc[w] = "absent"} :
          /\ workers' = workers \cup New
          /\ pc' = [w \in Workers |-> IF w \in New THEN "loop" ELSE pc[w]]
          /\ exit' = [w \in Workers |-> exit[w] /\ w \notin New]
          /\ exitAfterDone' = [w \in Workers |-> exitAfterDone[w] /\ w \notin New]
    BY <1>6 DEF Spawn, Launched
  <2>2. /\ queue' = <<>> /\ owner' = Idle /\ mode' = "run"
        /\ UNCHANGED <<waiting, notified, job, finished, submitted>>
    BY <1>6 DEF Spawn, Launched, ClearAll
  <2>3. pc' \in [Workers -> PCs] /\ workers' \subseteq Workers
    BY <2>1 DEF Inv, TypeOK, PCs
  <2>4. exit' \in [Workers -> BOOLEAN] /\ exitAfterDone' \in [Workers -> BOOLEAN]
    BY <2>1
  <2>5. \A w \in Workers : pc'[w] # pc[w] => {pc'[w], pc[w]} \cap {"run", "asleep"} = {}
    BY <2>1
  <2> QED BY <1>5, <2>2, <2>3, <2>4, <2>5
<1>7. CASE Joined
  <2>1. /\ queue' = <<>> /\ owner' = Idle /\ workers' = {}
        /\ UNCHANGED <<waiting, notified, job, finished, submitted, exit,
                       exitAfterDone, mode>>
        /\ \A w \in workers : pc[w] = "done"
        /\ pc' = [w \in Workers |-> IF w \in workers THEN "absent" ELSE pc[w]]
    BY <1>7 DEF Joined, ClearAll
  <2>2. pc' \in [Workers -> PCs]
    BY <2>1 DEF Inv, TypeOK, PCs
  <2>3. \A w \in Workers : pc'[w] # pc[w] => {pc'[w], pc[w]} \cap {"run", "asleep"} = {}
    BY <2>1
  <2> QED BY <1>5, <2>1, <2>2, <2>3 DEF Inv, TypeOK
<1> QED BY <1>2, <1>3, <1>4, <1>6, <1>7 DEF Owner

LEMMA NextInv == Inv /\ [Next]_vars => Inv'
<1> SUFFICES ASSUME Inv, [Next]_vars PROVE Inv'
  OBVIOUS
<1>1. CASE UNCHANGED vars
  <2> USE <1>1 DEF vars
  <2>1. Queued' = Queued /\ Held' = Held
    BY DEF Queued, Held
  <2>2. TypeOK'
    BY DEF Inv, TypeOK
  <2>3. OnePlace' /\ Known'
    BY <2>1 DEF Inv, OnePlace, Known
  <2>4. Attached'
    BY DEF Inv, Attached
  <2> QED BY <2>2, <2>3, <2>4 DEF Inv
<1>2. ASSUME NEW j \in Jobs, Exec(j) PROVE Inv'
  BY <1>2, ExecInv
<1>3. ASSUME NEW w \in Workers, Worker(w) PROVE Inv'
  BY <1>3, WorkerInv
<1>4. CASE \/ CallInitialize \/ CallStop \/ CallStopAfterAllDone \/ CallWait
           \/ Owner
  BY <1>4, OwnerInv
<1> QED BY <1>1, <1>2, <1>3, <1>4 DEF Next

LEMMA InvHolds == Spec => []Inv
BY InitInv, NextInv, PTL DEF Spec

(* The variables keep their types. *)
THEOREM TypeCorrect == Spec => []TypeOK
<1>1. Inv => TypeOK
  BY DEF Inv
<1> QED BY <1>1, InvHolds, PTL

(* No job is ever in two hands. *)
THEOREM AlwaysOnePlace == Spec => []OnePlace
<1>1. Inv => OnePlace
  BY DEF Inv
<1> QED BY <1>1, InvHolds, PTL

-----------------------------------------------------------------------------
(* The refinement: exec submits, GotJob starts, RunJob finishes, Spawn and *)
(* Joined discard, and every other step changes nothing of the executor.   *)
LEMMA InitRefines == Init => Abstract!Init
<1> SUFFICES ASSUME Init PROVE Abstract!Init
  OBVIOUS
<1>1. Held = {}
  BY DEF Init, Held
<1> QED BY <1>1 DEF Init, QInit, Abstract!Init

LEMMA StepRefines == Inv /\ [Next]_vars => [Abstract!Next]_(Abstract!vars)
<1> SUFFICES ASSUME Inv, [Next]_vars PROVE [Abstract!Next]_(Abstract!vars)
  OBVIOUS
<1> USE DEF workerVars, flagVars, historyVars
<1>1. ASSUME UNCHANGED <<queue, job, submitted, finished>>
      PROVE  UNCHANGED Abstract!vars
  BY <1>1 DEF Abstract!vars, Held
<1>2. ASSUME NEW j \in Jobs, Exec(j) PROVE Abstract!Submit(j)
  BY <1>2 DEF Exec, PushBack, Abstract!Submit, Held
<1>3. ASSUME NEW w \in Workers, GotJob(w) PROVE Abstract!Start
  <2> DEFINE h == Head(queue)
  <2>1. /\ queue # <<>> /\ queue' = Tail(queue)
        /\ pc[w] # "run" /\ job' = [job EXCEPT ![w] = h]
        /\ UNCHANGED <<finished, submitted>>
    BY <1>3 DEF GotJob, Goto, PopNow, WokenPop
  <2>2. h \in Queued \cap Jobs
    BY <2>1, PoppedMembers DEF Inv, TypeOK, OnePlace, Distinct, Queued, Members
  <2>3. h \notin Held \cup finished
    BY <2>2 DEF Inv, OnePlace
  <2>4. job[w] = NoJob /\ h # NoJob
    BY <2>1, <2>2, PoolAssumption DEF Inv, Attached
  <2>5. Held' = Held \cup {h}
    BY <2>1, <2>4, HeldTaken DEF Inv
  <2> QED BY <2>1, <2>3, <2>5 DEF Abstract!Start
<1>4. ASSUME NEW w \in Workers, RunJob(w) PROVE \E j \in Jobs : Abstract!Finish(j)
  <2>1. /\ pc[w] = "run" /\ finished' = finished \cup {job[w]}
        /\ job' = [job EXCEPT ![w] = NoJob]
        /\ UNCHANGED <<queue, submitted>>
    BY <1>4 DEF RunJob, Goto
  <2>2. job[w] \in Held /\ job[w] \in Jobs /\ job[w] \notin finished
    BY <2>1 DEF Inv, TypeOK, Attached, OnePlace, Held
  <2>3. Held' = Held \ {job[w]}
    BY <2>1, HeldDropped DEF Inv
  <2> QED BY <2>1, <2>2, <2>3 DEF Abstract!Finish
<1>5. ASSUME NEW w \in Workers, Worker(w), ~GotJob(w), ~RunJob(w)
      PROVE  UNCHANGED <<queue, job, submitted, finished>>
  BY <1>5 DEF Worker, CheckExit, CheckAfterDone, CountJobs, CheckAfterDoneAgain,
              WaitForJob, GotNothing, Block, WokenEmpty, TimedOut
<1>6. CASE CallInitialize \/ CallStop \/ CallStopAfterAllDone \/ CallWait
  BY <1>1, <1>6 DEF CallInitialize, CallStop, CallStopAfterAllDone, CallWait
<1>7. CASE Spawn \/ Joined
  <2>1. Abstract!Discard
    BY <1>7 DEF Spawn, Launched, Joined, ClearAll, Abstract!Discard, Held
  <2> QED BY <2>1 DEF Abstract!Next
<1>8. ASSUME Owner, ~Spawn, ~Joined PROVE UNCHANGED <<queue, job, submitted, finished>>
  BY <1>8 DEF Owner, Terminate, SetExit, SetExitAfterDone, Return
<1>9. CASE UNCHANGED vars
  BY <1>1, <1>9 DEF vars
<1> QED
  BY <1>1, <1>2, <1>3, <1>4, <1>5, <1>6, <1>7, <1>8, <1>9 DEF Next, Abstract!Next

(* The pool is a FIFO executor that runs no job twice and none that was    *)
(* discarded.                                                              *)
THEOREM PoolImplementsExecutor == Spec => Implements
<1> QED BY InvHolds, InitRefines, StepRefines, PTL
        DEF Spec, Implements, Abstract!Spec
-----------------------------------------------------------------------------
(* Staffed is about the workers that are there and were not told to leave. *)
(* It is kept because only such a one can reach the tests of the other     *)
(* flag and its end, because initialize() begins by telling every worker   *)
(* it knows, and because a pool whose mode is "run" has nobody stopping it.*)
Live == {w \in Workers : ~exit[w] /\ pc[w] \notin {"absent", "done"}}

Leaving == {"flag", "count", "flag again", "done"}

Staff ==
  /\ \A w \in Workers : /\ pc[w] = "absent" <=> w \notin workers
                        /\ pc[w] \in Leaving => exit[w]
  /\ owner.op = "restart" => \A w \in workers \ owner.todo : exit[w]
  /\ mode = "run" => owner.op \in {"idle", "wait"}
  /\ mode = "run" /\ workers # {} => Cardinality(Live) = NumThreads

LEMMA InitStaff == Init => Staff
BY DEF Init, Staff, Leaving, Idle

(* A worker's step that leaves the flags alone changes the live ones only  *)
(* by an exit that was ordered.                                            *)
LEMMA WorkerStaff ==
  ASSUME TypeOK, Staff, NEW w \in Workers, Worker(w)
  PROVE  Staff'
<1>1. /\ UNCHANGED <<workers, exit, owner, mode>>
      /\ \E to \in PCs : pc' = [pc EXCEPT ![w] = to]
      /\ pc[w] \notin {"absent", "done"} /\ pc'[w] # "absent"
      /\ pc'[w] \in Leaving => exit[w]
  BY ZenonT(30) DEF Worker, CheckExit, CheckAfterDone, CountJobs, CheckAfterDoneAgain,
         GotJob, WaitForJob, GotNothing, RunJob, Goto, PCs, Leaving, Staff,
         TypeOK, flagVars, historyVars
<1>2. \A v \in Workers \ {w} : pc'[v] = pc[v]
  BY <1>1 DEF TypeOK
<1>3. Live' = Live
  BY <1>1, <1>2 DEF Live, Leaving
<1> QED BY <1>1, <1>2, <1>3 DEF Staff

LEMMA OwnerStaff ==
  ASSUME TypeOK, Staff,
         CallInitialize \/ CallStop \/ CallStopAfterAllDone \/ CallWait \/ Owner
  PROVE  Staff'
<1>1. CASE CallInitialize \/ CallStop
  <2>1. /\ owner'.op \in {"restart", "stop"} /\ owner'.todo = workers
        /\ mode' = "stop" /\ UNCHANGED <<workers, pc, exit>>
    BY <1>1 DEF CallInitialize, CallStop, Call, workerVars, flagVars
  <2> QED BY <2>1 DEF Staff, Leaving
<1>2. CASE CallStopAfterAllDone
  <2>1. /\ owner'.op = "drain" /\ mode' # "run"
        /\ UNCHANGED <<workers, pc, exit>>
    BY <1>2 DEF CallStopAfterAllDone, Call, workerVars, flagVars
  <2> QED BY <2>1 DEF Staff, Leaving
<1>3. CASE CallWait
  <2>1. /\ owner'.op = "wait" /\ UNCHANGED <<workers, pc, exit, mode>>
    BY <1>3 DEF CallWait, Call, workerVars, flagVars, historyVars
  <2>2. Live' = Live
    BY <2>1 DEF Live
  <2> QED BY <2>1, <2>2 DEF Staff, Leaving
<1>4. ASSUME NEW w \in Workers, Terminate(w) \/ SetExit(w) \/ SetExitAfterDone(w)
      PROVE  Staff'
  <2>1. /\ owner.op \in {"stop", "restart", "drain"} /\ owner'.op = owner.op
        /\ UNCHANGED <<workers, pc, mode>>
        /\ \A v \in Workers : exit[v] => exit'[v]
    BY <1>4 DEF Terminate, SetExit, SetExitAfterDone, workerVars, historyVars,
                TypeOK
  <2>2. owner.op = "restart" => owner'.todo = owner.todo \ {w} /\ exit'[w]
    BY <1>4 DEF Terminate, SetExit, SetExitAfterDone, TypeOK
  <2> QED BY <2>1, <2>2 DEF Staff, Leaving, TypeOK
<1>5. CASE Return
  <2>1. /\ owner.op \in {"stop", "drain"} /\ owner'.op = "idle"
        /\ UNCHANGED <<workers, pc, exit, mode>>
    BY <1>5 DEF Return, Idle, workerVars, flagVars, historyVars
  <2> QED BY <2>1 DEF Staff, Leaving
<1>6. CASE Spawn
  <2>1. PICK New \in SUBSET {w \in Workers : pc[w] = "absent"} :
          /\ Cardinality(New) = NumThreads
          /\ workers' = workers \cup New
          /\ pc' = [w \in Workers |-> IF w \in New THEN "loop" ELSE pc[w]]
          /\ exit' = [w \in Workers |-> exit[w] /\ w \notin New]
    BY <1>6 DEF Spawn, Launched
  <2>2. /\ owner.op = "restart" /\ owner.todo = {} /\ owner'.op = "idle"
    BY <1>6 DEF Spawn, Idle
  <2>3. \A w \in Workers \ New : w \in workers => exit'[w]
    BY <2>1, <2>2 DEF Staff
  <2>4. Live' = New
    BY <2>1, <2>3 DEF Live, Staff
  <2>5. \A w \in Workers : /\ (pc[w] = "absent" <=> w \notin workers)'
                           /\ (pc[w] \in Leaving => exit[w])'
    BY <2>1, <2>3 DEF Staff, Leaving
  <2> QED BY <2>1, <2>2, <2>4, <2>5 DEF Staff
<1>7. CASE Joined
  <2>1. /\ workers' = {} /\ owner'.op = "idle" /\ UNCHANGED <<exit, mode>>
        /\ pc' = [w \in Workers |-> IF w \in workers THEN "absent" ELSE pc[w]]
    BY <1>7 DEF Joined, Idle, flagVars, historyVars
  <2> QED BY <2>1 DEF Staff, Leaving
<1> QED BY <1>1, <1>2, <1>3, <1>4, <1>5, <1>6, <1>7 DEF Owner

LEMMA NextStaff == Inv /\ Staff /\ [Next]_vars => Staff'
<1> SUFFICES ASSUME Inv, Staff, [Next]_vars PROVE Staff'
  OBVIOUS
<1>1. TypeOK
  BY DEF Inv
<1>2. ASSUME UNCHANGED <<workers, pc, exit, owner, mode>> PROVE Staff'
  <2>1. Live' = Live
    BY <1>2 DEF Live
  <2> QED BY <1>2, <2>1 DEF Staff, Leaving
<1>3. ASSUME NEW j \in Jobs, Exec(j) PROVE Staff'
  BY <1>2, <1>3 DEF Exec, workerVars, flagVars
<1>4. CASE UNCHANGED vars
  BY <1>2, <1>4 DEF vars
<1> QED BY <1>1, <1>3, <1>4, WorkerStaff, OwnerStaff DEF Next

(* Between two calls of its owner a pool that was initialised and not      *)
(* stopped has NumThreads workers in their loops, however many old ones are*)
(* still on their way out.                                                 *)
THEOREM AlwaysStaffed == Spec => []Staffed
<1>1. Staff => Staffed
  BY DEF Staff, Staffed, Live
<1> QED BY <1>1, InvHolds, InitStaff, NextStaff, PTL DEF Spec
-----------------------------------------------------------------------------
(* Jobs that are queued, held or executed: all but the dropped ones. *)
Kept == Queued \cup Held \cup finished

(* What is queued or held stays so, or is executed. *)
LEMMA NothingElseDrops ==
  ASSUME Inv, [Next]_vars, ~Spawn, ~Joined
  PROVE  Kept \subseteq Kept'
<1> USE DEF workerVars, flagVars, historyVars
<1>1. ASSUME UNCHANGED <<queue, job, finished>> PROVE Kept \subseteq Kept'
  BY <1>1 DEF Kept, Queued, Held
<1>2. ASSUME NEW j \in Jobs, Exec(j) PROVE Kept \subseteq Kept'
  <2>1. queue' = Append(queue, j) /\ UNCHANGED <<job, finished>>
    BY <1>2 DEF Exec, PushBack
  <2>2. Queued' = Queued \cup {j}
    <3>1. /\ queue \in Seq(Jobs) /\ Distinct(queue) /\ j \notin Members(queue)
      BY <1>2 DEF Exec, Inv, TypeOK, OnePlace, Known, Queued, Distinct, Members
    <3> QED BY <2>1, <3>1, PushedMembers DEF Queued, Members
  <2>3. Held' = Held
    BY <2>1 DEF Held
  <2> QED BY <2>1, <2>2, <2>3 DEF Kept
<1>3. ASSUME NEW w \in Workers, GotJob(w) PROVE Kept \subseteq Kept'
  <2> DEFINE h == Head(queue)
  <2>1. /\ queue # <<>> /\ queue' = Tail(queue)
        /\ pc[w] # "run" /\ job' = [job EXCEPT ![w] = h]
        /\ UNCHANGED finished
    BY <1>3 DEF GotJob, Goto, PopNow, WokenPop
  <2>2. h \in Queued \cap Jobs /\ Queued' = Queued \ {h}
    <3>1. queue \in Seq(Jobs) /\ Distinct(queue)
      BY DEF Inv, TypeOK, OnePlace, Distinct
    <3>2. Queued = Members(queue) /\ Queued' = Members(queue')
      BY DEF Queued, Members
    <3> QED BY <2>1, <3>1, <3>2, PoppedMembers
  <2>3. job[w] = NoJob /\ h # NoJob
    BY <2>1, <2>2, PoolAssumption DEF Inv, Attached
  <2>4. Held' = Held \cup {h}
    BY <2>1, <2>3, HeldTaken DEF Inv
  <2> QED BY <2>1, <2>2, <2>4 DEF Kept
<1>4. ASSUME NEW w \in Workers, RunJob(w) PROVE Kept \subseteq Kept'
  <2>1. /\ finished' = finished \cup {job[w]}
        /\ job' = [job EXCEPT ![w] = NoJob]
        /\ UNCHANGED queue
    BY <1>4 DEF RunJob
  <2>2. Held' = Held \ {job[w]} /\ Queued' = Queued
    BY <2>1, HeldDropped DEF Inv, Queued
  <2> QED BY <2>1, <2>2 DEF Kept
<1>5. ASSUME NEW w \in Workers, Worker(w), ~GotJob(w), ~RunJob(w)
      PROVE  UNCHANGED <<queue, job, finished>>
  BY <1>5 DEF Worker, CheckExit, CheckAfterDone, CountJobs, CheckAfterDoneAgain,
              WaitForJob, GotNothing, Block, WokenEmpty, TimedOut
<1>6. CASE CallInitialize \/ CallStop \/ CallStopAfterAllDone \/ CallWait
  BY <1>1, <1>6 DEF CallInitialize, CallStop, CallStopAfterAllDone, CallWait
<1>7. ASSUME Owner PROVE UNCHANGED <<queue, job, finished>>
  BY <1>7 DEF Owner, Terminate, SetExit, SetExitAfterDone, Return
<1>8. CASE UNCHANGED vars
  BY <1>1, <1>8 DEF vars
<1> QED BY <1>1, <1>2, <1>3, <1>4, <1>5, <1>6, <1>7, <1>8 DEF Next

(* Only the clear() of initialize() and that of wait() drop jobs: no       *)
(* leaving worker, no lost notification and no stop does.                  *)
THEOREM AlwaysOnlyClearDrops == Spec => OnlyClearDrops
<1>1. Inv /\ [Next]_vars =>
        [\A j \in Jobs : j \in Queued \cup Held \cup finished =>
           j \in (Queued \cup Held \cup finished)' \/ Spawn \/ Joined]_vars
  BY NothingElseDrops DEF Kept
<1> QED BY <1>1, InvHolds, PTL DEF Spec, OnlyClearDrops
=============================================================================

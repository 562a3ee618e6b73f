-------------------------------- MODULE Loop --------------------------------
(***************************************************************************)
(* Event loops and their managers: MyLoop, EventLoopManager of a server,   *)
(* ClientLoopManager of a client.  Any thread may hand a loop functions    *)
(* and timers and stop it; a loop's thread runs its callbacks one after    *)
(* the other; the program's main thread initialises the manager, waits     *)
(* for it and destroys it.  What the callbacks do is left to ServerChannel *)
(* and ClientConn.                                                         *)
(*                                                                         *)
(* The idle watcher is never stopped while a loop runs, so libev never     *)
(* blocks; onIdle changes nothing here and is left out.  Timers may        *)
(* expire at any moment.                                                   *)
(***************************************************************************)
EXTENDS Naturals, Sequences, FiniteSets

CONSTANTS
  NumLoops,  \* initialize()'s argument
  Tasks,     \* functions handed to the loops, each once
  Timers,    \* watchers made by RunInThreadAfterDelay and ...AndRepeat
  Main, Other, \* two threads that call the managers
  NoLoop

Loops == 1 .. NumLoops
QueueWatcher(l) == <<"queue", l>>
BuiltIn(l) == {QueueWatcher(l), <<"idle", l>>}
AllWatchers == Timers \cup UNION {BuiltIn(l) : l \in Loops}
Threads == {Main, Other}

ASSUME LoopAssumption ==
  /\ NumLoops \in Nat
  /\ NoLoop \notin Nat
  /\ Timers \cap UNION {BuiltIn(l) : l \in Loops} = {}
  /\ Main # Other

VARIABLES
  queue,       \* queue_ of each loop
  unsignalled, \* <<task, loop>> pushed by a thread that has yet to signal
  ran,         \* functions run
  pc,          \* where each loop's thread is
  exit,        \* exit_
  joined,      \* threads that were joined
  call,        \* the manager call each thread is in
  side,        \* which manager this is
  dead,        \* join() has thrown and the process has ended
  list, listened, lasting, home, active, pending,
  adding,      \* <<timer, loop>> whose add() has started it and not ended
  mixed         \* loops whose timers libev may have mixed up

INSTANCE Watcher WITH Watchers <- AllWatchers

queueVars == <<queue, unsignalled, ran>>
timerVars == <<adding, mixed>>
eventVars == <<list, listened, lasting, home, active, pending, timerVars>>
(* All but pending. *)
watchVars == <<list, listened, lasting, home, active, timerVars>>
managerVars == <<joined, call, dead>>
loopVars == <<queue, unsignalled, ran, pc, exit, joined, call, side, dead,
          list, listened, lasting, home, active, pending, adding, mixed>>

NoCall == [op |-> "idle", at |-> 1, half |-> FALSE]

LoopInit ==
  /\ queue = [l \in Loops |-> <<>>]
  /\ unsignalled = {}
  /\ ran = {}
  /\ pc = [l \in Loops |-> "absent"]
  /\ exit = [l \in Loops |-> FALSE]
  /\ joined = {}
  /\ call = [a \in Threads |-> IF a = Main THEN [NoCall EXCEPT !.op = "start"]
                               ELSE NoCall]
  /\ side \in {"server", "client"}
  /\ dead = FALSE
  /\ adding = {} /\ mixed = {}
  /\ WInit

Queued == UNION {{queue[l][i] : i \in DOMAIN queue[l]} : l \in Loops}
Fresh == Tasks \ (Queued \cup ran)
Adding == {entry[1] : entry \in adding}
(* A loop may be used from the moment it is in loops_ until it is deleted. *)
Usable(l) == pc[l] \notin {"absent", "deleted"} /\ ~dead
-----------------------------------------------------------------------------
(* RunInThreadOrImmediate from another thread: pushBack, then, under the   *)
(* lock, signal.                                                           *)
Post(t, l) ==
  /\ Usable(l) /\ t \in Fresh
  /\ queue' = [queue EXCEPT ![l] = Append(queue[l], t)]
  /\ unsignalled' = unsignalled \cup {<<t, l>>}
  /\ UNCHANGED <<ran, pc, exit, managerVars, side, eventVars>>

(* Mutant: a signal is sent only for an empty queue. *)
SignalIfFirst(t, l) ==
  /\ Usable(l) /\ <<t, l>> \in unsignalled
  /\ unsignalled' = unsignalled \ {<<t, l>>}
  /\ pending' = IF Len(queue[l]) = 1
                THEN Signalled(QueueWatcher(l)) ELSE pending
  /\ UNCHANGED <<queue, ran, pc, exit, managerVars, side, watchVars>>

Signal(t, l) ==
  /\ Usable(l) /\ <<t, l>> \in unsignalled
  /\ unsignalled' = unsignalled \ {<<t, l>>}
  /\ pending' = Signalled(QueueWatcher(l))
  /\ UNCHANGED <<queue, ran, pc, exit, managerVars, side, watchVars>>

(* RunInThreadAfterDelay and RunInThreadAfterDelayAndRepeat, from one of   *)
(* the loop's callbacks.                                                   *)
Delay(w, l) ==
  /\ pc[l] = "drain" /\ ~dead
  /\ w \in Timers \ Adding
  /\ \E Repeating \in SUBSET {w} : CreateAndAdd({w}, Repeating, l)
  /\ UNCHANGED <<queueVars, pc, exit, managerVars, side, timerVars>>

(* From another thread.  The loop's mutex keeps such calls apart from each *)
(* other, not from the loop's thread: ev_timer_start meets libev's own use *)
(* of the timers, a heap and a count without a lock.                       *)
DelayFrom(w, l) ==
  /\ Usable(l)
  /\ w \in Timers \ Adding
  /\ \E Repeating \in SUBSET {w} : CreateAndStart(w, Repeating, l)
  /\ adding' = adding \cup {<<w, l>>}
  /\ \/ UNCHANGED mixed
     \/ pc[l] \in {"poll", "drain", "check", "leave"} /\ mixed' = mixed \cup {l}
  /\ UNCHANGED <<queueVars, pc, exit, managerVars, side>>

Delayed(w, l) ==
  /\ Usable(l)
  /\ <<w, l>> \in adding
  /\ adding' = adding \ {<<w, l>>}
  /\ Noted(w, l)
  /\ UNCHANGED <<queueVars, pc, exit, managerVars, side, mixed>>

(* destroy() of the watchers W.  One that add() has not finished with is   *)
(* not listened to yet, so it is not stopped, and is written to later.     *)
Scrap(W, events) ==
  /\ Destroy(W, events)
  /\ mixed' = mixed \cup {l \in Loops : \E w \in W : <<w, l>> \in adding}
  /\ UNCHANGED adding
-----------------------------------------------------------------------------
(* The loop's thread. *)
Goto(l, from, to) == pc[l] = from /\ pc' = [pc EXCEPT ![l] = to] /\ ~dead

Expire(w, l) ==
  /\ pc[l] = "poll" /\ ~dead /\ w \in Timers
  /\ Raise(w, l)
  /\ UNCHANGED <<queueVars, pc, exit, managerVars, side, timerVars>>

(* Timers that were mixed up: any of them may be lost, or be there again,  *)
(* those that do not exist any more too; or the process ends.              *)
MixUp(l) ==
  /\ pc[l] = "poll" /\ l \in mixed /\ ~dead
  /\ \/ dead' = TRUE /\ UNCHANGED active
     \/ /\ \E There \in SUBSET Timers :
             active' = {e \in active : e[1] \notin Timers \/ e[2] # l} \cup (There \X {l})
        /\ UNCHANGED dead
  /\ UNCHANGED <<queueVars, pc, exit, joined, call, side, list, listened, lasting,
                 home, pending, timerVars>>

(* start(): while (!exit_). *)
Enter(l) ==
  /\ Goto(l, "begin", IF exit[l] THEN "done" ELSE "poll")
  /\ UNCHANGED <<queueVars, exit, managerVars, side, eventVars>>

(* The queue watcher's callback begins. *)
Wake(l) ==
  /\ Goto(l, "poll", "drain")
  /\ <<QueueWatcher(l), l>> \in pending
  /\ pending' = pending \ {<<QueueWatcher(l), l>>}
  /\ UNCHANGED <<queueVars, exit, managerVars, side, watchVars>>

(* Mutant: the newest function first. *)
RunNewest(l) ==
  /\ pc[l] = "drain" /\ queue[l] # <<>> /\ ~dead
  /\ queue' = [queue EXCEPT ![l] = SubSeq(queue[l], 1, Len(queue[l]) - 1)]
  /\ \E called \in SUBSET Fresh :
       /\ Cardinality(called) <= 1
       /\ ran' = ran \cup {queue[l][Len(queue[l])]} \cup called
  /\ UNCHANGED <<unsignalled, pc, exit, managerVars, side, eventVars>>

(* Runs the oldest.  What that hands to its own loop in turn is run at     *)
(* once.  Bound: one function does so with one other at most.              *)
Run(l) ==
  /\ pc[l] = "drain" /\ queue[l] # <<>> /\ ~dead
  /\ queue' = [queue EXCEPT ![l] = Tail(queue[l])]
  /\ \E called \in SUBSET Fresh :
       /\ Cardinality(called) <= 1
       /\ ran' = ran \cup {Head(queue[l])} \cup called
  /\ UNCHANGED <<unsignalled, pc, exit, managerVars, side, eventVars>>

Drained(l) ==
  /\ queue[l] = <<>>
  /\ Goto(l, "drain", "check")
  /\ UNCHANGED <<queueVars, exit, managerVars, side, eventVars>>

(* if (exit_) ev_break: what is pending is still invoked. *)
Check(l) ==
  /\ Goto(l, "check", IF exit[l] THEN "leave" ELSE "poll")
  /\ UNCHANGED <<queueVars, exit, managerVars, side, eventVars>>

(* A timer that libev may invoke on a loop. *)
Belongs(w, l) == w \in list /\ (home[w] = l \/ <<w, l>> \in adding)

(* A timer's function runs, in a watcher that now knows its loop;          *)
(* RunInThreadAfterDelay's then destroys it.                               *)
Fire(w, l) ==
  /\ pc[l] \in {"poll", "leave"} /\ ~dead
  /\ w \in Timers /\ <<w, l>> \in pending /\ Belongs(w, l)
  /\ LET events == pending \ {<<w, l>>}
     IN \/ /\ w \in lasting
           /\ home' = [home EXCEPT ![w] = l] /\ pending' = events
           /\ UNCHANGED <<list, listened, lasting, active, timerVars>>
        \/ w \notin lasting /\ Scrap({w}, events)
  /\ UNCHANGED <<queueVars, pc, exit, managerVars, side>>

(* Undefined: the run ends there. *)
FireStray(w, l) ==
  /\ pc[l] \in {"poll", "leave"} /\ ~dead
  /\ w \in Timers /\ <<w, l>> \in pending /\ ~Belongs(w, l)
  /\ dead' = TRUE
  /\ UNCHANGED <<queueVars, pc, exit, joined, call, side, eventVars>>

(* A callback of this loop gives up a watcher: remove(), which only stops  *)
(* it, or the manager's destroy().                                         *)
Cancel(w, l) ==
  /\ pc[l] = "drain" /\ ~dead
  /\ w \in Timers /\ home[w] = l
  /\ \/ Subtract(w) /\ UNCHANGED timerVars
     \/ Scrap({w}, pending)
  /\ UNCHANGED <<queueVars, pc, exit, managerVars, side>>

(* ev_run returns, start() sleeps a second and leaves. *)
Left(l) ==
  /\ Goto(l, "leave", "done")
  /\ \A w \in Timers : <<w, l>> \notin pending
  /\ UNCHANGED <<queueVars, exit, managerVars, side, eventVars>>

(* What happens to timers. *)
Timing(l) ==
  \/ \E w \in Timers : \/ Delay(w, l) \/ DelayFrom(w, l) \/ Delayed(w, l)
                       \/ Expire(w, l) \/ Fire(w, l) \/ FireStray(w, l)
                       \/ Cancel(w, l)
  \/ MixUp(l)

Callback(l) == Enter(l) \/ Run(l) \/ Drained(l) \/ Check(l) \/ Left(l)
-----------------------------------------------------------------------------
(* The manager's calls, a loop at a time. *)
AtLoop(a, op) == call[a].op = op /\ call[a].at \in Loops /\ ~dead
Onward(a) ==
  call' = [call EXCEPT ![a].at = @ + 1, ![a].half = FALSE]
Ended(a, op) == call[a].op = op /\ call[a].at \notin Loops /\ ~dead
Becomes(a, op) == call' = [call EXCEPT ![a] = [NoCall EXCEPT !.op = op]]

(* initialize(): a loop with its two watchers, then its thread.            *)
Launch ==
  /\ AtLoop(Main, "start")
  /\ pc' = [pc EXCEPT ![call[Main].at] = "begin"]
  /\ LET l == call[Main].at
     IN CreateAndAdd(BuiltIn(l), BuiltIn(l), l)
  /\ Onward(Main)
  /\ UNCHANGED <<queueVars, exit, joined, dead, side, timerVars>>

(* Nobody calls a manager before it is initialised or while it is being    *)
(* destroyed.                                                              *)
Begin(a, op) ==
  /\ call[a].op = "idle" /\ call[Main].op \in {"idle", "wait"} /\ ~dead
  /\ op = "destroy" => call[Other].op = "idle"
  /\ Becomes(a, op)
  /\ UNCHANGED <<queueVars, pc, exit, joined, dead, side, eventVars>>

(* stop() of one loop: the flag, and the signal. *)
SetExit(a) ==
  /\ AtLoop(a, "stop") \/ AtLoop(a, "destroy")
  /\ ~call[a].half
  /\ exit' = [exit EXCEPT ![call[a].at] = TRUE]
  /\ call' = [call EXCEPT ![a].half = TRUE]
  /\ UNCHANGED <<queueVars, pc, joined, dead, side, eventVars>>

(* Mutant: the loop finds out by itself. *)
SignalStopNever(a) ==
  /\ AtLoop(a, "stop") \/ AtLoop(a, "destroy")
  /\ call[a].half
  /\ Onward(a)
  /\ UNCHANGED <<queueVars, pc, exit, joined, dead, side, eventVars>>

SignalStop(a) ==
  /\ AtLoop(a, "stop") \/ AtLoop(a, "destroy")
  /\ call[a].half
  /\ pending' = Signalled(QueueWatcher(call[a].at))
  /\ Onward(a)
  /\ UNCHANGED <<queueVars, pc, exit, joined, dead, side, watchVars>>

(* join(): throws for a thread that was joined before, else waits for it.  *)
Join(a) ==
  LET l == call[a].at
  IN /\ \/ l \in joined /\ dead' = TRUE /\ UNCHANGED joined
        \/ l \notin joined /\ pc[l] = "done" /\ joined' = joined \cup {l}
             /\ UNCHANGED dead
     /\ Onward(a)
     /\ UNCHANGED <<queueVars, pc, exit, side, eventVars>>

(* The server's wait() joins the threads of loops told to exit, passes     *)
(* over the others and is called again; the client's joins every thread.   *)
WaitServer ==
  /\ AtLoop(Main, "wait") /\ side = "server"
  /\ \/ exit[call[Main].at] /\ Join(Main)
     \/ /\ ~exit[call[Main].at]
        /\ Onward(Main)
        /\ UNCHANGED <<queueVars, pc, exit, joined, dead, side, eventVars>>

WaitClient == AtLoop(Main, "wait") /\ side = "client" /\ Join(Main)

JoinAll == AtLoop(Main, "join all") /\ Join(Main)

Return(a) ==
  /\ \/ (Ended(a, "start") \/ Ended(a, "stop") \/ Ended(a, "wait"))
          /\ Becomes(a, "idle")
     \/ Ended(a, "destroy") /\ Becomes(a, "join all")
  /\ UNCHANGED <<queueVars, pc, exit, joined, dead, side, eventVars>>

(* The manager's destructor ends with the loops': two watchers each.       *)
Delete ==
  /\ Ended(Main, "join all")
  /\ Becomes(Main, "gone")
  /\ pc' = [l \in Loops |-> "deleted"]
  /\ Scrap(UNION {BuiltIn(l) : l \in Loops}, pending)
  /\ UNCHANGED <<queueVars, exit, joined, dead, side>>

(* ~MyWatcherManager, when the program ends: every watcher left.           *)
Purge ==
  /\ call[Main].op = "gone" /\ list # {} /\ ~dead
  /\ Scrap(list, pending)
  /\ UNCHANGED <<queueVars, pc, exit, managerVars, side>>

Manager(a) ==
  SetExit(a) \/ SignalStop(a) \/ Return(a)

LoopNext ==
  \/ \E l \in Loops : \/ \E t \in Tasks : Post(t, l) \/ Signal(t, l)
                      \/ Timing(l) \/ Wake(l) \/ Callback(l)
  \/ Begin(Main, "wait") \/ Begin(Main, "destroy") \/ Begin(Other, "stop")
  \/ \E a \in Threads : Manager(a)
  \/ Launch \/ WaitServer \/ WaitClient \/ JoinAll \/ Delete \/ Purge

(* Threads run, libev invokes all that is pending before it looks for      *)
(* more, and whoever pushed a function goes on to signal.                  *)
LoopFairness ==
  /\ \A l \in Loops : WF_loopVars(Wake(l)) /\ WF_loopVars(Callback(l))
  /\ \A l \in Loops, w \in Timers : WF_loopVars(Fire(w, l) \/ FireStray(w, l))
  /\ \A l \in Loops, t \in Tasks : WF_loopVars(Signal(t, l))
  /\ \A a \in Threads : WF_loopVars(Manager(a))

LoopSpec == LoopInit /\ [][LoopNext]_loopVars /\ LoopFairness
-----------------------------------------------------------------------------
PCs == {"absent", "begin", "poll", "drain", "check", "leave", "done", "deleted"}
Ops == {"idle", "start", "stop", "wait", "destroy", "join all", "gone"}

LoopTypeOK ==
  /\ queue \in [Loops -> Seq(Tasks)]
  /\ unsignalled \subseteq Tasks \X Loops
  /\ ran \subseteq Tasks
  /\ pc \in [Loops -> PCs]
  /\ exit \in [Loops -> BOOLEAN]
  /\ joined \subseteq Loops
  /\ call \in [Threads -> [op : Ops, at : 1 .. NumLoops + 1, half : BOOLEAN]]
  /\ side \in {"server", "client"}
  /\ dead \in BOOLEAN
  /\ list \subseteq AllWatchers
  /\ listened \subseteq list /\ lasting \subseteq list
  /\ home \in [AllWatchers -> Loops \cup {NoLoop}]
  /\ active \subseteq AllWatchers \X Loops
  /\ pending \subseteq AllWatchers \X Loops
  /\ adding \subseteq Timers \X Loops /\ mixed \subseteq Loops

(* A loop does not poll beside work or a request to stop that nobody will  *)
(* tell it of: the queue and exit_ are looked at in an order that no       *)
(* push, signal or stop() in between can slip through.                     *)
NoneStranded ==
  \A l \in Loops :
    pc[l] \in {"poll", "check"} /\ ~dead =>
      \/ <<QueueWatcher(l), l>> \in pending
      \/ /\ queue[l] # <<>> => \E t \in Tasks : <<t, l>> \in unsignalled
         /\ exit[l] /\ pc[l] = "poll" =>
              \E a \in Threads : call[a].half /\ call[a].at = l

(* What libev may invoke is a watcher that exists and belongs on that loop,*)
(* whoever destroyed others in between and whichever order loops, manager  *)
(* and timers end in, but for the timers of a loop where another thread's  *)
(* start met the loop's thread, or a timer died before its add() ended; no *)
(* loop is deleted under its thread.                                       *)
ServedAlive ==
  /\ \A l \in Loops, w \in AllWatchers :
       <<w, l>> \in active \cup pending => Belongs(w, l) \/ (w \in Timers /\ l \in mixed)
  /\ \A l \in Loops : pc[l] = "deleted" => l \in joined

(* The loops are mailboxes. *)
Abstract == INSTANCE Mailbox
  WITH mail <- queue, done <- ran,
       left <- {l \in Loops : pc[l] \in {"leave", "done", "deleted"}}
Implements == Abstract!Spec

(* A function handed to a loop that nobody stops is run. *)
TaskRuns ==
  \A l \in Loops : \A t \in Tasks :
    (\E i \in DOMAIN queue[l] : queue[l][i] = t) ~> (t \in ran \/ exit[l] \/ dead)

(* A loop told to stop leaves: its thread can be joined. *)
StopEnds == \A l \in Loops : exit[l] ~> (pc[l] \in {"done", "deleted"} \/ dead)

(* Neither a function nor a stop is overlooked. *)
Heeded == TaskRuns /\ StopEnds
=============================================================================

----------------------------- MODULE ThreadQueue -----------------------------
(***************************************************************************)
(* MyThreadQueue (util/MyQueue.h): a deque guarded by a mutex, with one    *)
(* condition variable.  Each action is one critical section.  A popFront   *)
(* that blocks is two: Block gives the mutex up inside cond_.wait or       *)
(* wait_for, and one of Woken..., TimedOut takes it again.  wait has no    *)
(* loop and no predicate, so a spurious or overtaken wake-up returns       *)
(* false; wait_for answers timeout when the clock has passed the deadline, *)
(* also to a thread that was notified, and then nothing is popped.         *)
(*                                                                         *)
(* The next-state relation lets any thread use the queue, as ThreadPool's  *)
(* workers (timed popFront) and MyLoop (popFront that polls) do in turn;   *)
(* ThreadPool uses the same operators under the workers' control flow.     *)
(***************************************************************************)
EXTENDS Naturals, Sequences, FiniteSets

CONSTANTS
  Timed,     \* threads that call popFront with a time limit
  Blocking,  \* other threads, that call popFront(t) or popFront(t, -1)
  Items     \* what is pushed, each value once

Takers == Timed \cup Blocking

VARIABLES
  elements,     \* queue_
  waiting,   \* threads asleep on cond_
  notified   \* threads taken off cond_ that do not have the mutex yet

qvars == <<elements, waiting, notified>>

QInit == elements = <<>> /\ waiting = {} /\ notified = {}

Busy(t) == t \in waiting \cup notified

(* Mutant: the notified thread also stays on the condition variable. *)
NotifyOneKeeps ==
  IF waiting = {}
  THEN UNCHANGED <<waiting, notified>>
  ELSE \E t \in waiting : waiting' = waiting /\ notified' = notified \cup {t}

(* cond_.notify_one(): one sleeper, if there is one. *)
NotifyOne ==
  IF waiting = {}
  THEN UNCHANGED <<waiting, notified>>
  ELSE \E t \in waiting : /\ waiting' = waiting \ {t}
                          /\ notified' = notified \cup {t}

PushBack(v) == elements' = Append(elements, v) /\ NotifyOne

(* Mutant: pushFront forgets the notification. *)
PushFrontSilently(v) == elements' = <<v>> \o elements /\ UNCHANGED <<waiting, notified>>

PushFront(v) == elements' = <<v>> \o elements /\ NotifyOne

(* notify_one once for each of two elements, under one lock: a thread      *)
(* notified in the loop cannot run before its end.                         *)
NotifyTwo ==
  \E S \in SUBSET waiting :
    /\ Cardinality(S) = 2 \/ (S = waiting /\ Cardinality(S) < 2)
    /\ waiting' = waiting \ S
    /\ notified' = notified \cup S

(* pushBack(const QueueType&) *)
PushBackTwo(v, u) == elements' = elements \o <<v, u>> /\ NotifyTwo

(* pushFront(const QueueType&) puts each element before the last one. *)
PushFrontTwo(v, u) == elements' = <<u, v>> \o elements /\ NotifyTwo

ClearAll == elements' = <<>> /\ UNCHANGED <<waiting, notified>>

Notify == NotifyOne /\ UNCHANGED elements

NotifyAll ==
  /\ waiting' = {}
  /\ notified' = notified \cup waiting
  /\ UNCHANGED elements

(* popFront finds an element. *)
PopNow(t) ==
  /\ ~Busy(t)
  /\ elements # <<>>
  /\ elements' = Tail(elements)
  /\ UNCHANGED <<waiting, notified>>

(* popFront goes to sleep. *)
Block(t) ==
  /\ ~Busy(t)
  /\ elements = <<>>
  /\ waiting' = waiting \cup {t}
  /\ UNCHANGED <<elements, notified>>

Leave(t) == waiting' = waiting \ {t} /\ notified' = notified \ {t}

(* Mutant: the element returned stays in the queue. *)
WokenPopKeeps(t) == Busy(t) /\ elements # <<>> /\ Leave(t) /\ UNCHANGED elements

(* Notified, or awake for no reason, in time: the head is returned. *)
WokenPop(t) ==
  /\ Busy(t)
  /\ elements # <<>>
  /\ elements' = Tail(elements)
  /\ Leave(t)

(* The same, but the queue is (again) empty: popFront returns false. *)
WokenEmpty(t) ==
  /\ Busy(t)
  /\ elements = <<>>
  /\ Leave(t)
  /\ UNCHANGED elements

(* wait_for answers timeout: false, whatever the queue holds now. *)
TimedOut(t) ==
  /\ t \in Timed
  /\ Busy(t)
  /\ Leave(t)
  /\ UNCHANGED elements
=============================================================================

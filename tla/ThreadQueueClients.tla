------------------------- MODULE ThreadQueueClients -------------------------
(***************************************************************************)
(* MyThreadQueue under arbitrary clients: threads that push single values  *)
(* or pairs at either end, pop with and without a time limit, clear, and   *)
(* notify.  The history variables say which values were pushed and where   *)
(* they went.                                                              *)
(***************************************************************************)
EXTENDS ThreadQueue, SequencesExt, FiniteSetsExt

VARIABLES
  pushed,   \* values pushed so far
  popped,   \* sequence of the values popFront returned
  cleared,  \* values dropped by clear()
  late      \* threads that were notified and then timed out, since the
            \* queue was last empty

queueingVars == <<elements, waiting, notified, pushed, popped, cleared, late>>

QueueInit == QInit /\ pushed = {} /\ popped = <<>> /\ cleared = {} /\ late = {}

PushSome ==
  /\ \/ \E v \in Items \ pushed :
          /\ PushBack(v) \/ PushFront(v)
          /\ pushed' = pushed \cup {v}
     \/ \E v, u \in Items \ pushed :
          /\ v # u
          /\ PushBackTwo(v, u) \/ PushFrontTwo(v, u)
          /\ pushed' = pushed \cup {v, u}
  /\ UNCHANGED <<popped, cleared, late>>

TakeFront(t) ==
  /\ PopNow(t) \/ WokenPop(t)
  /\ popped' = Append(popped, Head(elements))
  /\ late' = IF elements' = <<>> THEN {} ELSE late
  /\ UNCHANGED <<pushed, cleared>>

GiveUp(t) ==
  /\ TimedOut(t)
  /\ late' = late \cup (IF elements # <<>> THEN {t} \cap notified ELSE {})
  /\ UNCHANGED <<pushed, popped, cleared>>

GoWithout(t) ==
  /\ Block(t) \/ WokenEmpty(t)
  /\ UNCHANGED <<pushed, popped, cleared, late>>

Empty ==
  /\ ClearAll
  /\ cleared' = cleared \cup ToSet(elements)
  /\ late' = {}
  /\ UNCHANGED <<pushed, popped>>

WakeSome == (Notify \/ NotifyAll) /\ UNCHANGED <<pushed, popped, cleared, late>>

QueueNext ==
  \/ PushSome
  \/ \E t \in Takers : TakeFront(t) \/ GoWithout(t) \/ GiveUp(t)
  \/ Empty
  \/ WakeSome

QueueSpec == QueueInit /\ [][QueueNext]_queueingVars
-----------------------------------------------------------------------------
QueueTypeOK ==
  /\ elements \in Seq(Items)
  /\ waiting \subseteq Takers
  /\ notified \subseteq Takers \ waiting
  /\ pushed \subseteq Items
  /\ popped \in Seq(Items)
  /\ cleared \subseteq Items
  /\ late \subseteq Timed

(* A value pushed is in the queue, or was returned to one caller, or was   *)
(* cleared, and is in one of these places only: no wake-up, late or        *)
(* spurious, loses an element or delivers it twice.                        *)
EachValueOnce ==
  /\ pushed = ToSet(elements) \cup ToSet(popped) \cup cleared
  /\ Len(elements) + Len(popped) + Cardinality(cleared) = Cardinality(pushed)

(* A sleeper never misses its element: as many threads are on their way to *)
(* the mutex as there are elements they could take, but for those whose    *)
(* time limit expired between their notification and the mutex (popFront   *)
(* gives such a notification up without waking another sleeper).           *)
NoStranded ==
  waiting # {} => Len(elements) <= Cardinality(notified) + Cardinality(late)
=============================================================================

------------------------------ MODULE Watcher -------------------------------
(***************************************************************************)
(* Watchers and their manager (net/ev/MyWatcher.h) over libev.  A watcher  *)
(* is an object libev keeps a plain pointer to; the manager keeps a list   *)
(* of those that exist.  libev is modelled from how the code uses it: per  *)
(* loop the watchers that are started and those whose event is waiting to  *)
(* be invoked.  Stopping a watcher takes it out of both.                   *)
(***************************************************************************)
CONSTANTS Watchers, Loops, NoLoop  \* NoLoop is none of the Loops

VARIABLES
  list,      \* watcher_list_: the objects that exist
  listened,  \* those with is_listened_
  lasting,   \* those whose event libev may raise again and again
  home,      \* event_.loop
  active,    \* libev: <<watcher, loop>> started
  pending    \* libev: <<watcher, loop>> to be invoked

WInit ==
  /\ list = {}
  /\ listened = {}
  /\ lasting = {}
  /\ home = [w \in Watchers |-> NoLoop]
  /\ active = {}
  /\ pending = {}

(* The manager's create() and the loop's add(), where nobody else meets    *)
(* them half done.  Those in Lasting are no timers or timers with repeat.  *)
CreateAndAdd(W, Lasting, l) ==
  /\ W \cap list = {}
  /\ list' = list \cup W
  /\ listened' = listened \cup W
  /\ lasting' = lasting \cup Lasting
  /\ home' = [w \in Watchers |-> IF w \in W THEN l ELSE home[w]]
  /\ active' = active \cup (W \X {l})
  /\ UNCHANGED pending

(* The two halves of a timer's: create() and ev_timer_start ...            *)
CreateAndStart(w, Lasting, l) ==
  /\ w \notin list
  /\ list' = list \cup {w}
  /\ lasting' = lasting \cup Lasting
  /\ active' = active \cup {<<w, l>>}
  /\ UNCHANGED <<listened, home, pending>>

(* ... and what append() then notes in the watcher, if there is still one. *)
Noted(w, l) ==
  /\ listened' = listened \cup ({w} \cap list)
  /\ home' = IF w \in list THEN [home EXCEPT ![w] = l] ELSE home
  /\ UNCHANGED <<list, lasting, active, pending>>

(* What subtract() stops: nothing for a watcher that has no loop yet.      *)
Stopped(W) == {<<w, home[w]>> : w \in {v \in W : home[v] # NoLoop}}

Subtract(w) ==
  /\ w \in list
  /\ active' = active \ Stopped({w})
  /\ pending' = pending \ Stopped({w})
  /\ listened' = listened \ {w}
  /\ UNCHANGED <<list, lasting, home>>

(* Mutant: destroy() deletes without stopping. *)
DestroyOnly(W, events) ==
  /\ list' = list \ W
  /\ active' = active
  /\ pending' = events
  /\ listened' = listened \ W
  /\ lasting' = lasting \ W
  /\ home' = [w \in Watchers |-> IF w \in W THEN NoLoop ELSE home[w]]

(* destroy() of the watchers W: off the list, stopped if listened, gone.   *)
(* events are the events waiting before the call.                          *)
Destroy(W, events) ==
  /\ list' = list \ W
  /\ active' = active \ Stopped(W \cap listened)
  /\ pending' = events \ Stopped(W \cap listened)
  /\ listened' = listened \ W
  /\ lasting' = lasting \ W
  /\ home' = [w \in Watchers |-> IF w \in W THEN NoLoop ELSE home[w]]

(* libev finds an event; it stops a timer without repeat by itself.        *)
Raise(w, l) ==
  /\ <<w, l>> \in active
  /\ pending' = pending \cup {<<w, l>>}
  /\ active' = IF w \in lasting THEN active ELSE active \ {<<w, l>>}
  /\ UNCHANGED <<list, listened, lasting, home>>

(* signal() of an async watcher, from any thread. *)
Signalled(w) ==
  pending \cup (IF home[w] # NoLoop THEN {<<w, home[w]>>} ELSE {})
=============================================================================

----------------------------- MODULE TimeoutMap -----------------------------
(***************************************************************************)
(* MyTimeoutMap and MyUniqueTimeoutMap (util/MyTimeoutMap.h): a map whose  *)
(* values expire, kept twice: values_ has each key's value and the second  *)
(* of its last use, keys_ the keys of each second (a slice).  Every call   *)
(* holds the mutex, so calls are atomic; the two classes differ in who     *)
(* owns a value, not in what they do to the two maps.                      *)
(*                                                                         *)
(* set_timeout() is called before anything is stored, and the clock starts *)
(* behind it, so now - timeout_ does not wrap.  The clock may be set back. *)
(***************************************************************************)
EXTENDS Integers, FiniteSets

CONSTANTS
  Keys,
  Values,
  Timeout,  \* timeout_
  LastNow   \* bound: the clock's last second

Seconds == Timeout .. LastNow

ASSUME TimeoutMapAssumption == Timeout \in Nat /\ LastNow \in Nat /\ Timeout <= LastNow

VARIABLES
  values,    \* values_: the value and the second of its last use
  slices,    \* keys_
  now,
  again,     \* keys whose slices may be stale: see NeverEarly
  off        \* random() has gone past the end of values_, or erase() has
             \* returned what was in a node it had freed

mapVars == <<values, slices, now, again, off>>

Put(f, x, y) == [z \in DOMAIN f \cup {x} |-> IF z = x THEN y ELSE f[z]]
Without(f, S) == [z \in DOMAIN f \ S |-> f[z]]
SliceAt(s) == IF s \in DOMAIN slices THEN slices[s] ELSE {}

MapInit ==
  /\ values = <<>> /\ slices = <<>>
  /\ now = Timeout
  /\ again = {} /\ off = FALSE

Clock ==
  /\ now' \in Seconds
  /\ UNCHANGED <<values, slices, again, off>>

(* The slice of the old second, of a key that is present, is not looked at.*)
Insert(k, v) ==
  /\ slices' = Put(slices, now, SliceAt(now) \cup {k})
  /\ values' = Put(values, k, [v |-> v, ts |-> now])
  /\ again' = IF k \in DOMAIN values /\ values[k].ts # now
              THEN again \cup {k} ELSE again
  /\ UNCHANGED <<now, off>>

(* k goes from the slice of `old` to the slice of now, which are made when *)
(* they are missing; an old slice that is empty now stays.                 *)
Moved(k, old) ==
  LET out == Put(slices, old, SliceAt(old) \ {k})
  IN Put(out, now, (IF now \in DOMAIN out THEN out[now] ELSE {}) \cup {k})

(* Mutant: the key stays in its old slice. *)
UpdateLeavesOld(k, v) ==
  /\ k \in DOMAIN values
  /\ values' = Put(values, k, [v |-> v, ts |-> now])
  /\ slices' = Put(slices, now, SliceAt(now) \cup {k})
  /\ UNCHANGED <<now, again, off>>

(* update(k, v); update(k) is the case of the value it has. *)
Update(k, v) ==
  /\ k \in DOMAIN values
  /\ values' = Put(values, k, [v |-> v, ts |-> now])
  /\ slices' = Moved(k, values[k].ts)
  /\ UNCHANGED <<now, again, off>>

(* k leaves values and the slice of its second, which goes if it is empty. *)
Erased(k) ==
  LET old == values[k].ts
      rest == SliceAt(old) \ {k}
  IN /\ values' = Without(values, {k})
     /\ slices' = IF rest = {} THEN Without(slices, {old}) ELSE Put(slices, old, rest)

Erase(k) ==
  /\ k \in DOMAIN values
  /\ Erased(k)
  /\ off' = TRUE
  /\ UNCHANGED <<now, again>>

(* movefirst() takes the least key, here any; it erases by a reference to  *)
(* the key inside the node it frees: the search in the slice may find the  *)
(* key or not.                                                             *)
MoveFirst ==
  /\ \E k \in DOMAIN values :
       \/ Erased(k) /\ UNCHANGED again
       \/ /\ values' = Without(values, {k})
          /\ slices' = Put(slices, values[k].ts, SliceAt(values[k].ts))
          /\ again' = again \cup {k}
  /\ UNCHANGED <<now, off>>

(* The index is drawn below the number of slices, not of values. *)
Random ==
  /\ values # <<>>
  /\ off' = (off \/ Cardinality(DOMAIN slices) > Cardinality(DOMAIN values))
  /\ UNCHANGED <<values, slices, now, again>>

Clear ==
  /\ values' = <<>> /\ slices' = <<>> /\ again' = {}
  /\ UNCHANGED <<now, off>>

(* All slices before now - timeout_ go with the keys in them, whatever     *)
(* second values_ has for a key.                                           *)
DoTimeout ==
  LET old == {s \in DOMAIN slices : s < now - Timeout}
      gone == UNION {slices[s] : s \in old}
  IN /\ values' = Without(values, gone)
     /\ slices' = Without(slices, old)
     /\ UNCHANGED <<now, again, off>>

MapNext ==
  \/ Clock \/ MoveFirst \/ Random \/ Clear \/ DoTimeout
  \/ \E k \in Keys : Erase(k) \/ \E v \in Values : Insert(k, v) \/ Update(k, v)

MapSpec == MapInit /\ [][MapNext]_mapVars
-----------------------------------------------------------------------------
MapTypeOK ==
  /\ DOMAIN values \subseteq Keys
  /\ \A k \in DOMAIN values : values[k] \in [v : Values, ts : Seconds]
  /\ DOMAIN slices \subseteq Seconds
  /\ \A s \in DOMAIN slices : slices[s] \subseteq Keys
  /\ now \in Seconds
  /\ again \subseteq Keys
  /\ off \in BOOLEAN

(* The two maps agree: each value is in the slice of its second, and a     *)
(* slice has no other keys, but those inserted over an older value or taken*)
(* by movefirst(): for such a key DoTimeout has no value, or a live one.   *)
Agree ==
  /\ \A k \in DOMAIN values : k \in SliceAt(values[k].ts)
  /\ \A s \in DOMAIN slices : \A k \in slices[s] \ again :
       k \in DOMAIN values /\ values[k].ts = s

(* No value outlives its time: what DoTimeout leaves was used within the   *)
(* timeout, whatever calls came before and however the clock went.         *)
OnTime == [][DoTimeout => \A k \in DOMAIN values' : values'[k].ts >= now - Timeout]_mapVars

(* A value that was used within the timeout is not taken by DoTimeout,     *)
(* unless its key was inserted over an older one, or taken by movefirst(), *)
(* and so may stand in a slice that is not its own.                        *)
NeverEarly ==
  [][DoTimeout =>
       \A k \in DOMAIN values \ again :
         values[k].ts >= now - Timeout => k \in DOMAIN values' /\ values'[k] = values[k]]_mapVars

(* DoTimeout goes by the slices, lookups by the values: what it takes is   *)
(* what is too old, no more and no less.                                   *)
TimeoutsRight == OnTime /\ NeverEarly
=============================================================================

------------------------------ MODULE Singleton ------------------------------
(***************************************************************************)
(* MySingleton: GetInstance() looks at a plain pointer, and again under the*)
(* lock before it makes the object; the object's destructor is left to the *)
(* end of the program, which other threads may live to see.  The watchers' *)
(* manager is used this way by every loop.  The lifetime policy says if    *)
(* the object comes back after that or GetInstance() throws; the creation  *)
(* policies differ in where the object lies.                               *)
(*                                                                         *)
(* The pointer is read without the lock while it is written: a reader may  *)
(* see it before the object is finished.                                   *)
(***************************************************************************)
EXTENDS Naturals, FiniteSets

CONSTANTS
  Users,      \* threads
  NumObjects  \* bound: objects made

NoObject == 0
Exit == "exit"
Nobody == "nobody"

ASSUME SingletonAssumption ==
  NumObjects \in Nat /\ Exit \notin Users /\ Nobody \notin Users

VARIABLES
  lifetime,   \* "default" or "phoenix"
  instance,   \* instance_
  destroyed,  \* is_destroyed_
  mutex,      \* who holds it
  made,       \* objects made
  alive,      \* objects whose constructor has ended and destructor not begun
  scheduled,  \* calls of destructor() that exit() will make
  doing,         \* of the users, and of the thread that calls exit()
  given         \* what each user was last given

singleVars == <<lifetime, instance, destroyed, mutex, made, alive, scheduled,
                doing, given>>

SingleInit ==
  /\ lifetime \in {"default", "phoenix"}
  /\ instance = NoObject /\ destroyed = FALSE
  /\ mutex = Nobody
  /\ made = 0 /\ alive = {} /\ scheduled = 0
  /\ doing = [t \in Users \cup {Exit} |-> "idle"]
  /\ given = [t \in Users |-> NoObject]

Goes(t, from, to) == doing[t] = from /\ doing' = [doing EXCEPT ![t] = to]
Lock(t) == mutex = Nobody /\ mutex' = t
Unlock(t) == mutex = t /\ mutex' = Nobody
-----------------------------------------------------------------------------
(* GetInstance *)
FirstTest(t) ==
  /\ IF instance # NoObject
     THEN /\ Goes(t, "idle", "idle")
          /\ given' = [given EXCEPT ![t] = instance]
     ELSE Goes(t, "idle", "lock") /\ UNCHANGED given
  /\ UNCHANGED <<lifetime, instance, destroyed, mutex, made, alive, scheduled>>

Take(t) ==
  /\ Lock(t) /\ Goes(t, "lock", "second")
  /\ UNCHANGED <<lifetime, instance, destroyed, made, alive, scheduled, given>>

Found(t) ==
  /\ instance # NoObject
  /\ Unlock(t) /\ Goes(t, "second", "idle")
  /\ given' = [given EXCEPT ![t] = instance]
  /\ UNCHANGED <<lifetime, instance, destroyed, made, alive, scheduled>>

(* DeadReference() throws. *)
Dead(t) ==
  /\ instance = NoObject /\ destroyed /\ lifetime = "default"
  /\ Unlock(t) /\ Goes(t, "second", "idle")
  /\ UNCHANGED <<lifetime, instance, destroyed, made, alive, scheduled, given>>

(* Mutant: the pointer is looked at once. *)
CreateAgain(t) ==
  /\ destroyed => lifetime = "phoenix"
  /\ made < NumObjects
  /\ Goes(t, "second", "build")
  /\ made' = made + 1
  /\ destroyed' = FALSE
  /\ instance' \in {instance, made + 1}
  /\ UNCHANGED <<lifetime, mutex, alive, scheduled, given>>

(* The pointer may be set before the constructor has run, or after. *)
Create(t) ==
  /\ instance = NoObject /\ (destroyed => lifetime = "phoenix")
  /\ made < NumObjects
  /\ Goes(t, "second", "build")
  /\ made' = made + 1
  /\ destroyed' = FALSE
  /\ instance' \in {instance, made + 1}
  /\ UNCHANGED <<lifetime, mutex, alive, scheduled, given>>

Created(t) ==
  /\ Unlock(t) /\ Goes(t, "build", "idle")
  /\ instance' = made
  /\ alive' = alive \cup {made}
  /\ scheduled' = scheduled + 1
  /\ given' = [given EXCEPT ![t] = made]
  /\ UNCHANGED <<lifetime, destroyed, made>>
-----------------------------------------------------------------------------
(* exit() calls destructor() once for each time it was scheduled. *)
Destructor ==
  /\ scheduled > 0
  /\ scheduled' = scheduled - 1
  /\ Goes(Exit, "idle", IF instance = NoObject THEN "idle" ELSE "lock")
  /\ UNCHANGED <<lifetime, instance, destroyed, mutex, made, alive, given>>

Destruct ==
  /\ Lock(Exit) /\ Goes(Exit, "lock", "destroy")
  /\ alive' = alive \ {instance}
  /\ UNCHANGED <<lifetime, instance, destroyed, made, scheduled, given>>

Destroyed ==
  /\ Unlock(Exit) /\ Goes(Exit, "destroy", "idle")
  /\ destroyed' = TRUE
  /\ instance' = NoObject
  /\ UNCHANGED <<lifetime, made, alive, scheduled, given>>

SingleNext ==
  \/ \E t \in Users : \/ FirstTest(t) \/ Take(t) \/ Found(t) \/ Dead(t)
                      \/ Create(t) \/ Created(t)
  \/ Destructor \/ Destruct \/ Destroyed

SingleSpec == SingleInit /\ [][SingleNext]_singleVars
-----------------------------------------------------------------------------
SingleTypeOK ==
  /\ instance \in 0 .. made /\ made \in 0 .. NumObjects
  /\ alive \subseteq 1 .. made
  /\ destroyed \in BOOLEAN
  /\ mutex \in Users \cup {Exit, Nobody}
  /\ scheduled \in 0 .. NumObjects
  /\ given \in [Users -> 0 .. NumObjects]

(* However threads meet in GetInstance(), there is one object at a time;   *)
(* what a thread was given is that object, finished or still being made by *)
(* another, until exit() destroys it; and the object destroyed is never one*)
(* that is still being made.                                               *)
OneInstance ==
  /\ Cardinality(alive) <= 1
  /\ instance # NoObject /\ doing[Exit] # "destroy" =>
       instance \in alive \/ \E t \in Users : doing[t] = "build"
  /\ \A t \in Users : given[t] = made /\ given[t] # NoObject =>
       given[t] = instance \/ doing[Exit] \in {"destroy"} \/ destroyed
  /\ doing[Exit] = "destroy" => \A t \in Users : doing[t] # "build"
=============================================================================

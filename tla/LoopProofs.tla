----------------------------- MODULE LoopProofs -----------------------------
(***************************************************************************)
(* Proofs about Loop, for any number of loops, functions and timers, and   *)
(* about Singleton, which every loop goes through to its watchers.         *)
(*                                                                         *)
(* LoopInv adds to the checked invariants what makes them inductive.       *)
(* Housed and Heard: a watcher with a loop exists, and what libev may      *)
(* invoke is listened to, so destroy() stops it, or is a timer whose add() *)
(* has not ended or that was mixed up.  Unsettled: it is one add() at most.*)
(* AtQueue: nobody stops a loop's queue watcher but to destroy it.         *)
(* Attended: a loop that may be used has one.                              *)
(* Course: how far the manager's calls are.  Unborn: no loop has work      *)
(* before its thread.  Told: NoneStranded, from the moment that begins.    *)
(* Apart: no function is in two places.                                    *)
(***************************************************************************)
EXTENDS Loop, Singleton, FiniteSetTheorems, TLAPS

RestTypeOK ==
  /\ queue \in [Loops -> Seq(Tasks)]
  /\ unsignalled \subseteq Tasks \X Loops
  /\ ran \subseteq Tasks
  /\ pc \in [Loops -> PCs]
  /\ exit \in [Loops -> BOOLEAN]
  /\ joined \subseteq Loops
  /\ call \in [Threads -> [op : Ops, at : 1 .. NumLoops + 1, half : BOOLEAN]]
  /\ side \in {"server", "client"}
  /\ dead \in BOOLEAN

WatchTypeOK ==
  /\ list \subseteq AllWatchers
  /\ listened \subseteq list /\ lasting \subseteq list
  /\ home \in [AllWatchers -> Loops \cup {NoLoop}]
  /\ active \subseteq AllWatchers \X Loops
  /\ pending \subseteq AllWatchers \X Loops
  /\ adding \subseteq Timers \X Loops /\ mixed \subseteq Loops

Housed == \A w \in AllWatchers : home[w] # NoLoop => w \in list

Heard ==
  \A l \in Loops, w \in AllWatchers : <<w, l>> \in active \cup pending =>
    \/ w \in listened /\ home[w] = l
    \/ w \in Timers /\ l \in mixed
    \/ w \in list /\ <<w, l>> \in adding

Unsettled ==
  \A w \in Timers, l \in Loops : <<w, l>> \in adding =>
    w \notin listened /\ \A m \in Loops : <<w, m>> \in adding => m = l

AtQueue ==
  \A l \in Loops :
    QueueWatcher(l) \in list =>
      QueueWatcher(l) \in listened /\ home[QueueWatcher(l)] = l

Watched == WatchTypeOK /\ Housed /\ Heard /\ Unsettled /\ AtQueue

Attended ==
  \A l \in Loops :
    pc[l] \notin {"absent", "deleted"} => QueueWatcher(l) \in list

Course ==
  /\ call[Main].op = "start" =>
       \A l \in Loops : l >= call[Main].at => pc[l] = "absent"
  /\ call[Main].op = "join all" =>
       \A l \in Loops : l < call[Main].at => l \in joined
  /\ call[Main].op = "gone" => \A l \in Loops : pc[l] = "deleted"
  /\ \A a \in Threads :
       call[a].half => call[a].op \in {"stop", "destroy"} /\ call[a].at \in Loops
  /\ \A l \in joined : pc[l] \in {"done", "deleted"}
  /\ \A l \in Loops : pc[l] = "deleted" => l \in joined

Unborn == \A l \in Loops : pc[l] = "absent" => queue[l] = <<>>

Noticed(l) ==
  \/ <<QueueWatcher(l), l>> \in pending
  \/ /\ queue[l] # <<>> => \E t \in Tasks : <<t, l>> \in unsignalled
     /\ exit[l] /\ pc[l] = "poll" =>
          \E a \in Threads : call[a].half /\ call[a].at = l

Told ==
  ~dead => \A l \in Loops : pc[l] \in {"begin", "poll", "check"} => Noticed(l)

Apart ==
  /\ \A l, m \in Loops : \A i \in DOMAIN queue[l], k \in DOMAIN queue[m] :
       queue[l][i] = queue[m][k] => l = m /\ i = k
  /\ \A l \in Loops : \A i \in DOMAIN queue[l] : queue[l][i] \notin ran

LoopInv ==
  RestTypeOK /\ Watched /\ Attended /\ Course /\ Unborn /\ Told /\ Apart

(* The lock's owner is the thread between it and the unlocking; an object  *)
(* that is alive is the one instance_ points to, none while one is made or *)
(* destroyed; a construction is scheduled for destruction when it has      *)
(* ended.                                                                  *)
SingleInv ==
  /\ SingleTypeOK
  /\ doing \in [Users \cup {Exit} ->
                  {"idle", "lock", "second", "build", "destroy"}]
  /\ \A t \in Users : /\ doing[t] # "destroy"
                      /\ doing[t] \in {"second", "build"} <=> mutex = t
  /\ doing[Exit] \in {"idle", "lock", "destroy"}
  /\ doing[Exit] = "destroy" <=> mutex = Exit
  /\ alive \subseteq {instance}
  /\ doing[Exit] = "destroy" => alive = {}
  /\ \A t \in Users : doing[t] = "build" => alive = {} /\ scheduled < made
  /\ scheduled <= made
  /\ \A t \in Users : given[t] <= made
  /\ OneInstance
-----------------------------------------------------------------------------
(* The singleton. *)
LEMMA AtMostOne == ASSUME NEW S, NEW x, S \subseteq {x} PROVE Cardinality(S) <= 1
<1>1. CASE S = {}
  BY <1>1, FS_EmptySet
<1>2. CASE S = {x}
  BY <1>2, FS_Singleton
<1> QED BY <1>1, <1>2

LEMMA SingleStart == SingleInit => SingleInv
<1> SUFFICES ASSUME SingleInit PROVE SingleInv
  OBVIOUS
<1>1. /\ NumObjects \in Nat /\ Exit \notin Users /\ Nobody \notin Users
      /\ Nobody # Exit
  BY SingletonAssumption DEF Nobody, Exit
<1>2. instance = 0 /\ made = 0 /\ alive = {} /\ scheduled = 0 /\ mutex = Nobody
  BY DEF SingleInit, NoObject
<1>3. \A t \in Users \cup {Exit} : doing[t] = "idle"
  BY DEF SingleInit
<1>4. SingleTypeOK
  <2>1. given \in [Users -> 0 .. NumObjects]
    BY <1>1 DEF SingleInit, NoObject
  <2>2. destroyed \in BOOLEAN
    BY DEF SingleInit
  <2> QED BY <1>1, <1>2, <2>1, <2>2 DEF SingleTypeOK
<1>5. OneInstance
  <2>1. Cardinality(alive) <= 1
    BY <1>2, AtMostOne
  <2> QED BY <1>2, <1>3, <2>1 DEF OneInstance, SingleInit, NoObject
<1> QED BY <1>1, <1>2, <1>3, <1>4, <1>5 DEF SingleInv, SingleInit, NoObject

LEMMA SingleStep == SingleInv /\ [SingleNext]_singleVars => SingleInv'
<1> SUFFICES ASSUME SingleInv, [SingleNext]_singleVars PROVE SingleInv'
  OBVIOUS
<1> USE SingletonAssumption DEF NoObject, Exit, Nobody
<1>1. CASE UNCHANGED singleVars
  BY <1>1 DEF SingleInv, SingleTypeOK, OneInstance, singleVars
<1>2. Cardinality(alive) <= 1
  BY DEF SingleInv, OneInstance
<1>3. ASSUME NEW t \in Users, FirstTest(t) PROVE SingleInv'
  BY <1>3 DEF SingleInv, SingleTypeOK, OneInstance, FirstTest, Goes
<1>4. ASSUME NEW t \in Users, Take(t) PROVE SingleInv'
  BY <1>4 DEF SingleInv, SingleTypeOK, OneInstance, Take, Goes, Lock
<1>5. ASSUME NEW t \in Users, Found(t) PROVE SingleInv'
  BY <1>5 DEF SingleInv, SingleTypeOK, OneInstance, Found, Goes, Unlock
<1>6. ASSUME NEW t \in Users, Dead(t) PROVE SingleInv'
  BY <1>6 DEF SingleInv, SingleTypeOK, OneInstance, Dead, Goes, Unlock
<1>7. ASSUME NEW t \in Users, Create(t) PROVE SingleInv'
  <2>1. /\ made' = made + 1 /\ made \in Nat /\ made' \in 0 .. NumObjects
        /\ instance = 0 /\ instance' \in {0, made'} /\ instance' \in 0 .. made'
        /\ UNCHANGED <<mutex, alive, scheduled, given>>
        /\ destroyed' = FALSE
    BY <1>7 DEF SingleInv, SingleTypeOK, Create
  <2>2. alive = {}
    BY <2>1 DEF SingleInv, SingleTypeOK
  <2>3. /\ doing[t] = "second" /\ doing' = [doing EXCEPT ![t] = "build"]
        /\ mutex = t
    BY <1>7 DEF Create, Goes, SingleInv
  <2>4. scheduled < made' /\ scheduled <= made' /\ \A u \in Users : given[u] < made'
    BY <2>1 DEF SingleInv, SingleTypeOK
  <2>5. SingleTypeOK'
    BY <2>1, <2>2 DEF SingleInv, SingleTypeOK
  <2>6. /\ doing' \in [Users \cup {Exit} ->
                        {"idle", "lock", "second", "build", "destroy"}]
        /\ \A u \in Users : /\ doing'[u] # "destroy"
                            /\ doing'[u] \in {"second", "build"} <=> mutex = u
        /\ doing'[t] = "build"
        /\ doing'[Exit] = doing[Exit] /\ doing[Exit] # "destroy"
    BY <2>3 DEF SingleInv
  <2>7. OneInstance'
    BY <1>2, <2>1, <2>4, <2>6 DEF OneInstance
  <2>8. /\ doing'[Exit] \in {"idle", "lock", "destroy"}
        /\ doing'[Exit] = "destroy" <=> mutex' = Exit
    BY <2>1, <2>6 DEF SingleInv
  <2>9. \A u \in Users : given'[u] <= made'
    BY <2>1, <2>4, <2>5 DEF SingleTypeOK
  <2>10. /\ alive' \subseteq {instance'} /\ alive' = {}
         /\ \A u \in Users : doing'[u] = "build" => alive' = {} /\ scheduled' < made'
         /\ scheduled' <= made'
    BY <2>1, <2>2, <2>4
  <2> QED BY <2>1, <2>5, <2>6, <2>7, <2>8, <2>9, <2>10 DEF SingleInv
<1>8. ASSUME NEW t \in Users, Created(t) PROVE SingleInv'
  <2>1. alive' = {made}
    BY <1>8 DEF SingleInv, Created, Goes
  <2>2. Cardinality(alive') <= 1
    BY <2>1, AtMostOne
  <2> QED BY <1>8, <2>1, <2>2
             DEF SingleInv, SingleTypeOK, OneInstance, Created, Goes, Unlock
<1>9. CASE Destructor
  BY <1>9 DEF SingleInv, SingleTypeOK, OneInstance, Destructor, Goes
<1>10. CASE Destruct
  <2>1. alive' = {}
    BY <1>10 DEF SingleInv, Destruct
  <2>2. Cardinality(alive') <= 1
    BY <2>1, AtMostOne
  <2> QED BY <1>10, <2>1, <2>2
             DEF SingleInv, SingleTypeOK, OneInstance, Destruct, Goes, Lock
<1>11. CASE Destroyed
  BY <1>11 DEF SingleInv, SingleTypeOK, OneInstance, Destroyed, Goes, Unlock
<1> QED BY <1>1, <1>3, <1>4, <1>5, <1>6, <1>7, <1>8, <1>9, <1>10, <1>11
        DEF SingleNext

(* Types of the instance and of those that ask for it.                     *)
THEOREM AlwaysSingleTyped == SingleSpec => []SingleTypeOK
<1>1. SingleInv => SingleTypeOK
  BY DEF SingleInv
<1> QED BY <1>1, SingleStart, SingleStep, PTL DEF SingleSpec

(* Threads that meet in GetInstance() are given one object, and exit()     *)
(* destroys none that is still being made, whichever lifetime policy.      *)
THEOREM AlwaysOneInstance == SingleSpec => []OneInstance
<1>1. SingleInv => OneInstance
  BY DEF SingleInv
<1> QED BY <1>1, SingleStart, SingleStep, PTL DEF SingleSpec
-----------------------------------------------------------------------------
(* The loops: which watchers are whose. *)
LEMMA QueueWatchers ==
  \A l \in Loops : /\ QueueWatcher(l) \in AllWatchers
                   /\ QueueWatcher(l) \notin Timers
                   /\ \A m \in Loops : QueueWatcher(m) \in BuiltIn(l) <=> m = l
                   /\ BuiltIn(l) \subseteq AllWatchers
<1> SUFFICES ASSUME NEW l \in Loops
             PROVE  /\ QueueWatcher(l) \in AllWatchers
                    /\ QueueWatcher(l) \notin Timers
                    /\ \A m \in Loops : QueueWatcher(m) \in BuiltIn(l) <=> m = l
                    /\ BuiltIn(l) \subseteq AllWatchers
  OBVIOUS
<1>1. QueueWatcher(l) \in BuiltIn(l) /\ BuiltIn(l) \subseteq UNION {BuiltIn(m) : m \in Loops}
  BY DEF BuiltIn
<1>2. \A m \in Loops : QueueWatcher(m) \in BuiltIn(l) <=> m = l
  BY DEF QueueWatcher, BuiltIn
<1> QED BY <1>1, <1>2, LoopAssumption DEF AllWatchers

LEMMA LoopsRange == \A l \in Loops : l \in Nat /\ ~(l < 1)
<1>1. NumLoops \in Nat
  BY LoopAssumption
<1> QED BY <1>1 DEF Loops

LEMMA NoLoopApart == NoLoop \notin Loops
BY LoopAssumption DEF Loops

(* What the watchers' operations keep. *)
LEMMA CreateKeeps ==
  ASSUME Watched, NEW W \in SUBSET AllWatchers, NEW R \in SUBSET W, NEW l \in Loops,
         \A m \in Loops : QueueWatcher(m) \in W => m = l,
         W \cap Adding = {}, CreateAndAdd(W, R, l), UNCHANGED timerVars
  PROVE  Watched' /\ list \subseteq list' /\ pending' = pending
<1>0. adding' = adding /\ mixed' = mixed
  BY DEF timerVars
<1>1. WatchTypeOK'
  BY <1>0 DEF Watched, WatchTypeOK, CreateAndAdd
<1>2. Housed'
  BY NoLoopApart DEF Watched, WatchTypeOK, Housed, CreateAndAdd
<1>3. Heard'
  <2> SUFFICES ASSUME NEW m \in Loops, NEW w \in AllWatchers,
                      <<w, m>> \in active' \cup pending'
               PROVE  \/ w \in listened' /\ home'[w] = m
                      \/ w \in Timers /\ m \in mixed
                      \/ w \in list' /\ <<w, m>> \in adding
    BY <1>0 DEF Heard
  <2>1. <<w, m>> \in active \cup pending \/ (w \in W /\ m = l)
    BY DEF CreateAndAdd
  <2>2. CASE w \in W /\ m = l
    BY <2>2 DEF CreateAndAdd
  <2>3. CASE <<w, m>> \in active \cup pending
    BY <2>3 DEF Watched, WatchTypeOK, Heard, CreateAndAdd
  <2> QED BY <2>1, <2>2, <2>3
<1>4. AtQueue'
  BY QueueWatchers DEF Watched, WatchTypeOK, AtQueue, CreateAndAdd
<1>5. Unsettled'
  <2>1. \A w \in Timers, m \in Loops : <<w, m>> \in adding => w \notin W
    BY DEF Adding
  <2> QED BY <1>0, <2>1 DEF Watched, Unsettled, CreateAndAdd
<1> QED BY <1>1, <1>2, <1>3, <1>4, <1>5 DEF Watched, CreateAndAdd

LEMMA StartKeeps ==
  ASSUME Watched, NEW w \in Timers, NEW l \in Loops, w \notin Adding,
         NEW R \in SUBSET {w}, CreateAndStart(w, R, l),
         adding' = adding \cup {<<w, l>>}, mixed \subseteq mixed', mixed' \subseteq Loops
  PROVE  Watched' /\ list \subseteq list' /\ pending' = pending
<1>0. w \in AllWatchers
  BY DEF AllWatchers
<1>1. WatchTypeOK'
  BY <1>0 DEF Watched, WatchTypeOK, CreateAndStart
<1>2. Housed'
  BY DEF Watched, WatchTypeOK, Housed, CreateAndStart
<1>3. Heard'
  <2> SUFFICES ASSUME NEW m \in Loops, NEW v \in AllWatchers,
                      <<v, m>> \in active' \cup pending'
               PROVE  \/ v \in listened' /\ home'[v] = m
                      \/ v \in Timers /\ m \in mixed'
                      \/ v \in list' /\ <<v, m>> \in adding'
    BY DEF Heard
  <2>1. <<v, m>> \in active \cup pending \/ (v = w /\ m = l)
    BY DEF CreateAndStart
  <2>2. CASE v = w /\ m = l
    BY <2>2 DEF CreateAndStart
  <2>3. CASE <<v, m>> \in active \cup pending
    BY <2>3 DEF Watched, WatchTypeOK, Heard, CreateAndStart
  <2> QED BY <2>1, <2>2, <2>3
<1>4. AtQueue'
  BY QueueWatchers DEF Watched, AtQueue, CreateAndStart
<1>5. Unsettled'
  <2>1. \A m \in Loops : <<w, m>> \notin adding
    BY DEF Adding
  <2>2. w \notin listened
    BY DEF Watched, WatchTypeOK, CreateAndStart
  <2> QED BY <2>1, <2>2 DEF Watched, Unsettled, CreateAndStart
<1> QED BY <1>1, <1>2, <1>3, <1>4, <1>5 DEF Watched, CreateAndStart

LEMMA NotedKeeps ==
  ASSUME Watched, NEW w \in Timers, NEW l \in Loops, <<w, l>> \in adding,
         Noted(w, l), adding' = adding \ {<<w, l>>}, mixed' = mixed
  PROVE  Watched' /\ list' = list /\ pending' = pending
<1>0. w \in AllWatchers
  BY DEF AllWatchers
<1>1. WatchTypeOK'
  BY <1>0 DEF Watched, WatchTypeOK, Noted
<1>2. Housed'
  BY DEF Watched, WatchTypeOK, Housed, Noted
<1>3. Heard'
  <2> SUFFICES ASSUME NEW m \in Loops, NEW v \in AllWatchers,
                      <<v, m>> \in active \cup pending
               PROVE  \/ v \in listened' /\ home'[v] = m
                      \/ v \in Timers /\ m \in mixed
                      \/ v \in list /\ <<v, m>> \in adding'
    BY DEF Heard, Noted
  <2>1. \/ v \in listened /\ home[v] = m
        \/ v \in Timers /\ m \in mixed
        \/ v \in list /\ <<v, m>> \in adding
    BY DEF Watched, Heard
  <2>2. w \notin listened
    BY DEF Watched, Unsettled
  <2>3. CASE v = w /\ m = l
    BY <1>0, <2>1, <2>2, <2>3 DEF Watched, WatchTypeOK, Noted
  <2>4. CASE v # w \/ m # l
    BY <2>1, <2>2, <2>4 DEF Watched, WatchTypeOK, Noted
  <2> QED BY <2>3, <2>4
<1>4. AtQueue'
  BY QueueWatchers DEF Watched, WatchTypeOK, AtQueue, Noted
<1>5. Unsettled'
  BY DEF Watched, Unsettled, Noted
<1> QED BY <1>1, <1>2, <1>3, <1>4, <1>5 DEF Watched, Noted

LEMMA ScrapKeeps ==
  ASSUME Watched, NEW W \in SUBSET AllWatchers, NEW E \in SUBSET pending, Scrap(W, E)
  PROVE  /\ Watched'
         /\ \A w \in AllWatchers \ W :
              /\ w \in list => w \in list'
              /\ \A l \in Loops : <<w, l>> \in E => <<w, l>> \in pending'
<1>1. WatchTypeOK'
  BY DEF Watched, WatchTypeOK, Scrap, Destroy
<1>2. Housed'
  BY NoLoopApart DEF Watched, WatchTypeOK, Housed, Scrap, Destroy
<1>3. Heard'
  <2> SUFFICES ASSUME NEW m \in Loops, NEW w \in AllWatchers,
                      <<w, m>> \in active' \cup pending'
               PROVE  \/ w \in listened' /\ home'[w] = m
                      \/ w \in Timers /\ m \in mixed'
                      \/ w \in list' /\ <<w, m>> \in adding'
    BY DEF Heard
  <2>1. <<w, m>> \in active \cup pending /\ <<w, m>> \notin Stopped(W \cap listened)
    BY DEF Scrap, Destroy
  <2>2. CASE w \in listened /\ home[w] = m
    <3>1. w \notin W
      BY <2>1, <2>2, NoLoopApart DEF Stopped
    <3> QED BY <2>2, <3>1 DEF Scrap, Destroy
  <2>3. CASE w \in Timers /\ m \in mixed
    BY <2>3 DEF Scrap
  <2>4. CASE w \in list /\ <<w, m>> \in adding
    <3>1. w \in Timers
      BY <2>4 DEF Watched, WatchTypeOK
    <3>2. CASE w \in W
      BY <2>4, <3>1, <3>2 DEF Scrap
    <3>3. CASE w \notin W
      BY <2>4, <3>3 DEF Scrap, Destroy
    <3> QED BY <3>2, <3>3
  <2> QED BY <2>1, <2>2, <2>3, <2>4 DEF Watched, Heard
<1>4. AtQueue'
  BY QueueWatchers DEF Watched, WatchTypeOK, AtQueue, Scrap, Destroy
<1>5. ASSUME NEW w \in AllWatchers \ W, NEW l \in Loops
      PROVE  /\ w \in list => w \in list'
             /\ <<w, l>> \in E => <<w, l>> \in pending'
  BY DEF Scrap, Destroy, Stopped
<1>6. Unsettled'
  BY DEF Watched, Unsettled, Scrap, Destroy
<1> QED BY <1>1, <1>2, <1>3, <1>4, <1>5, <1>6 DEF Watched, Scrap, Destroy

LEMMA SubtractKeeps ==
  ASSUME Watched, NEW w \in Timers, Subtract(w), UNCHANGED timerVars
  PROVE  /\ Watched' /\ list' = list
         /\ \A l, m \in Loops :
              <<QueueWatcher(l), m>> \in pending => <<QueueWatcher(l), m>> \in pending'
<1>0. w \in AllWatchers /\ adding' = adding /\ mixed' = mixed
  BY DEF AllWatchers, timerVars
<1>1. WatchTypeOK'
  BY <1>0 DEF Watched, WatchTypeOK, Subtract
<1>2. Housed'
  BY DEF Watched, Housed, Subtract
<1>3. Heard'
  <2> SUFFICES ASSUME NEW m \in Loops, NEW v \in AllWatchers,
                      <<v, m>> \in active' \cup pending'
               PROVE  \/ v \in listened' /\ home'[v] = m
                      \/ v \in Timers /\ m \in mixed
                      \/ v \in list' /\ <<v, m>> \in adding
    BY <1>0 DEF Heard
  <2>1. <<v, m>> \in active \cup pending /\ <<v, m>> \notin Stopped({w})
    BY DEF Subtract
  <2>2. CASE v \in listened /\ home[v] = m
    <3>1. v # w
      BY <2>1, <2>2, NoLoopApart DEF Stopped
    <3> QED BY <2>2, <3>1 DEF Subtract
  <2>3. CASE ~(v \in listened /\ home[v] = m)
    BY <2>1, <2>3 DEF Watched, Heard, Subtract
  <2> QED BY <2>2, <2>3
<1>4. AtQueue'
  BY QueueWatchers DEF Watched, AtQueue, Subtract
<1>5. \A l, m \in Loops :
        <<QueueWatcher(l), m>> \in pending => <<QueueWatcher(l), m>> \in pending'
  BY QueueWatchers DEF Subtract, Stopped
<1>6. Unsettled'
  BY <1>0 DEF Watched, Unsettled, Subtract
<1> QED BY <1>1, <1>2, <1>3, <1>4, <1>5, <1>6 DEF Watched, Subtract

LEMMA RaiseKeeps ==
  ASSUME Watched, NEW w \in Timers, NEW l \in Loops, Raise(w, l), UNCHANGED timerVars
  PROVE  Watched' /\ list' = list /\ pending \subseteq pending'
<1>0. w \in AllWatchers /\ adding' = adding /\ mixed' = mixed
  BY DEF AllWatchers, timerVars
<1>1. WatchTypeOK'
  BY <1>0 DEF Watched, WatchTypeOK, Raise
<1>2. Heard'
  BY <1>0 DEF Watched, Heard, Raise
<1>3. Housed' /\ AtQueue' /\ Unsettled'
  BY <1>0 DEF Watched, Housed, AtQueue, Unsettled, Raise
<1> QED BY <1>1, <1>2, <1>3 DEF Watched, Raise

LEMMA SignalKeeps ==
  ASSUME Watched, NEW l \in Loops, pending' = Signalled(QueueWatcher(l)),
         UNCHANGED watchVars
  PROVE  /\ Watched' /\ pending \subseteq pending'
         /\ QueueWatcher(l) \in list => <<QueueWatcher(l), l>> \in pending'
<1>1. QueueWatcher(l) \in AllWatchers
  BY QueueWatchers
<1>2. QueueWatcher(l) \in list =>
        /\ QueueWatcher(l) \in listened /\ home[QueueWatcher(l)] = l
        /\ home[QueueWatcher(l)] # NoLoop
  BY NoLoopApart DEF Watched, AtQueue
<1>3. QueueWatcher(l) \notin list => home[QueueWatcher(l)] = NoLoop
  BY <1>1 DEF Watched, Housed
<1>4. pending' = pending \cup (IF QueueWatcher(l) \in list
                              THEN {<<QueueWatcher(l), l>>} ELSE {})
  BY <1>2, <1>3 DEF Signalled
<1>5. WatchTypeOK'
  BY <1>1, <1>4 DEF Watched, WatchTypeOK, watchVars, timerVars
<1>6. Heard'
  BY <1>2, <1>4 DEF Watched, Heard, watchVars, timerVars
<1>7. Housed' /\ AtQueue' /\ Unsettled'
  BY DEF Watched, Housed, AtQueue, Unsettled, watchVars, timerVars
<1> QED BY <1>4, <1>5, <1>6, <1>7 DEF Watched

LEMMA FewerPendingKeeps ==
  ASSUME Watched, pending' \subseteq pending, UNCHANGED watchVars
  PROVE  Watched'
BY DEF Watched, WatchTypeOK, Housed, Heard, AtQueue, Unsettled, watchVars, timerVars

(* Whatever timers do, and libev to them, the queue watchers and what they *)
(* are to be told of stay. *)
LEMMA TimingKeeps ==
  ASSUME Watched, NEW l \in Loops, Timing(l)
  PROVE  /\ Watched'
         /\ UNCHANGED <<queueVars, pc, exit, joined, call, side>>
         /\ dead' = dead \/ dead' = TRUE
         /\ \A m \in Loops :
              /\ QueueWatcher(m) \in list => QueueWatcher(m) \in list'
              /\ <<QueueWatcher(m), m>> \in pending => <<QueueWatcher(m), m>> \in pending'
<1>0. Timers \subseteq AllWatchers /\ \A m \in Loops : QueueWatcher(m) \notin Timers
  BY QueueWatchers DEF AllWatchers
<1>1. ASSUME NEW w \in Timers, Delay(w, l)
      PROVE  Watched' /\ list \subseteq list' /\ pending' = pending
  <2>1. PICK R \in SUBSET {w} : CreateAndAdd({w}, R, l) /\ UNCHANGED timerVars
    BY <1>1 DEF Delay
  <2>2. /\ {w} \in SUBSET AllWatchers /\ \A m \in Loops : QueueWatcher(m) \notin {w}
        /\ {w} \cap Adding = {}
    BY <1>0, <1>1 DEF Delay
  <2> QED BY <2>1, <2>2, CreateKeeps
<1>2. ASSUME NEW w \in Timers, DelayFrom(w, l)
      PROVE  Watched' /\ list \subseteq list' /\ pending' = pending
  <2>1. PICK R \in SUBSET {w} : CreateAndStart(w, R, l)
    BY <1>2 DEF DelayFrom
  <2>2. /\ w \notin Adding /\ adding' = adding \cup {<<w, l>>}
        /\ mixed \subseteq mixed' /\ mixed' \subseteq Loops
    BY <1>2 DEF DelayFrom, Watched, WatchTypeOK
  <2> QED BY <2>1, <2>2, StartKeeps
<1>3. ASSUME NEW w \in Timers, Delayed(w, l)
      PROVE  Watched' /\ list' = list /\ pending' = pending
  BY <1>3, NotedKeeps DEF Delayed
<1>4. ASSUME NEW w \in Timers, Expire(w, l)
      PROVE  Watched' /\ list' = list /\ pending \subseteq pending'
  BY <1>4, RaiseKeeps DEF Expire
<1>5. ASSUME NEW w \in Timers, NEW E \in SUBSET pending, Scrap({w}, E),
             E = pending \/ E = pending \ {<<w, l>>}
      PROVE  /\ Watched'
             /\ \A m \in Loops :
                  /\ QueueWatcher(m) \in list => QueueWatcher(m) \in list'
                  /\ <<QueueWatcher(m), m>> \in pending =>
                       <<QueueWatcher(m), m>> \in pending'
  <2>1. {w} \in SUBSET AllWatchers
    BY <1>0
  <2>2. /\ Watched'
        /\ \A v \in AllWatchers \ {w} :
             /\ v \in list => v \in list'
             /\ \A m \in Loops : <<v, m>> \in E => <<v, m>> \in pending'
    BY <1>5, <2>1, ScrapKeeps
  <2>3. \A m \in Loops : /\ QueueWatcher(m) \in AllWatchers \ {w}
                         /\ <<QueueWatcher(m), m>> \in pending =>
                              <<QueueWatcher(m), m>> \in E
    BY <1>0, <1>5, QueueWatchers
  <2> QED BY <2>2, <2>3
<1>6. ASSUME NEW w \in Timers, Fire(w, l)
      PROVE  /\ Watched'
             /\ \A m \in Loops :
                  /\ QueueWatcher(m) \in list => QueueWatcher(m) \in list'
                  /\ <<QueueWatcher(m), m>> \in pending =>
                       <<QueueWatcher(m), m>> \in pending'
  <2>1. CASE w \notin lasting
    <3>1. Scrap({w}, pending \ {<<w, l>>})
      BY <1>6, <2>1 DEF Fire
    <3> QED BY <1>5, <3>1
  <2>2. CASE w \in lasting
    <3>1. /\ home' = [home EXCEPT ![w] = l] /\ pending' = pending \ {<<w, l>>}
          /\ UNCHANGED <<list, listened, lasting, active, adding, mixed>>
          /\ w \in list /\ (home[w] = l \/ <<w, l>> \in adding)
      BY <1>6, <2>2 DEF Fire, Belongs, timerVars
    <3>2. home[w] # l => w \notin listened
      BY <3>1 DEF Watched, Unsettled
    <3>3. WatchTypeOK'
      BY <3>1 DEF Watched, WatchTypeOK
    <3>4. Heard'
      BY <1>0, <3>1, <3>2 DEF Watched, WatchTypeOK, Heard
    <3>5. Housed' /\ Unsettled'
      BY <1>0, <3>1 DEF Watched, WatchTypeOK, Housed, Unsettled
    <3>6. AtQueue'
      BY <1>0, <3>1, QueueWatchers DEF Watched, WatchTypeOK, AtQueue
    <3>7. \A m \in Loops : <<QueueWatcher(m), m>> # <<w, l>>
      BY <1>0
    <3> QED BY <3>1, <3>3, <3>4, <3>5, <3>6, <3>7 DEF Watched
  <2> QED BY <2>1, <2>2
<1>7. ASSUME NEW w \in Timers, Cancel(w, l)
      PROVE  /\ Watched'
             /\ \A m \in Loops :
                  /\ QueueWatcher(m) \in list => QueueWatcher(m) \in list'
                  /\ <<QueueWatcher(m), m>> \in pending =>
                       <<QueueWatcher(m), m>> \in pending'
  <2>1. CASE Subtract(w) /\ UNCHANGED timerVars
    BY <2>1, SubtractKeeps
  <2>2. CASE Scrap({w}, pending)
    BY <1>5, <2>2
  <2> QED BY <1>7, <2>1, <2>2 DEF Cancel
<1>8. ASSUME NEW w \in Timers, FireStray(w, l) PROVE UNCHANGED eventVars
  BY <1>8 DEF FireStray
<1>9. ASSUME MixUp(l) PROVE Watched'
  <2>1. /\ l \in mixed
        /\ \A e \in active' : e \in active \/ \E w \in Timers : e = <<w, l>>
        /\ UNCHANGED <<list, listened, lasting, home, pending, adding, mixed>>
    BY <1>9 DEF MixUp, timerVars
  <2>2. WatchTypeOK'
    BY <1>0, <2>1 DEF Watched, WatchTypeOK
  <2>3. Heard'
    BY <2>1 DEF Watched, Heard
  <2>4. Housed' /\ AtQueue' /\ Unsettled'
    BY <2>1 DEF Watched, Housed, AtQueue, Unsettled
  <2> QED BY <2>1, <2>2, <2>3, <2>4 DEF Watched
<1>10. /\ UNCHANGED <<queueVars, pc, exit, joined, call, side>>
       /\ dead' = dead \/ dead' = TRUE
  BY DEF Timing, Delay, DelayFrom, Delayed, Expire, Fire, FireStray, Cancel, MixUp,
         managerVars
<1>11. UNCHANGED eventVars => Watched'
  BY DEF Watched, WatchTypeOK, Housed, Heard, AtQueue, Unsettled, eventVars, timerVars
<1>12. MixUp(l) => list' = list /\ pending' = pending
  BY DEF MixUp
<1>13. (\E w \in Timers : FireStray(w, l)) =>
         Watched' /\ list' = list /\ pending' = pending
  BY <1>8, <1>11 DEF eventVars
<1>14. /\ Watched'
       /\ \A m \in Loops :
            /\ QueueWatcher(m) \in list => QueueWatcher(m) \in list'
            /\ <<QueueWatcher(m), m>> \in pending => <<QueueWatcher(m), m>> \in pending'
  BY <1>1, <1>2, <1>3, <1>4, <1>6, <1>7, <1>9, <1>12, <1>13 DEF Timing
<1> QED BY <1>10, <1>14
-----------------------------------------------------------------------------
(* The steps, one by one. *)
LEMMA CallType ==
  ASSUME RestTypeOK, NEW a \in Threads
  PROVE  /\ call[a].op \in Ops /\ call[a].at \in 1 .. NumLoops + 1
         /\ call[a].half \in BOOLEAN /\ NumLoops \in Nat
         /\ Main \in Threads /\ Other \in Threads
         /\ call[a].at \in Loops => call[a].at + 1 \in 1 .. NumLoops + 1
         /\ call[a].at \notin Loops => \A l \in Loops : l < call[a].at
<1>1. /\ call[a].op \in Ops /\ call[a].at \in 1 .. NumLoops + 1
      /\ call[a].half \in BOOLEAN /\ NumLoops \in Nat
  BY LoopAssumption DEF RestTypeOK
<1>2. /\ call[a].at \in Loops => call[a].at + 1 \in 1 .. NumLoops + 1
      /\ call[a].at \notin Loops => \A l \in Loops : l < call[a].at
  BY <1>1 DEF Loops
<1> QED BY <1>1, <1>2 DEF Threads

(* What the steps of a call do to call. *)
LEMMA CallSteps ==
  ASSUME RestTypeOK, NEW a \in Threads
  PROVE  /\ call[a].at \in Loops /\ Onward(a) =>
              /\ call' \in [Threads -> [op : Ops, at : 1 .. NumLoops + 1,
                                        half : BOOLEAN]]
              /\ call'[a].op = call[a].op /\ call'[a].at = call[a].at + 1
              /\ ~call'[a].half
              /\ \A b \in Threads : b # a => call'[b] = call[b]
         /\ \A op \in Ops : Becomes(a, op) =>
              /\ call' \in [Threads -> [op : Ops, at : 1 .. NumLoops + 1,
                                        half : BOOLEAN]]
              /\ call'[a].op = op /\ call'[a].at = 1 /\ ~call'[a].half
              /\ \A b \in Threads : b # a => call'[b] = call[b]
<1>1. ASSUME call[a].at \in Loops, Onward(a)
      PROVE  /\ call' \in [Threads -> [op : Ops, at : 1 .. NumLoops + 1,
                                        half : BOOLEAN]]
             /\ call'[a].op = call[a].op /\ call'[a].at = call[a].at + 1
             /\ ~call'[a].half
             /\ \A b \in Threads : b # a => call'[b] = call[b]
  <2>1. call[a].at + 1 \in 1 .. NumLoops + 1
    BY <1>1, CallType
  <2> QED BY <1>1, <2>1 DEF RestTypeOK, Onward
<1>2. ASSUME NEW op \in Ops, Becomes(a, op)
      PROVE  /\ call' \in [Threads -> [op : Ops, at : 1 .. NumLoops + 1,
                                        half : BOOLEAN]]
             /\ call'[a].op = op /\ call'[a].at = 1 /\ ~call'[a].half
             /\ \A b \in Threads : b # a => call'[b] = call[b]
  <2> DEFINE r == [NoCall EXCEPT !.op = op]
  <2>1. 1 \in 1 .. NumLoops + 1
    BY LoopAssumption
  <2>2. /\ r \in [op : Ops, at : 1 .. NumLoops + 1, half : BOOLEAN]
        /\ r.op = op /\ r.at = 1 /\ ~r.half
    BY <2>1 DEF NoCall
  <2>3. call' = [call EXCEPT ![a] = r]
    BY <1>2 DEF Becomes
  <2> HIDE DEF r
  <2> QED BY <2>2, <2>3 DEF RestTypeOK
<1> QED BY <1>1, <1>2

LEMMA JoinSteps ==
  ASSUME RestTypeOK, AtLoop(Main, "wait") \/ AtLoop(Main, "join all"), Join(Main)
  PROVE  /\ call[Main].at \in Loops /\ ~dead
         /\ \/ dead' = TRUE /\ joined' = joined /\ call[Main].at \in joined
            \/ /\ joined' = joined \cup {call[Main].at} /\ pc[call[Main].at] = "done"
               /\ dead' = dead
         /\ Onward(Main)
         /\ UNCHANGED <<queueVars, pc, exit, side, eventVars>>
BY DEF Join, AtLoop

LEMMA RestType == RestTypeOK /\ Watched /\ [LoopNext]_loopVars => RestTypeOK'
<1> SUFFICES ASSUME RestTypeOK, Watched, [LoopNext]_loopVars PROVE RestTypeOK'
  OBVIOUS
<1>0. Main \in Threads /\ Other \in Threads
  BY DEF Threads
<1>1. CASE UNCHANGED loopVars
  BY <1>1 DEF RestTypeOK, loopVars
<1>2. ASSUME NEW l \in Loops, NEW t \in Tasks, Post(t, l) \/ Signal(t, l)
      PROVE  RestTypeOK'
  <2>1. CASE Post(t, l)
    BY <2>1 DEF RestTypeOK, Post, managerVars
  <2>2. CASE Signal(t, l)
    BY <2>2 DEF RestTypeOK, Signal, managerVars
  <2> QED BY <1>2, <2>1, <2>2
<1>3. ASSUME NEW l \in Loops, Timing(l) PROVE RestTypeOK'
  BY <1>3, TimingKeeps DEF RestTypeOK, queueVars
<1>4. ASSUME NEW l \in Loops, Run(l) PROVE RestTypeOK'
  BY <1>4 DEF RestTypeOK, Run, Fresh, managerVars
<1>5. ASSUME NEW l \in Loops,
             Wake(l) \/ Enter(l) \/ Drained(l) \/ Check(l) \/ Left(l)
      PROVE  RestTypeOK'
  BY <1>5 DEF RestTypeOK, Wake, Enter, Drained, Check, Left, Goto, PCs,
              managerVars, queueVars
<1>6. ASSUME NEW a \in Threads, NEW op \in Ops, Begin(a, op) PROVE RestTypeOK'
  BY <1>6, CallSteps DEF RestTypeOK, Begin, queueVars
<1>7. ASSUME NEW a \in Threads, SetExit(a) PROVE RestTypeOK'
  BY <1>7 DEF RestTypeOK, SetExit, AtLoop, queueVars
<1>8. ASSUME NEW a \in Threads, SignalStop(a) PROVE RestTypeOK'
  BY <1>8, CallSteps DEF RestTypeOK, SignalStop, AtLoop, queueVars
<1>9. ASSUME NEW a \in Threads, Return(a) PROVE RestTypeOK'
  <2>1. \E op \in Ops : Becomes(a, op)
    BY <1>9 DEF Return, Ops
  <2> QED BY <1>9, <2>1, CallSteps DEF RestTypeOK, Return, queueVars
<1>10. CASE Launch
  BY <1>0, <1>10, CallSteps DEF RestTypeOK, Launch, AtLoop, queueVars, PCs
<1>11. CASE WaitServer \/ WaitClient \/ JoinAll
  <2>1. CASE Join(Main)
    <3>1. AtLoop(Main, "wait") \/ AtLoop(Main, "join all")
      BY <1>11 DEF WaitServer, WaitClient, JoinAll
    <3> QED BY <1>0, <2>1, <3>1, JoinSteps, CallSteps DEF RestTypeOK, queueVars
  <2>2. CASE ~Join(Main)
    BY <1>0, <1>11, <2>2, CallSteps
       DEF RestTypeOK, WaitServer, WaitClient, JoinAll, AtLoop, queueVars
  <2> QED BY <2>1, <2>2
<1>12. CASE Delete
  <2>1. Becomes(Main, "gone") /\ "gone" \in Ops
    BY <1>12 DEF Delete, Ops
  <2> QED BY <1>0, <1>12, <2>1, CallSteps DEF RestTypeOK, Delete, queueVars, PCs
<1>13. CASE Purge
  BY <1>13 DEF RestTypeOK, Purge, queueVars, managerVars
<1>14. "wait" \in Ops /\ "destroy" \in Ops /\ "stop" \in Ops
  BY DEF Ops
<1> QED BY <1>0, <1>1, <1>2, <1>3, <1>4, <1>5, <1>6, <1>7, <1>8, <1>9, <1>10,
           <1>11, <1>12, <1>13, <1>14 DEF LoopNext, Callback, Manager

LEMMA WatchedStays == Watched /\ UNCHANGED eventVars => Watched'
BY DEF Watched, WatchTypeOK, Housed, Heard, AtQueue, Unsettled, eventVars, timerVars

(* A join, or a call's step past a loop, leaves the watchers alone. *)
LEMMA WaitsAside ==
  ASSUME WaitServer \/ WaitClient \/ JoinAll
  PROVE  UNCHANGED <<queueVars, pc, exit, side, eventVars>>
BY DEF WaitServer, WaitClient, JoinAll, Join

LEMMA WatchedStep == RestTypeOK /\ Watched /\ [LoopNext]_loopVars => Watched'
<1> SUFFICES ASSUME RestTypeOK, Watched, [LoopNext]_loopVars PROVE Watched'
  OBVIOUS
<1>0. /\ Timers \subseteq AllWatchers /\ list \subseteq AllWatchers
      /\ Main \in Threads
  BY DEF Watched, WatchTypeOK, AllWatchers, Threads
<1>1. CASE UNCHANGED loopVars
  BY <1>1, WatchedStays DEF loopVars, eventVars, timerVars
<1>2. ASSUME NEW l \in Loops, NEW t \in Tasks, Post(t, l) PROVE Watched'
  BY <1>2, WatchedStays DEF Post
<1>3. ASSUME NEW l \in Loops, NEW t \in Tasks, Signal(t, l) PROVE Watched'
  BY <1>3, SignalKeeps DEF Signal
<1>4. ASSUME NEW l \in Loops, Timing(l) PROVE Watched'
  BY <1>4, TimingKeeps
<1>8. ASSUME NEW l \in Loops, Wake(l) PROVE Watched'
  BY <1>8, FewerPendingKeeps DEF Wake
<1>9. ASSUME NEW l \in Loops, Callback(l) PROVE Watched'
  BY <1>9, WatchedStays DEF Callback, Enter, Run, Drained, Check, Left
<1>10. ASSUME NEW a \in Threads, NEW op, Begin(a, op) \/ SetExit(a) \/ Return(a)
       PROVE  Watched'
  BY <1>10, WatchedStays DEF Begin, SetExit, Return
<1>11. ASSUME NEW a \in Threads, SignalStop(a) PROVE Watched'
  <2>1. call[a].at \in Loops
    BY <1>11 DEF SignalStop, AtLoop
  <2> QED BY <1>11, <2>1, SignalKeeps DEF SignalStop
<1>12. CASE Launch
  <2>1. PICK l \in Loops : CreateAndAdd(BuiltIn(l), BuiltIn(l), l) /\ UNCHANGED timerVars
    BY <1>12 DEF Launch, AtLoop
  <2>2. /\ BuiltIn(l) \in SUBSET AllWatchers
        /\ \A m \in Loops : QueueWatcher(m) \in BuiltIn(l) => m = l
    BY QueueWatchers
  <2>3. BuiltIn(l) \cap Adding = {}
    <3>1. \A w \in Adding : w \in Timers
      BY DEF Watched, WatchTypeOK, Adding
    <3> QED BY <3>1, LoopAssumption
  <2> QED BY <2>1, <2>2, <2>3, CreateKeeps
<1>13. CASE WaitServer \/ WaitClient \/ JoinAll
  BY <1>13, WaitsAside, WatchedStays
<1>14. CASE Delete
  <2> DEFINE W == UNION {BuiltIn(l) : l \in Loops}
  <2>1. W \in SUBSET AllWatchers /\ Scrap(W, pending)
    BY <1>14 DEF Delete, AllWatchers
  <2> HIDE DEF W
  <2> QED BY <2>1, ScrapKeeps
<1>15. CASE Purge
  BY <1>0, <1>15, ScrapKeeps DEF Purge
<1> QED BY <1>0, <1>1, <1>2, <1>3, <1>4, <1>8, <1>9, <1>10,
           <1>11, <1>12, <1>13, <1>14, <1>15 DEF LoopNext, Manager, Threads

(* A loop's thread goes from one place to another, and the calls stay. *)
LEMMA GotoCourse ==
  ASSUME RestTypeOK, Course, NEW l \in Loops,
         NEW from \in {"begin", "poll", "drain", "check", "leave"},
         NEW to \in {"poll", "drain", "check", "leave", "done"},
         Goto(l, from, to), UNCHANGED <<joined, call>>
  PROVE  Course'
<1>1. /\ pc[l] = from /\ pc'[l] = to /\ \A m \in Loops : m # l => pc'[m] = pc[m]
  BY DEF Goto, RestTypeOK
<1>2. l \notin joined /\ pc[l] \notin {"absent", "deleted", "done"}
  BY <1>1 DEF Course
<1> QED BY <1>1, <1>2 DEF Course, RestTypeOK

LEMMA CourseStays == Course /\ UNCHANGED <<pc, joined, call>> => Course'
BY DEF Course

(* A thread goes on with a call, or to another. *)
LEMMA CallCourse ==
  ASSUME Course, UNCHANGED <<pc, joined>>, NEW a \in Threads,
         \A b \in Threads : b # a => call'[b] = call[b],
         call'[a].half => call'[a].op \in {"stop", "destroy"} /\ call'[a].at \in Loops,
         a = Main => /\ call'[a].op \notin {"start", "gone"}
                     /\ call'[a].op = "join all" =>
                          \A l \in Loops : l < call'[a].at => l \in joined
  PROVE  Course'
<1>0. Main \in Threads
  BY DEF Threads
<1>1. \A b \in Threads : call'[b].half =>
        call'[b].op \in {"stop", "destroy"} /\ call'[b].at \in Loops
  BY DEF Course
<1>2. CASE a = Main
  BY <1>0, <1>1, <1>2 DEF Course
<1>3. CASE a # Main
  <2>1. call'[Main] = call[Main]
    BY <1>0, <1>3
  <2> QED BY <1>1, <2>1 DEF Course
<1> QED BY <1>2, <1>3

LEMMA CourseStep ==
  RestTypeOK /\ Watched /\ Course /\ [LoopNext]_loopVars => Course'
<1> SUFFICES ASSUME RestTypeOK, Watched, Course, [LoopNext]_loopVars PROVE Course'
  OBVIOUS
<1>0. Main \in Threads /\ Other \in Threads /\ Main # Other
  BY LoopAssumption DEF Threads
<1>1. CASE UNCHANGED loopVars
  BY <1>1, CourseStays DEF loopVars
<1>2. ASSUME NEW l \in Loops, NEW t \in Tasks, Post(t, l) \/ Signal(t, l)
      PROVE  Course'
  BY <1>2, CourseStays DEF Post, Signal, managerVars
<1>3. ASSUME NEW l \in Loops, Timing(l) PROVE Course'
  BY <1>3, TimingKeeps, CourseStays
<1>4. ASSUME NEW l \in Loops, Run(l) PROVE Course'
  BY <1>4, CourseStays DEF Run, managerVars
<1>5. ASSUME NEW l \in Loops,
             Wake(l) \/ Enter(l) \/ Drained(l) \/ Check(l) \/ Left(l)
      PROVE  Course'
  <2>1. UNCHANGED <<joined, call>>
    BY <1>5 DEF Wake, Enter, Drained, Check, Left, managerVars
  <2>2. \E from \in {"begin", "poll", "drain", "check", "leave"},
           to \in {"poll", "drain", "check", "leave", "done"} : Goto(l, from, to)
    BY <1>5 DEF Wake, Enter, Drained, Check, Left
  <2> QED BY <2>1, <2>2, GotoCourse
<1>6. ASSUME NEW a \in Threads, NEW op \in {"wait", "destroy", "stop"}, Begin(a, op)
      PROVE  Course'
  <2>1. op \in Ops /\ call[a].op = "idle" /\ Becomes(a, op) /\ UNCHANGED <<pc, joined>>
    BY <1>6 DEF Begin, Ops
  <2>2. /\ call'[a].op = op /\ ~call'[a].half
        /\ \A b \in Threads : b # a => call'[b] = call[b]
    BY <2>1, CallSteps
  <2> QED BY <2>1, <2>2, CallCourse
<1>7. ASSUME NEW a \in Threads, SetExit(a) PROVE Course'
  <2>1. /\ call'[a].op = call[a].op /\ call'[a].at = call[a].at
        /\ call[a].op \in {"stop", "destroy"} /\ call[a].at \in Loops
        /\ \A b \in Threads : b # a => call'[b] = call[b]
        /\ UNCHANGED <<pc, joined>>
    BY <1>7 DEF RestTypeOK, SetExit, AtLoop
  <2> QED BY <2>1, CallCourse
<1>8. ASSUME NEW a \in Threads, SignalStop(a) PROVE Course'
  BY ZenonT(30), <1>0, <1>8, CallSteps DEF Course, SignalStop, AtLoop
<1>9. ASSUME NEW a \in Threads, Return(a) PROVE Course'
  <2>1. PICK op \in {"idle", "join all"} : Becomes(a, op)
    BY <1>9 DEF Return
  <2>2. op \in Ops /\ UNCHANGED <<pc, joined>>
    BY <1>9, <2>1 DEF Return, Ops
  <2>3. \A l \in Loops : ~(l < 1)
    BY LoopsRange
  <2>4. /\ call'[a].op = op /\ call'[a].at = 1 /\ ~call'[a].half
        /\ \A b \in Threads : b # a => call'[b] = call[b]
    BY <2>1, <2>2, CallSteps
  <2> QED BY <2>2, <2>3, <2>4, CallCourse
<1>10. CASE Launch
  <2> DEFINE l == call[Main].at
  <2>1. /\ l \in Loops /\ call[Main].op = "start" /\ Onward(Main)
        /\ pc' = [pc EXCEPT ![l] = "begin"] /\ joined' = joined
    BY <1>10 DEF Launch, AtLoop
  <2>2. pc[l] = "absent" /\ l \notin joined
    BY <2>1 DEF Course, Loops
  <2>3. /\ call'[Main].op = "start" /\ call'[Main].at = l + 1 /\ ~call'[Main].half
        /\ \A b \in Threads : b # Main => call'[b] = call[b]
    BY <1>0, <2>1, CallSteps
  <2>4. \A m \in Loops : m >= l + 1 => m >= l /\ m # l
    BY <2>1 DEF Loops
  <2>5. pc'[l] = "begin" /\ \A m \in Loops : m # l => pc'[m] = pc[m]
    BY <2>1 DEF RestTypeOK
  <2>6. \A m \in Loops : m >= call'[Main].at => pc'[m] = "absent"
    BY <2>1, <2>3, <2>4, <2>5 DEF Course
  <2>7. \A b \in Threads : call'[b].half =>
          call'[b].op \in {"stop", "destroy"} /\ call'[b].at \in Loops
    BY <2>3 DEF Course
  <2>8. /\ \A m \in joined' : pc'[m] \in {"done", "deleted"}
        /\ \A m \in Loops : pc'[m] = "deleted" => m \in joined'
    BY <2>1, <2>2, <2>5 DEF Course, RestTypeOK
  <2> QED BY <2>3, <2>6, <2>7, <2>8 DEF Course
<1>11. CASE WaitServer \/ WaitClient \/ JoinAll
  <2> DEFINE l == call[Main].at
  <2>1. /\ l \in Loops /\ call[Main].op \in {"wait", "join all"}
        /\ Onward(Main) /\ pc' = pc
        /\ \/ joined' = joined /\ (call[Main].op = "wait" \/ l \in joined)
           \/ joined' = joined \cup {l} /\ pc[l] = "done"
    BY <1>11 DEF WaitServer, WaitClient, JoinAll, Join, AtLoop
  <2>2. /\ call'[Main].op = call[Main].op /\ call'[Main].at = l + 1
        /\ ~call'[Main].half /\ \A b \in Threads : b # Main => call'[b] = call[b]
    BY <1>0, <2>1, CallSteps
  <2>3. \A m \in Loops : m < l + 1 => m < l \/ m = l
    <3>1. l \in Nat
      BY <2>1, LoopsRange
    <3> HIDE DEF l
    <3>2. SUFFICES ASSUME NEW m \in Loops, m < l + 1, m # l PROVE m < l
      OBVIOUS
    <3>3. m \in Nat
      BY LoopsRange
    <3> QED BY <3>1, <3>2, <3>3
  <2> HIDE DEF l
  <2>4. \A b \in Threads : call'[b].half =>
          call'[b].op \in {"stop", "destroy"} /\ call'[b].at \in Loops
    BY <2>2 DEF Course
  <2>5. call'[Main].op = "join all" =>
          \A m \in Loops : m < call'[Main].at => m \in joined'
    BY <2>1, <2>2, <2>3 DEF Course, l
  <2> QED BY <2>1, <2>2, <2>4, <2>5 DEF Course
<1>12. CASE Delete
  <2>1. /\ Becomes(Main, "gone") /\ "gone" \in Ops
        /\ call[Main].op = "join all" /\ call[Main].at \notin Loops
        /\ pc' = [l \in Loops |-> "deleted"] /\ joined' = joined
    BY <1>12 DEF Delete, Ended, Ops
  <2>2. joined = Loops
    BY ZenonT(30), <1>0, <2>1, CallType DEF Course, RestTypeOK
  <2> QED BY <1>0, <2>1, <2>2, CallSteps DEF Course
<1>13. CASE Purge
  BY <1>13, CourseStays DEF Purge, managerVars
<1> QED BY <1>0, <1>1, <1>2, <1>3, <1>4, <1>5, <1>6, <1>7, <1>8, <1>9, <1>10,
           <1>11, <1>12, <1>13 DEF LoopNext, Callback, Manager

LEMMA AttendedStep ==
  ASSUME RestTypeOK, Watched, Course, Attended, [LoopNext]_loopVars PROVE Attended'
<1>0. /\ Timers \subseteq AllWatchers /\ list \subseteq AllWatchers
      /\ Main \in Threads
  BY DEF Watched, WatchTypeOK, AllWatchers, Threads
<1>1. CASE list \subseteq list' /\ pc' = pc
  BY <1>1 DEF Attended
<1>2. CASE UNCHANGED loopVars
  BY <1>1, <1>2 DEF loopVars
<1>3. ASSUME NEW l \in Loops, NEW t \in Tasks, Post(t, l) \/ Signal(t, l)
      PROVE  Attended'
  BY <1>1, <1>3 DEF Post, Signal, watchVars, eventVars
<1>4. ASSUME NEW l \in Loops, Timing(l) PROVE Attended'
  BY <1>4, TimingKeeps DEF Attended
<1>8. ASSUME NEW l \in Loops, Run(l) PROVE Attended'
  BY <1>1, <1>8 DEF Run, eventVars
<1>9. ASSUME NEW l \in Loops,
             Wake(l) \/ Enter(l) \/ Drained(l) \/ Check(l) \/ Left(l)
      PROVE  Attended'
  <2>1. list' = list /\ pc[l] \notin {"absent", "deleted"}
    BY <1>9 DEF Wake, Enter, Drained, Check, Left, Goto, watchVars, eventVars
  <2>2. \A m \in Loops : m # l => pc'[m] = pc[m]
    BY <1>9 DEF Wake, Enter, Drained, Check, Left, Goto, RestTypeOK
  <2> QED BY <2>1, <2>2 DEF Attended
<1>10. ASSUME NEW a \in Threads, NEW op,
              Begin(a, op) \/ SetExit(a) \/ SignalStop(a) \/ Return(a)
       PROVE  Attended'
  BY <1>1, <1>10 DEF Begin, SetExit, SignalStop, Return, watchVars, eventVars
<1>11. CASE Launch
  <2>1. PICK l \in Loops : /\ pc' = [pc EXCEPT ![l] = "begin"]
                           /\ CreateAndAdd(BuiltIn(l), BuiltIn(l), l)
    BY <1>11 DEF Launch, AtLoop
  <2>2. list \subseteq list' /\ QueueWatcher(l) \in list'
    BY <2>1, QueueWatchers DEF CreateAndAdd
  <2> QED BY <2>1, <2>2 DEF Attended, RestTypeOK
<1>12. CASE WaitServer \/ WaitClient \/ JoinAll
  BY <1>1, <1>12, WaitsAside DEF eventVars
<1>13. CASE Delete
  BY <1>13 DEF Delete, Attended
<1>14. CASE Purge
  BY <1>14 DEF Purge, managerVars, Course, Attended
<1> QED BY <1>0, <1>2, <1>3, <1>4, <1>8, <1>9, <1>10, <1>11, <1>12,
           <1>13, <1>14 DEF LoopNext, Callback, Manager, Threads

LEMMA UnbornStep ==
  ASSUME RestTypeOK, Watched, Unborn, [LoopNext]_loopVars PROVE Unborn'
<1>1. CASE queue' = queue /\ \A l \in Loops : pc'[l] = "absent" => pc[l] = "absent"
  BY <1>1 DEF Unborn
<1>2. CASE UNCHANGED loopVars
  BY <1>1, <1>2 DEF loopVars
<1>3. ASSUME NEW l \in Loops, NEW t \in Tasks, Post(t, l) PROVE Unborn'
  BY <1>3 DEF Unborn, Post, Usable, RestTypeOK
<1>4. ASSUME NEW l \in Loops, NEW t \in Tasks, Signal(t, l) PROVE Unborn'
  BY <1>1, <1>4 DEF Signal
<1>5. ASSUME NEW l \in Loops, Timing(l) PROVE Unborn'
  BY <1>1, <1>5, TimingKeeps DEF queueVars
<1>6. ASSUME NEW l \in Loops, Run(l) PROVE Unborn'
  BY <1>6 DEF Unborn, Run, RestTypeOK
<1>7. ASSUME NEW l \in Loops,
             Wake(l) \/ Enter(l) \/ Drained(l) \/ Check(l) \/ Left(l)
      PROVE  Unborn'
  BY <1>1, <1>7 DEF Wake, Enter, Drained, Check, Left, Goto, queueVars, RestTypeOK
<1>8. ASSUME NEW a \in Threads, NEW op,
             Begin(a, op) \/ SetExit(a) \/ SignalStop(a) \/ Return(a)
      PROVE  Unborn'
  BY <1>1, <1>8 DEF Begin, SetExit, SignalStop, Return, queueVars
<1>9. CASE Launch \/ Delete
  BY <1>1, <1>9 DEF Launch, Delete, queueVars, RestTypeOK
<1>10. CASE WaitServer \/ WaitClient \/ JoinAll
  BY <1>1, <1>10, WaitsAside DEF queueVars
<1>11. CASE Purge
  BY <1>1, <1>11 DEF Purge, queueVars
<1>12. Main \in Threads /\ Other \in Threads
  BY DEF Threads
<1> QED BY <1>2, <1>3, <1>4, <1>5, <1>6, <1>7, <1>8, <1>9, <1>10, <1>11, <1>12
        DEF LoopNext, Callback, Manager

(* What leaves a loop's work and a loop's stop known of. *)
LEMMA NoticedStays ==
  ASSUME NEW l \in Loops, Noticed(l),
         <<QueueWatcher(l), l>> \in pending => <<QueueWatcher(l), l>> \in pending',
         queue'[l] = queue[l], exit'[l] = exit[l], pc'[l] = "poll" => pc[l] = "poll",
         \A t \in Tasks : <<t, l>> \in unsignalled => <<t, l>> \in unsignalled',
         \A a \in Threads :
           call[a].half /\ call[a].at = l => call'[a].half /\ call'[a].at = l
  PROVE  Noticed(l)'
BY DEF Noticed

(* A step that changes none of it. *)
LEMMA ToldStays ==
  ASSUME Told, UNCHANGED <<queue, unsignalled, exit, dead>>, pc' = pc,
         \A l \in Loops :
           <<QueueWatcher(l), l>> \in pending => <<QueueWatcher(l), l>> \in pending',
         \A a \in Threads : call[a].half =>
           call'[a].half /\ call'[a].at = call[a].at
  PROVE  Told'
<1> SUFFICES ASSUME ~dead, NEW l \in Loops, pc[l] \in {"begin", "poll", "check"}
             PROVE  Noticed(l)'
  BY DEF Told
<1>1. Noticed(l)
  BY DEF Told
<1> QED BY <1>1, NoticedStays

LEMMA ToldStep ==
  ASSUME RestTypeOK, Watched, Attended, Course, Unborn, Told, [LoopNext]_loopVars
  PROVE  Told'
<1>0. /\ Timers \subseteq AllWatchers /\ list \subseteq AllWatchers
      /\ Main \in Threads /\ Other \in Threads
  BY DEF Watched, WatchTypeOK, AllWatchers, Threads
<1>1. CASE UNCHANGED loopVars
  BY <1>1, ToldStays DEF loopVars
<1>2. ASSUME NEW l \in Loops, NEW t \in Tasks, Post(t, l) PROVE Told'
  <2> SUFFICES ASSUME ~dead, NEW m \in Loops, pc[m] \in {"begin", "poll", "check"}
               PROVE  Noticed(m)'
    BY <1>2 DEF Told, Post, managerVars
  <2>1. Noticed(m)
    BY DEF Told
  <2>2. CASE m = l
    BY <1>2, <2>1, <2>2 DEF Noticed, Post, managerVars, eventVars
  <2>3. CASE m # l
    <3>1. queue'[m] = queue[m]
      BY <1>2, <2>3 DEF Post, RestTypeOK
    <3> QED BY <1>2, <2>1, <3>1, NoticedStays DEF Post, managerVars, eventVars
  <2> QED BY <2>2, <2>3
<1>3. ASSUME NEW l \in Loops, NEW t \in Tasks, Signal(t, l) PROVE Told'
  <2> SUFFICES ASSUME ~dead, NEW m \in Loops, pc[m] \in {"begin", "poll", "check"}
               PROVE  Noticed(m)'
    BY <1>3 DEF Told, Signal, managerVars
  <2>1. Noticed(m)
    BY DEF Told
  <2>2. CASE m = l
    <3>1. QueueWatcher(l) \in list
      BY <1>3 DEF Signal, Usable, Attended
    <3>2. <<QueueWatcher(l), l>> \in pending'
      BY <1>3, <3>1, SignalKeeps DEF Signal
    <3> QED BY <2>2, <3>2 DEF Noticed
  <2>3. CASE m # l
    <3>1. pending \subseteq pending'
      BY <1>3, SignalKeeps DEF Signal
    <3> QED BY <1>3, <2>1, <2>3, <3>1, NoticedStays DEF Signal, managerVars
  <2> QED BY <2>2, <2>3
<1>4. ASSUME NEW l \in Loops, Timing(l) PROVE Told'
  <2>1. CASE dead' = TRUE
    BY <2>1 DEF Told
  <2>2. CASE dead' = dead
    BY <1>4, <2>2, TimingKeeps, ToldStays DEF queueVars
  <2> QED BY <1>4, <2>1, <2>2, TimingKeeps
<1>8. ASSUME NEW l \in Loops, Run(l) \/ Wake(l) \/ Enter(l) \/ Drained(l) \/ Check(l) \/ Left(l)
      PROVE  Told'
  <2> SUFFICES ASSUME ~dead, NEW m \in Loops, pc'[m] \in {"begin", "poll", "check"}
               PROVE  Noticed(m)'
    BY <1>8 DEF Told, Run, Wake, Enter, Drained, Check, Left, managerVars
  <2>1. /\ UNCHANGED <<unsignalled, exit, call>>
        /\ \A k \in Loops : k # l => queue'[k] = queue[k] /\ pc'[k] = pc[k]
        /\ \A k \in Loops : <<QueueWatcher(k), k>> \in pending /\ k # l =>
                              <<QueueWatcher(k), k>> \in pending'
    BY <1>8 DEF Run, Wake, Enter, Drained, Check, Left, Goto, RestTypeOK,
                managerVars, queueVars, eventVars
  <2>2. CASE m # l
    <3>1. Noticed(m)
      BY <2>1, <2>2 DEF Told
    <3> QED BY <2>1, <2>2, <3>1, NoticedStays
  <2>3. CASE m = l
    <3>1. CASE Run(l) \/ Wake(l) \/ Left(l)
      BY <2>3, <3>1 DEF Run, Wake, Left, Goto, RestTypeOK
    <3>2. CASE Drained(l)
      BY <2>3, <3>2 DEF Drained, Goto, RestTypeOK, queueVars, Noticed
    <3>3. CASE Enter(l) \/ Check(l)
      <4>1. /\ pc[l] \in {"begin", "check"} /\ ~exit[l] /\ UNCHANGED <<queueVars, exit, pending>>
        BY <2>3, <3>3 DEF Enter, Check, Goto, RestTypeOK, eventVars
      <4>2. Noticed(l)
        BY <4>1 DEF Told
      <4> QED BY <2>3, <4>1, <4>2 DEF Noticed, queueVars
    <3> QED BY <1>8, <3>1, <3>2, <3>3
  <2> QED BY <2>2, <2>3
<1>9. ASSUME NEW a \in Threads, NEW op \in Ops, Becomes(a, op), ~call[a].half,
             UNCHANGED <<queueVars, pc, exit, dead, eventVars>>
      PROVE  Told'
  <2>1. \A b \in Threads : call[b].half => call'[b] = call[b]
    BY <1>9, CallSteps
  <2> QED BY <1>9, <2>1, ToldStays DEF queueVars, eventVars
<1>10. ASSUME NEW a \in Threads, NEW op \in {"wait", "destroy", "stop"}, Begin(a, op)
       PROVE  Told'
  <2>1. ~call[a].half /\ op \in Ops
    BY <1>10 DEF Begin, Course, RestTypeOK, Ops
  <2> QED BY <1>9, <1>10, <2>1 DEF Begin
<1>11. ASSUME NEW a \in Threads, Return(a) PROVE Told'
  <2>1. ~call[a].half
    BY <1>11 DEF Return, Ended, Course, RestTypeOK
  <2>2. PICK op \in Ops : Becomes(a, op)
    BY <1>11 DEF Return, Ops
  <2> QED BY <1>9, <1>11, <2>1, <2>2 DEF Return
<1>12. ASSUME NEW a \in Threads, SetExit(a) PROVE Told'
  <2>1. PICK l \in Loops : l = call[a].at
    BY <1>12 DEF SetExit, AtLoop
  <2>2. /\ ~call[a].half /\ call'[a].half /\ call'[a].at = l
        /\ \A b \in Threads : b # a => call'[b] = call[b]
        /\ \A m \in Loops : m # l => exit'[m] = exit[m]
        /\ UNCHANGED <<queueVars, pc, dead, eventVars>>
    BY <1>12, <2>1 DEF SetExit, RestTypeOK
  <2> SUFFICES ASSUME ~dead, NEW m \in Loops, pc[m] \in {"begin", "poll", "check"}
               PROVE  Noticed(m)'
    BY <2>2 DEF Told
  <2>3. Noticed(m)
    BY DEF Told
  <2>4. CASE m = l
    BY <2>2, <2>3, <2>4 DEF Noticed, queueVars, eventVars
  <2>5. CASE m # l
    BY <2>2, <2>3, <2>5, NoticedStays DEF queueVars, eventVars
  <2> QED BY <2>4, <2>5
<1>13. ASSUME NEW a \in Threads, SignalStop(a) PROVE Told'
  <2>1. PICK l \in Loops : l = call[a].at
    BY <1>13 DEF SignalStop, AtLoop
  <2>2. /\ \A b \in Threads : b # a => call'[b] = call[b]
        /\ UNCHANGED <<queueVars, pc, exit, dead>>
        /\ pending' = Signalled(QueueWatcher(l)) /\ UNCHANGED watchVars
    BY <1>13, <2>1, CallSteps DEF SignalStop
  <2>3. /\ pending \subseteq pending'
        /\ QueueWatcher(l) \in list => <<QueueWatcher(l), l>> \in pending'
    BY <2>2, SignalKeeps
  <2> SUFFICES ASSUME ~dead, NEW m \in Loops, pc[m] \in {"begin", "poll", "check"}
               PROVE  Noticed(m)'
    BY <2>2 DEF Told
  <2>4. CASE m = l
    BY <2>3, <2>4 DEF Attended, Noticed
  <2>5. CASE m # l
    <3>1. Noticed(m)
      BY DEF Told
    <3> QED BY <2>1, <2>2, <2>3, <2>5, <3>1, NoticedStays DEF queueVars
  <2> QED BY <2>4, <2>5
<1>14. ASSUME Onward(Main), ~call[Main].half, call[Main].at \in Loops
       PROVE  \A b \in Threads : call[b].half => call'[b] = call[b]
  BY <1>0, <1>14, CallSteps
<1>15. CASE Launch
  <2>1. PICK l \in Loops : l = call[Main].at
    BY <1>15 DEF Launch, AtLoop
  <2>2. /\ pc[l] = "absent" /\ ~call[Main].half
    <3>1. call[Main].op = "start" /\ l >= call[Main].at
      BY <1>15, <2>1, LoopsRange DEF Launch, AtLoop
    <3> QED BY <1>0, <3>1 DEF Course, RestTypeOK
  <2>3. /\ pc' = [pc EXCEPT ![l] = "begin"] /\ pending' = pending
        /\ UNCHANGED <<queue, unsignalled, exit, dead>>
        /\ \A b \in Threads : call[b].half => call'[b] = call[b]
    BY <1>14, <1>15, <2>1, <2>2 DEF Launch, CreateAndAdd, queueVars
  <2> SUFFICES ASSUME ~dead, NEW m \in Loops, pc'[m] \in {"begin", "poll", "check"}
               PROVE  Noticed(m)'
    BY <2>3 DEF Told
  <2>4. CASE m = l
    BY <2>2, <2>3, <2>4 DEF Noticed, Unborn, RestTypeOK
  <2>5. CASE m # l
    <3>1. Noticed(m) /\ pc'[m] = pc[m]
      BY <2>3, <2>5 DEF Told, RestTypeOK
    <3> QED BY <2>3, <3>1, NoticedStays
  <2> QED BY <2>4, <2>5
<1>16. CASE WaitServer \/ WaitClient \/ JoinAll
  <2>1. /\ call[Main].op \in {"wait", "join all"} /\ call[Main].at \in Loops
        /\ Onward(Main) /\ (dead => dead')
    BY <1>16 DEF WaitServer, WaitClient, JoinAll, Join, AtLoop
  <2>2. ~call[Main].half
    BY <1>0, <2>1 DEF Course, RestTypeOK
  <2>3. \A b \in Threads : call[b].half => call'[b] = call[b]
    BY <1>14, <2>1, <2>2
  <2>4. CASE dead' = dead
    BY <1>16, <2>3, <2>4, WaitsAside, ToldStays DEF queueVars, eventVars
  <2>5. CASE dead' # dead
    <3>1. dead'
      BY <1>16, <2>5 DEF WaitServer, WaitClient, JoinAll, Join, AtLoop
    <3> QED BY <3>1 DEF Told
  <2> QED BY <2>4, <2>5
<1>17. CASE Delete
  BY <1>17 DEF Delete, Told
<1>18. CASE Purge
  BY <1>18 DEF Purge, managerVars, Course, Told
<1> QED BY <1>0, <1>1, <1>2, <1>3, <1>4, <1>8, <1>10, <1>11, <1>12,
           <1>13, <1>15, <1>16, <1>17, <1>18 DEF LoopNext, Callback, Manager

LEMMA FreshIsNowhere ==
  ASSUME NEW t \in Fresh
  PROVE  /\ t \in Tasks /\ t \notin ran
         /\ \A l \in Loops : \A i \in DOMAIN queue[l] : queue[l][i] # t
BY DEF Fresh, Queued

LEMMA PostApart ==
  ASSUME RestTypeOK, Apart, NEW l \in Loops, NEW t \in Tasks, Post(t, l)
  PROVE  Apart'
<1>1. /\ t \in Fresh /\ ran' = ran /\ queue[l] \in Seq(Tasks)
      /\ queue'[l] = Append(queue[l], t)
      /\ \A m \in Loops : m # l => queue'[m] = queue[m]
  BY DEF Post, RestTypeOK
<1>2. /\ DOMAIN queue[l] = 1 .. Len(queue[l]) /\ Len(queue[l]) \in Nat
      /\ DOMAIN queue'[l] = 1 .. Len(queue[l]) + 1
      /\ \A i \in 1 .. Len(queue[l]) : queue'[l][i] = queue[l][i]
      /\ queue'[l][Len(queue[l]) + 1] = t
  BY <1>1
<1>3. /\ t \notin ran
      /\ \A m \in Loops : \A i \in DOMAIN queue[m] : queue[m][i] # t
  BY <1>1, FreshIsNowhere
<1>4. \A m \in Loops : \A i \in DOMAIN queue'[m] :
        \/ i \in DOMAIN queue[m] /\ queue'[m][i] = queue[m][i]
        \/ m = l /\ i = Len(queue[l]) + 1 /\ queue'[m][i] = t
  BY SMTT(30), <1>1, <1>2
<1>5. \A k, m \in Loops : \A i \in DOMAIN queue'[k], j \in DOMAIN queue'[m] :
        queue'[k][i] = queue'[m][j] => k = m /\ i = j
  BY <1>3, <1>4 DEF Apart
<1>6. \A m \in Loops : \A i \in DOMAIN queue'[m] : queue'[m][i] \notin ran'
  BY <1>1, <1>3, <1>4 DEF Apart
<1> QED BY <1>5, <1>6 DEF Apart

LEMMA RunApart ==
  ASSUME RestTypeOK, Apart, NEW l \in Loops, Run(l)
  PROVE  /\ Apart'
         /\ Head(queue[l]) \in Tasks /\ Head(queue[l]) \notin ran
<1>1. PICK called \in SUBSET Fresh : ran' = ran \cup {Head(queue[l])} \cup called
  BY DEF Run
<1>2. /\ queue[l] \in Seq(Tasks) /\ queue[l] # <<>> /\ queue'[l] = Tail(queue[l])
      /\ \A m \in Loops : m # l => queue'[m] = queue[m]
  BY DEF Run, RestTypeOK
<1>3. /\ DOMAIN queue[l] = 1 .. Len(queue[l]) /\ Len(queue[l]) \in Nat
      /\ 1 \in DOMAIN queue[l] /\ Head(queue[l]) = queue[l][1]
      /\ DOMAIN queue'[l] = 1 .. Len(queue[l]) - 1
      /\ \A i \in 1 .. Len(queue[l]) - 1 :
           i + 1 \in DOMAIN queue[l] /\ queue'[l][i] = queue[l][i + 1]
  BY <1>2
<1>4. \A i, j \in DOMAIN queue'[l] : i + 1 = j + 1 => i = j
  BY <1>3
<1>5. \A i \in DOMAIN queue'[l] : i + 1 # 1
  BY <1>3
<1>6. \A k, m \in Loops : \A i \in DOMAIN queue'[k], j \in DOMAIN queue'[m] :
        queue'[k][i] = queue'[m][j] => k = m /\ i = j
  <2> SUFFICES ASSUME NEW k \in Loops, NEW m \in Loops, NEW i \in DOMAIN queue'[k],
                      NEW j \in DOMAIN queue'[m], queue'[k][i] = queue'[m][j]
               PROVE  k = m /\ i = j
    OBVIOUS
  <2>1. PICK p \in DOMAIN queue[k] :
          queue'[k][i] = queue[k][p] /\ (IF k = l THEN p = i + 1 ELSE p = i)
    BY <1>2, <1>3
  <2>2. PICK q \in DOMAIN queue[m] :
          queue'[m][j] = queue[m][q] /\ (IF m = l THEN q = j + 1 ELSE q = j)
    BY <1>2, <1>3
  <2>3. queue[k][p] = queue[m][q]
    BY <2>1, <2>2
  <2>4. k = m /\ p = q
    BY <2>3 DEF Apart
  <2> QED BY <1>4, <2>1, <2>2, <2>4
<1>7. ASSUME NEW m \in Loops, NEW i \in DOMAIN queue'[m] PROVE queue'[m][i] \notin ran'
  <2>1. PICK j \in DOMAIN queue[m] :
          queue'[m][i] = queue[m][j] /\ (m = l => j # 1)
    <3>1. CASE m = l
      BY ZenonT(30), <1>3, <1>5, <3>1
    <3>2. CASE m # l
      BY <1>2, <3>2
    <3> QED BY <3>1, <3>2
  <2>2. queue[m][j] # Head(queue[l])
    BY <1>3, <2>1 DEF Apart
  <2>3. queue[m][j] \notin called
    BY FreshIsNowhere
  <2> QED BY <1>1, <2>1, <2>2, <2>3 DEF Apart
<1>8. Head(queue[l]) \in Tasks /\ Head(queue[l]) \notin ran
  BY <1>2, <1>3 DEF Apart
<1> QED BY <1>6, <1>7, <1>8 DEF Apart

(* Only Post and Run touch what is queued and what has been run. *)
LEMMA QueueFrame ==
  ASSUME [LoopNext]_loopVars
  PROVE  \/ \E l \in Loops : \E t \in Tasks : Post(t, l)
         \/ \E l \in Loops : Run(l)
         \/ UNCHANGED <<queue, ran>>
<1>1. CASE UNCHANGED loopVars
  BY <1>1 DEF loopVars
<1>2. ASSUME NEW l \in Loops, NEW t \in Tasks, Signal(t, l)
      PROVE  UNCHANGED <<queue, ran>>
  BY <1>2 DEF Signal
<1>3. ASSUME NEW l \in Loops, Timing(l) PROVE UNCHANGED <<queue, ran>>
  BY <1>3 DEF Timing, Delay, DelayFrom, Delayed, Expire, Fire, FireStray, Cancel,
              MixUp, queueVars
<1>4. ASSUME NEW l \in Loops,
             Wake(l) \/ Enter(l) \/ Drained(l) \/ Check(l) \/ Left(l)
      PROVE  UNCHANGED <<queue, ran>>
  BY <1>4 DEF Wake, Enter, Drained, Check, Left, queueVars
<1>5. ASSUME NEW a, NEW op, Begin(a, op) \/ SetExit(a) \/ SignalStop(a) \/ Return(a)
      PROVE  UNCHANGED <<queue, ran>>
  BY <1>5 DEF Begin, SetExit, SignalStop, Return, queueVars
<1>6. CASE Launch \/ Delete \/ Purge
  BY <1>6 DEF Launch, Delete, Purge, queueVars
<1>7. CASE WaitServer \/ WaitClient \/ JoinAll
  BY <1>7, WaitsAside DEF queueVars
<1> QED BY <1>1, <1>2, <1>3, <1>4, <1>5, <1>6, <1>7
        DEF LoopNext, Callback, Manager

LEMMA ApartStep == RestTypeOK /\ Apart /\ [LoopNext]_loopVars => Apart'
<1>1. Apart /\ UNCHANGED <<queue, ran>> => Apart'
  BY DEF Apart
<1> QED BY <1>1, QueueFrame, PostApart, RunApart
-----------------------------------------------------------------------------
LEMMA LoopStart == LoopInit => LoopInv
<1> SUFFICES ASSUME LoopInit PROVE LoopInv
  OBVIOUS
<1>0. Main \in Threads /\ Other \in Threads
  BY DEF Threads
<1>1. /\ \A l \in Loops : queue[l] = <<>> /\ pc[l] = "absent"
      /\ \A a \in Threads : ~call[a].half /\ call[a].op \in {"start", "idle"}
      /\ joined = {} /\ list = {} /\ active = {} /\ pending = {}
      /\ adding = {} /\ mixed = {}
  BY DEF LoopInit, WInit, NoCall
<1>2. RestTypeOK
  <2>1. NoCall \in [op : Ops, at : 1 .. NumLoops + 1, half : BOOLEAN]
    BY LoopAssumption DEF NoCall, Ops
  <2>2. [NoCall EXCEPT !.op = "start"]
          \in [op : Ops, at : 1 .. NumLoops + 1, half : BOOLEAN]
    BY <2>1 DEF Ops
  <2>3. call \in [Threads -> [op : Ops, at : 1 .. NumLoops + 1, half : BOOLEAN]]
    BY <2>1, <2>2 DEF LoopInit
  <2>4. /\ queue \in [Loops -> Seq(Tasks)] /\ pc \in [Loops -> PCs]
        /\ exit \in [Loops -> BOOLEAN]
    BY DEF LoopInit, PCs
  <2> QED BY <2>3, <2>4 DEF RestTypeOK, LoopInit
<1>3. Watched
  BY <1>1, NoLoopApart DEF Watched, WatchTypeOK, Housed, Heard, AtQueue, Unsettled,
                         LoopInit, WInit
<1>4. Attended /\ Unborn /\ Told
  BY <1>1 DEF Attended, Unborn, Told
<1>5. Course
  BY <1>0, <1>1 DEF Course
<1>6. Apart
  BY <1>1 DEF Apart
<1> QED BY <1>2, <1>3, <1>4, <1>5, <1>6 DEF LoopInv

THEOREM LoopInvHolds == LoopSpec => []LoopInv
<1>1. LoopInv /\ [LoopNext]_loopVars => LoopInv'
  BY RestType, WatchedStep, AttendedStep, CourseStep, UnbornStep, ToldStep, ApartStep
     DEF LoopInv
<1> QED BY <1>1, LoopStart, PTL DEF LoopSpec

(* Every variable keeps its type. *)
THEOREM AlwaysLoopTyped == LoopSpec => []LoopTypeOK
<1>1. LoopInv => LoopTypeOK
  BY DEF LoopInv, RestTypeOK, Watched, WatchTypeOK, LoopTypeOK
<1> QED BY <1>1, LoopInvHolds, PTL

(* No loop polls beside work, or a stop, that nobody will tell it of: for  *)
(* pushBack and signal in two steps, exit_ and signal in two more, and any *)
(* number of threads and functions.                                        *)
THEOREM AlwaysNoneStranded == LoopSpec => []NoneStranded
<1>1. LoopInv => NoneStranded
  BY DEF LoopInv, Told, Noticed, NoneStranded
<1> QED BY <1>1, LoopInvHolds, PTL

(* libev is never left with a watcher that was deleted, but among the      *)
(* timers of a loop where another thread's start met the loop's thread or  *)
(* was overtaken by the timer's end; and no loop is deleted before its     *)
(* thread was joined.                                                      *)
THEOREM AlwaysServedAlive == LoopSpec => []ServedAlive
<1>1. LoopInv => ServedAlive
  BY DEF LoopInv, Watched, WatchTypeOK, Heard, Course, ServedAlive, Belongs
<1> QED BY <1>1, LoopInvHolds, PTL
-----------------------------------------------------------------------------
(* The refinement: Post accepts, Run takes, a loop that stops polling      *)
(* leaves, and every other step changes nothing of the mailboxes.          *)
Gone == {l \in Loops : pc[l] \in {"leave", "done", "deleted"}}

LEMMA LoopInitRefines == LoopInit => Abstract!Init
BY DEF LoopInit, Abstract!Init

LEMMA SeenIsQueuedOrRun == ASSUME NEW t \in Fresh PROVE ~Abstract!Seen(t)
BY FreshIsNowhere DEF Abstract!Seen

(* Who leaves, does so for good. *)
LEMMA GoneFrame ==
  ASSUME RestTypeOK, Course, [LoopNext]_loopVars
  PROVE  Gone' = Gone \/ \E l \in Loops : Gone' = Gone \cup {l}
<1>1. CASE pc' = pc
  BY <1>1 DEF Gone
<1>2. CASE UNCHANGED loopVars
  BY <1>1, <1>2 DEF loopVars
<1>3. ASSUME NEW l \in Loops, NEW t \in Tasks, Post(t, l) \/ Signal(t, l)
      PROVE  pc' = pc
  BY <1>3 DEF Post, Signal
<1>4. ASSUME NEW l \in Loops, Timing(l) PROVE pc' = pc
  BY <1>4 DEF Timing, Delay, DelayFrom, Delayed, Expire, Fire, FireStray, Cancel, MixUp
<1>5. ASSUME NEW l \in Loops, Run(l) PROVE pc' = pc
  BY <1>5 DEF Run
<1>6. ASSUME NEW l \in Loops,
             Wake(l) \/ Enter(l) \/ Drained(l) \/ Check(l) \/ Left(l)
      PROVE  Gone' = Gone \/ Gone' = Gone \cup {l}
  <2>1. \A m \in Loops : m # l => pc'[m] = pc[m]
    BY <1>6 DEF Wake, Enter, Drained, Check, Left, Goto, RestTypeOK
  <2>2. l \in Gone => l \in Gone'
    BY <1>6 DEF Gone, Wake, Enter, Drained, Check, Left, Goto, RestTypeOK
  <2> QED BY <2>1, <2>2 DEF Gone
<1>7. ASSUME NEW a, NEW op, Begin(a, op) \/ SetExit(a) \/ SignalStop(a) \/ Return(a)
      PROVE  pc' = pc
  BY <1>7 DEF Begin, SetExit, SignalStop, Return
<1>8. CASE Launch
  <2>1. /\ call[Main].at \in Loops /\ pc[call[Main].at] = "absent"
        /\ pc' = [pc EXCEPT ![call[Main].at] = "begin"]
    BY <1>8, LoopsRange DEF Launch, AtLoop, Course
  <2> QED BY <2>1 DEF Gone, RestTypeOK
<1>9. CASE WaitServer \/ WaitClient \/ JoinAll
  BY <1>1, <1>9, WaitsAside
<1>10. CASE Delete
  <2>1. \A l \in Loops : l \in joined
    <3>1. Main \in Threads
      BY DEF Threads
    <3> QED BY <1>10, <3>1, CallType DEF Delete, Ended, Course
  <2>2. \A l \in Loops : pc[l] \in {"done", "deleted"} /\ pc'[l] = "deleted"
    BY <1>10, <2>1 DEF Delete, Course
  <2> QED BY <2>2 DEF Gone
<1>11. CASE Purge
  BY <1>1, <1>11 DEF Purge
<1> QED BY <1>1, <1>2, <1>3, <1>4, <1>5, <1>6, <1>7, <1>8, <1>9, <1>10, <1>11
        DEF LoopNext, Callback, Manager

LEMMA LoopStepRefines ==
  LoopInv /\ [LoopNext]_loopVars => [Abstract!Next]_(Abstract!vars)
<1> SUFFICES ASSUME LoopInv, [LoopNext]_loopVars
             PROVE  [Abstract!Next]_(Abstract!vars)
  OBVIOUS
<1>1. ASSUME NEW l \in Loops, NEW t \in Tasks, Post(t, l) PROVE Abstract!Accept(l, t)
  BY <1>1, SeenIsQueuedOrRun DEF Post, Abstract!Accept
<1>2. ASSUME NEW l \in Loops, Run(l)
      PROVE  \E called \in SUBSET Tasks : Abstract!Take(l, called)
  <2>1. PICK called \in SUBSET Fresh : ran' = ran \cup {Head(queue[l])} \cup called
    BY <1>2 DEF Run
  <2>2. called \in SUBSET Tasks /\ \A t \in called : ~Abstract!Seen(t)
    BY SeenIsQueuedOrRun, FreshIsNowhere
  <2>3. Head(queue[l]) \notin ran
    BY <1>2, RunApart DEF LoopInv
  <2> QED BY <1>2, <2>1, <2>2, <2>3 DEF Run, Abstract!Take
<1>3. CASE UNCHANGED <<queue, ran>>
  <2>1. CASE Gone' = Gone
    BY <1>3, <2>1 DEF Abstract!vars, Gone
  <2>2. ASSUME NEW l \in Loops, Gone' = Gone \cup {l} PROVE Abstract!Leave(l)
    BY <1>3, <2>2 DEF Abstract!Leave, Gone
  <2> QED BY <2>1, <2>2, GoneFrame DEF LoopInv, Abstract!Next
<1> QED BY <1>1, <1>2, <1>3, QueueFrame DEF Abstract!Next

(* Every loop is a mailbox: functions run in the order they were accepted, *)
(* each once at most, and none after the loop has left.                    *)
THEOREM LoopsAreMailboxes == LoopSpec => Implements
<1> QED BY LoopInvHolds, LoopInitRefines, LoopStepRefines, PTL
        DEF LoopSpec, Implements, Abstract!Spec
=============================================================================

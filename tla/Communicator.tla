---------------------------- MODULE Communicator ----------------------------
(***************************************************************************)
(* A process's table of proxies (MyCommunicator) and what goes through it: *)
(* the application says where the servants it calls live, and may say so   *)
(* again later; a proxy is made when somebody first asks for it; the       *)
(* proxies' clients are made and removed by tasks on the client loops; and *)
(* the server's main thread asks the route, through such a proxy, to       *)
(* register each of its own servants, and beats for them (MyServer::wait). *)
(*                                                                         *)
(* A client is named by its host and the servant it was made for, and      *)
(* counted, for nothing keeps two from being made.  Clients are UDP ones,  *)
(* as the programs' route clients are: they are connected as soon as they  *)
(* are made, and stay until they are removed (ClientConn has the others).  *)
(* A request may be lost, and so may its answer, and both may arrive more  *)
(* than once; an answer is to whatever request the client then has under   *)
(* its id, the second of the call (ClientSession).                         *)
(***************************************************************************)
EXTENDS Naturals, Sequences, FiniteSets

CONSTANTS
  Servants,    \* the servants that are called
  Route,       \* one of them: routeServantName
  Hosts,
  NumOwn,      \* the server's own servants, in the order of servantMap
  NumLoops,    \* client loops
  TaskLoop,    \* by servant: the loop its hash selects
  ClientLoop,  \* by servant: the loop its hash % 0xFFF selects
  MaxUpdates,  \* bound: calls of update()
  Unset

Loops == 1 .. NumLoops
Own == 1 .. NumOwn
Requests == [own : Own, for : {"register", "sync"}]

CommConstants ==
  /\ TaskLoop \in [Servants -> Loops] /\ ClientLoop \in [Servants -> Loops]
  /\ Route \in Servants /\ NumOwn \in Nat \ {0}
  /\ Unset \notin Servants /\ \A hosts \in SUBSET Hosts : hosts # Unset

VARIABLES
  configs,     \* proxyConfigs: hosts, or Unset
  proxys,      \* servants with a proxy
  seen,        \* config.clients of each proxy
  tasks,       \* initialize()'s tasks on each loop, oldest first
  running,     \* the one that runs
  last,        \* the one that ran last
  clients,     \* how many clients a loop has
  updates,     \* calls of update()
  torn,        \* a task has read a configuration while it was replaced
  at,          \* the main thread: which of its own servants, and what for
  asked,       \* the answer it waits for
  sent,        \* requests whose answers may come under the next one's id
  taken,       \* those of them the route has taken, and answers
  registered,  \* own servants
  received     \* own servants whose registration the route has taken

tableVars == <<configs, proxys, seen, updates, torn>>
loopVars == <<tasks, running, last, clients>>
routeVars == <<sent, taken, received>>
mainVars == <<at, asked, registered, routeVars>>
commVars == <<tableVars, loopVars, mainVars>>

CommInit ==
  /\ configs = [s \in Servants |-> Unset]
  /\ proxys = {}
  /\ seen = [s \in Servants |-> {}]
  /\ tasks = [l \in Loops |-> <<>>]
  /\ running = [l \in Loops |-> Unset]
  /\ last = [l \in Loops |-> Unset]
  /\ clients = [l \in Loops |-> [p \in Hosts \X Servants |-> 0]]
  /\ updates = 0
  /\ torn = FALSE
  /\ at = [own |-> 0, for |-> "start"]
  /\ asked = "nothing"
  /\ registered = {} /\ sent = {} /\ taken = {} /\ received = {}

-----------------------------------------------------------------------------
(* The table, under its mutex. *)

(* ServantProxy::update: the configuration is replaced, and a task posted. *)
Posted(s) ==
  tasks' = [tasks EXCEPT ![TaskLoop[s]] = Append(tasks[TaskLoop[s]], s)]

(* Mutant: a proxy that exists keeps its configuration. *)
UpdateSaves(s, hosts) ==
  /\ updates < MaxUpdates /\ updates' = updates + 1
  /\ configs' = [configs EXCEPT ![s] = hosts]
  /\ UNCHANGED <<proxys, seen, torn, tasks, running, last, clients, mainVars>>

(* A proxy that does not exist yet finds the configuration when it is made.*)
Update(s, hosts) ==
  /\ updates < MaxUpdates /\ updates' = updates + 1
  /\ configs' = [configs EXCEPT ![s] = hosts]
  /\ IF s \in proxys
     THEN /\ seen' = [seen EXCEPT ![s] = hosts]
          /\ torn' = (running[TaskLoop[s]] = s)
          /\ Posted(s)
     ELSE UNCHANGED <<seen, torn, tasks>>
  /\ UNCHANGED <<proxys, running, last, clients, mainVars>>

(* getServantProxy(), which has nothing for a servant without settings. *)
Obtain(s) ==
  IF s \notin proxys /\ configs[s] # Unset
  THEN /\ proxys' = proxys \cup {s}
       /\ seen' = [seen EXCEPT ![s] = configs[s]]
       /\ Posted(s)
  ELSE UNCHANGED <<proxys, seen, tasks>>

GetProxy(s) ==
  /\ Obtain(s)
  /\ UNCHANGED <<configs, updates, torn, running, last, clients, mainVars>>
-----------------------------------------------------------------------------
(* initialize()'s task. *)
Begin(l) ==
  /\ running[l] = Unset /\ tasks[l] # <<>>
  /\ running' = [running EXCEPT ![l] = Head(tasks[l])]
  /\ tasks' = [tasks EXCEPT ![l] = Tail(tasks[l])]
  /\ UNCHANGED <<tableVars, last, clients, mainVars>>

(* Clients of the loop whose host is not configured go, whoever's they are.*)
Kept(l, hosts) ==
  [p \in Hosts \X Servants |-> IF p[1] \in hosts THEN clients[l][p] ELSE 0]

Has(here, h) == \E s \in Servants : here[<<h, s>>] > 0

(* findClient(host, port) looks at the task's loop for anybody's client;   *)
(* addClient files the new one under its own servant id.                   *)
Added(s, hosts, here) == {h \in hosts : ~Has(here, h)}

End(l) ==
  /\ running[l] # Unset
  /\ LET s == running[l]
         m == ClientLoop[s]
         kept == [clients EXCEPT ![l] = Kept(l, seen[s])]
     IN clients' = [kept EXCEPT ![m] =
                      [p \in Hosts \X Servants |->
                         IF p[2] = s /\ p[1] \in Added(s, seen[s], kept[l])
                         THEN kept[m][p] + 1 ELSE kept[m][p]]]
  /\ last' = [last EXCEPT ![l] = running[l]]
  /\ running' = [running EXCEPT ![l] = Unset]
  /\ UNCHANGED <<tableVars, tasks, mainVars>>

(* The selector holds weak pointers: what the loops hold. *)
Selectable(s) == \E l \in Loops, h \in Hosts : clients[l][<<h, s>>] > 0
-----------------------------------------------------------------------------
(* The server's main thread. *)
Step(i, what) == at' = [own |-> i, for |-> what]

Start ==
  /\ at.for = "start"
  /\ Step(1, "register")
  /\ UNCHANGED <<tableVars, loopVars, asked, registered, routeVars>>

(* Register requests that are under way may still be taken, or not. *)
UnderWay == {r.own : r \in {q \in sent : q.for = "register"}}

(* In another second requests have other ids: answers to those before are  *)
(* answers to nothing.                                                     *)
Later ==
  /\ sent' = {} /\ taken' = {}
  /\ \E more \in SUBSET UnderWay : received' = received \cup more

(* After register comes sync, which is due every time: lastSyncTime is     *)
(* never set.  Then the next servant, and after the last the first again,  *)
(* a second later.                                                         *)
Onward(i, what) ==
  IF what = "register" THEN Step(i, "sync")
  ELSE Step(IF i < NumOwn THEN i + 1 ELSE 1, "register")

EndsPass(i, what) == what = "sync" /\ i = NumOwn

Passes(i, what) ==
  /\ Onward(i, what)
  /\ IF EndsPass(i, what) THEN Later ELSE UNCHANGED routeVars

Asks(what) ==
  /\ at.for = what /\ asked = "nothing"
  /\ what = "register" => at.own \notin registered

Skip ==
  /\ at.for = "register" /\ at.own \in registered
  /\ Onward(at.own, "register")
  /\ UNCHANGED <<tableVars, loopVars, asked, registered, routeVars>>

(* registerServant and syncServant: nothing without a proxy or a client. *)
Ask(what) ==
  /\ Asks(what)
  /\ Obtain(Route)
  /\ IF Route \in proxys /\ Selectable(Route)
     THEN asked' = "route" /\ sent' = sent \cup {at}
            /\ UNCHANGED <<at, taken, received>>
     ELSE Passes(at.own, what) /\ UNCHANGED asked
  /\ UNCHANGED <<configs, updates, torn, running, last, clients, registered>>

(* The route's handler: it answers every request alike. *)
Take(r) ==
  /\ r \in sent \ taken
  /\ taken' = taken \cup {r}
  /\ received' = IF r.for = "register" THEN received \cup {r.own} ELSE received
  /\ UNCHANGED <<tableVars, loopVars, at, asked, registered, sent>>

(* An answer that has the id of the request, be it the answer to that or   *)
(* to one before in the same second.  One to a request of the other kind   *)
(* is not what registerServant or syncServant can use.                     *)
Arrive(r) ==
  /\ asked = "route" /\ r \in taken
  /\ registered' = IF at.for = "register" /\ r.for = "register"
                   THEN registered \cup {at.own} ELSE registered
  /\ asked' = "nothing" /\ Passes(at.own, at.for)
  /\ UNCHANGED <<tableVars, loopVars>>

(* Mutant: a request that was sent counts, answered or not. *)
UnansweredRegisters ==
  /\ asked = "route"
  /\ registered' = IF at.for = "register" THEN registered \cup {at.own}
                   ELSE registered
  /\ asked' = "nothing" /\ Onward(at.own, at.for) /\ Later
  /\ UNCHANGED <<tableVars, loopVars>>

(* No answer within the time limit, of a second at least: the request was  *)
(* lost, or the answer.                                                    *)
Unanswered ==
  /\ asked = "route"
  /\ asked' = "nothing" /\ Onward(at.own, at.for) /\ Later
  /\ UNCHANGED <<tableVars, loopVars, registered>>

MainThread ==
  \/ Skip \/ Ask("register") \/ Ask("sync") \/ Unanswered
  \/ \E r \in taken : Arrive(r)

CommNext ==
  /\ ~torn
  /\ \/ \E s \in Servants : \/ \E hosts \in SUBSET Hosts : Update(s, hosts)
                            \/ GetProxy(s)
     \/ \E l \in Loops : Begin(l) \/ End(l)
     \/ Start \/ MainThread \/ \E r \in sent : Take(r)

(* The main thread runs; and if the route is asked to register servants    *)
(* again and again, it takes some such request while the caller waits, and *)
(* its answer comes while the caller waits.                                *)
CommFairness ==
  LET Registering(r) == asked = "route" /\ at = r /\ r.for = "register"
  IN /\ WF_commVars(MainThread)
     /\ SF_commVars(\E r \in sent : Take(r) /\ Registering(r))
     /\ SF_commVars(\E r \in taken : Arrive(r) /\ Registering(r))

CommSpec == CommInit /\ [][CommNext]_commVars /\ CommFairness
-----------------------------------------------------------------------------
CommTypeOK ==
  /\ configs \in [Servants -> (SUBSET Hosts) \cup {Unset}]
  /\ proxys \subseteq {s \in Servants : configs[s] # Unset}
  /\ \A s \in proxys : seen[s] = configs[s]
  /\ \A l \in Loops : tasks[l] \in Seq(proxys)
  /\ \A l \in Loops : running[l] \in proxys \cup {Unset}
  /\ \A l \in Loops, h \in Hosts, s \in Servants : clients[l][<<h, s>>] \in Nat
  /\ torn \in BOOLEAN
  /\ at \in [own : 0 .. NumOwn, for : {"start", "register", "sync"}]
  /\ asked \in {"nothing", "route"}
  /\ sent \subseteq Requests /\ taken \subseteq sent
  /\ registered \subseteq Own /\ received \subseteq Own

Idle(l) == running[l] = Unset /\ tasks[l] = <<>>
Straight == TaskLoop = ClientLoop

(* When a loop has run all its tasks, it has one client for each host of   *)
(* the newest configuration of the servant whose task was the last, and no *)
(* other, however updates and first uses of several servants were mixed:   *)
(* provided tasks run on the loops they make clients for.                  *)
Configured ==
  Straight => \A l \in Loops : Idle(l) /\ last[l] # Unset =>
    \A h \in Hosts :
      LET owners == {s \in Servants : clients[l][<<h, s>>] > 0}
      IN IF h \in configs[last[l]]
         THEN \E s \in Servants : owners = {s} /\ clients[l][<<h, s>>] = 1
         ELSE owners = {}

(* What the comment in initialize() says: clients that left a servant's    *)
(* configuration are removed.                                              *)
RemovedGone ==
  (\A l \in Loops : Idle(l)) =>
    \A l \in Loops, h \in Hosts, s \in proxys :
      clients[l][<<h, s>>] > 0 => h \in configs[s]

(* With one loop, or any number of them on which tasks make the clients    *)
(* where they run, the comment is right; and the clients are the last      *)
(* configuration's.                                                        *)
StraightHolds == Configured /\ (Straight => RemovedGone)

(* A servant counts as registered only when the route has taken it, or one *)
(* before it: the answer to that, come once more, has the same id for as   *)
(* long as the second lasts.  The first is never mistaken.                 *)
RegisteredTaken == \A i \in registered : \E j \in received : j <= i

(* So it is at all times, and each is registered in the end, whatever was  *)
(* lost before, unless there is no client to ask through.                  *)
Registers ==
  [](/\ RegisteredTaken
     /\ at.for # "start" => <>(registered = Own \/ ~Selectable(Route) \/ torn))
=============================================================================

----------------------------- MODULE ClientConn ------------------------------
(***************************************************************************)
(* The clients of one ServantProxy and its loop (net/client/MyClient,      *)
(* MyProxy, ClientLoop): connecting, noticing that a connection has ended, *)
(* retry timers, heartbeats, and changes of the configuration.  All of it  *)
(* runs in the loop's thread, one callback at a time.  The selector and    *)
(* the packets other than heartbeats are left out.                         *)
(*                                                                         *)
(* Each name in Clients is one object, made for one host, a MyTcpClient or *)
(* a MyUdpClient as its configuration says.  They share the loop's map and *)
(* its descriptors, and so its mistakes.                                   *)
(* Time is left out: a timer may fire at any moment after it was started,  *)
(* as the intervals are configured freely.                                 *)
(*                                                                         *)
(* The kernel is modelled from how src/ uses it: socket() returns the      *)
(* lowest free descriptor, connect() without blocking never succeeds at    *)
(* once, and a descriptor is writable once it has ended in any way.  There *)
(* are descriptors enough: socket() does not fail.  libev is modelled the  *)
(* same way: watchers are kept by descriptor, so one that was not stopped  *)
(* hears from the next owner of its descriptor.                            *)
(***************************************************************************)
EXTENDS Naturals, FiniteSets

CONSTANTS
  Clients,       \* client objects
  Fds,           \* descriptors
  AutoReconnect, \* clients with config.autoReconnect
  Beating,       \* clients with config.needHeartbeat
  MaxBeats,      \* bound: heartbeats one client sends
  MaxTimers,     \* bound: retry timers of a client that is taken for another
  None

ASSUME ConnAssumption ==
  /\ Fds \subseteq Nat
  /\ AutoReconnect \subseteq Clients
  /\ Beating \subseteq Clients
  /\ MaxBeats \in Nat /\ MaxTimers \in Nat
  /\ None \notin Clients \cup Nat

VARIABLES
  clients,   \* ClientLoop::clients by uid (the first descriptor: one servant)
  obj,       \* the client objects
  crashed

vars == <<clients, obj, crashed>>

(* A client's fields:                                                      *)
(*   type      which class: config.clientType                              *)
(*   life, uid                                                             *)
(*   sock      socket's descriptor; None is the null pointer               *)
(*   up        socket->isConnected                                         *)
(*   link      the kernel's view of the socket                             *)
(*   current   connectWatcher, by the descriptor it watches                *)
(*   strays    connect watchers it forgot without stopping them            *)
(*   reader    readWatcher, by the descriptor it watches                   *)
(*   timers    timers that will call reconnect()                           *)
(*   beat      heartbeat session: "none", "sent", or "lost" with its       *)
(*             connection; it and its timer outlive a reconnection         *)
(*   beats     heartbeats sent                                             *)
Unborn ==
  [type |-> "tcp", life |-> "new", uid |-> None, sock |-> None, up |-> FALSE, link |-> "none",
   current |-> None, strays |-> {}, reader |-> None,
   timers |-> 0, beat |-> "none", beats |-> 0]

Init ==
  /\ clients = [u \in Fds |-> None]
  /\ obj = [c \in Clients |-> Unborn]
  /\ crashed = FALSE

Listed(c) == \E u \in Fds : clients[u] = c
Lowest(S) == {f \in S : \A g \in S : f <= g}
FreeBut(c) == Fds \ {obj[d].sock : d \in Clients \ {c}}

(* Mutant: disconnect() leaves the read watcher started. *)
DisconnectedKeepsReader(o) ==
  [o EXCEPT !.sock = None, !.up = FALSE, !.link = "none",
            !.beat = IF @ = "sent" THEN "lost" ELSE @]

(* disconnect(): connectWatcher and the sessions stay. *)
Disconnected(o) ==
  [o EXCEPT !.sock = None, !.up = FALSE, !.link = "none", !.reader = None,
            !.beat = IF @ = "sent" THEN "lost" ELSE @]

(* socket() and asyncConnect(); a connect() that fails at once starts no   *)
(* watcher and calls nobody: the link stays "none".                        *)
Dialled(o, f, atOnce) ==
  IF atOnce
  THEN [o EXCEPT !.sock = f, !.up = FALSE, !.link = "none"]
  ELSE [o EXCEPT !.sock = f, !.up = FALSE, !.link = "trying", !.current = f,
                 !.strays = @ \cup ({o.current} \ {None})]

(* MyUdpClient::asyncConnect(): a datagram socket counts as connected from *)
(* the start, and the addClient() callback runs at once.                   *)
Bound(o, f) == [o EXCEPT !.sock = f, !.up = TRUE, !.link = "up", !.reader = f]

(* addTcpClient() or addUdpClient() *)
Opened(o, f, atOnce) ==
  IF o.type = "udp" THEN Bound(o, f) ELSE Dialled(o, f, atOnce)

(* destroy(connectWatcher) *)
Unwatched(o) == [o EXCEPT !.current = None]

Watches(c, f) == f = obj[c].current \/ f \in obj[c].strays

Retried(o) == [o EXCEPT !.timers = @ + 1]
Fired(o) == [o EXCEPT !.timers = @ - 1]

(* Who holds the client: the map, the closure of a retry timer, and the    *)
(* timeout action of a heartbeat session in its own requests.              *)
Held(c, map, o) ==
  (\E u \in Fds : map[u] = c) \/ o.timers > 0 \/ o.beat # "none"

Destroyed(o) ==
  [Unwatched(Disconnected(o)) EXCEPT !.life = "dead", !.beats = 0]

(* An uncaught exception or a null pointer ends the process. *)
Crash ==
  /\ crashed' = TRUE
  /\ clients' = [u \in Fds |-> None]
  /\ obj' = [c \in Clients |-> Unborn]

(* The end of a callback: objects nobody holds are destroyed. *)
Settle(map, os) ==
  /\ clients' = map
  /\ obj' = [c \in Clients |->
               IF os[c].life = "alive" /\ ~Held(c, map, os[c])
               THEN Destroyed(os[c]) ELSE os[c]]
-----------------------------------------------------------------------------
(* Mutant: the retry timer is never started. *)
OnDisconnectForgets(c, map, os) ==
  IF c \in AutoReconnect
  THEN Settle(map, [os EXCEPT ![c] = Disconnected(@)])
  ELSE Settle([map EXCEPT ![os[c].uid] = None], os)

(* MyProxy::onDisconnect(). *)
OnDisconnect(c, map, os) ==
  IF c \in AutoReconnect
  THEN Settle(map, [os EXCEPT ![c] = Retried(Disconnected(@))])
  ELSE Settle([map EXCEPT ![os[c].uid] = None], os)

(* update() and the closure of initialize(): clients whose host is not in  *)
(* the configuration any more leave the map, a new one is made and dialled.*)
(* What leaves is destroyed at the end of the closure, so its descriptor   *)
(* is not free yet.  Bounds: one new host at a time, and a host that was   *)
(* removed does not come back.                                             *)
Update(S) ==
  /\ ~crashed
  /\ \A c \in S : Listed(c) \/ obj[c].life = "new"
  /\ LET kept == [u \in Fds |-> IF clients[u] \in S THEN clients[u] ELSE None]
         new == {c \in S : obj[c].life = "new"}
     IN \/ /\ new = {} /\ kept # clients
           /\ Settle(kept, obj)
        \/ \E c \in new, type \in {"tcp", "udp"}, atOnce \in BOOLEAN :
             /\ new = {c}
             /\ \E f \in Lowest(FreeBut(c)) :
                  Settle([kept EXCEPT ![f] = c],
                         [obj EXCEPT ![c] =
                            Opened([@ EXCEPT !.type = type, !.life = "alive",
                                             !.uid = f], f, atOnce)])
  /\ UNCHANGED crashed

(* A retry timer: reconnect() gives the socket up and dials again; the     *)
(* closure ends.                                                           *)
Reconnect(c) ==
  /\ ~crashed /\ obj[c].timers > 0 /\ obj[c].type = "tcp"
  /\ \E f \in Lowest(FreeBut(c)), atOnce \in BOOLEAN :
       Settle(clients,
              [obj EXCEPT ![c] =
                 Dialled(Disconnected(Fired(@)), f, atOnce)])
  /\ UNCHANGED crashed

(* The same timer of a UDP client: it has a socket again at once. *)
ReconnectUdp(c) ==
  /\ ~crashed /\ obj[c].timers > 0 /\ obj[c].type = "udp"
  /\ \E f \in Lowest(FreeBut(c)) :
       Settle(clients,
              [obj EXCEPT ![c] = Bound(Disconnected(Fired(@)), f)])
  /\ UNCHANGED crashed

(* The socket on f, whoever has it, is writable for its watchers. *)
Writable(f) ==
  \E d \in Clients : obj[d].sock = f /\ obj[d].link # "trying"

(* Mutant: the result of connect() is not asked for. *)
ResultAssumed(c) == {TRUE}

(* getConnectResult() of c's own socket: no error while it is connecting.  *)
Result(c) ==
  CASE obj[c].link = "refused" -> {FALSE}
    [] obj[c].link = "closed" -> BOOLEAN
    [] OTHER -> {TRUE}

(* A connect watcher calls onConnect(): through a null socket, a deleted   *)
(* object or a promise that is set already it ends the process.            *)
ConnectCrash(c) == obj[c].life = "dead" \/ obj[c].link \in {"none", "failed"}

(* Mutants: no retry after a failure; a retry after a success too. *)
ConnectEndedGivesUp(c, o, ok) ==
  IF ok THEN [o EXCEPT !.up = TRUE, !.reader = o.sock]
  ELSE [o EXCEPT !.link = "failed"]
ConnectEndedTwice(c, o, ok) ==
  IF ok THEN [o EXCEPT !.up = TRUE, !.reader = o.sock, !.timers = @ + 1]
  ELSE [o EXCEPT !.link = "failed", !.timers = @ + (IF c \in AutoReconnect THEN 1 ELSE 0)]

(* ... the addClient() callback: a read watcher or a retry.  "failed" is a *)
(* socket whose connectPromise has its value.                              *)
ConnectEnded(c, o, ok) ==
  IF ok THEN [o EXCEPT !.up = TRUE, !.reader = o.sock]
  ELSE [o EXCEPT !.link = "failed", !.timers = @ + (IF c \in AutoReconnect THEN 1 ELSE 0)]

OnConnect(c) ==
  /\ ~crashed
  /\ \E f \in Fds : Watches(c, f) /\ Writable(f)
  /\ ~obj[c].up
  /\ \/ ConnectCrash(c) /\ Crash
     \/ /\ ~ConnectCrash(c)
        /\ \E ok \in Result(c) :
             Settle(clients, [obj EXCEPT ![c] = ConnectEnded(c, Unwatched(@), ok)])
        /\ UNCHANGED crashed

(* A watcher that was not destroyed finds its client connected: onConnect  *)
(* returns, and is called again in every turn of the loop.                 *)
Spinning ==
  \E c \in Clients, f \in Fds :
    Watches(c, f) /\ Writable(f) /\ obj[c].up

(* c's read watcher hears the end of its connection.  The client is looked *)
(* up by uid; what is not connected answers -1 with an old errno.          *)
Ended(c) == obj[c].reader # None /\ obj[c].link \in {"closed", "refused"}

(* What d's onRead() returns makes MyProxy::onRead() end its connection.   *)
(* A UDP client's returns -1 with EAGAIN after any number of datagrams.    *)
Fails(d) ==
  /\ obj[d].type = "tcp"
  /\ ~obj[d].up \/ obj[d].link \in {"closed", "refused"}

OnRead(c) ==
  LET d == clients[obj[c].uid]
  IN /\ ~crashed /\ Ended(c) /\ d # None
     /\ \/ obj[d].sock = None /\ Crash
        \/ /\ obj[d].sock # None
           /\ d = c \/ obj[d].timers < MaxTimers
           /\ Fails(d)
           /\ OnDisconnect(d, clients, obj)
           /\ UNCHANGED crashed

(* A UDP client reads an empty datagram: -1, with whatever errno was before*)
(* it.  EAGAIN does nothing; after another the client is disconnected.     *)
OnEmptyDatagram(c) ==
  /\ ~crashed
  /\ obj[c].type = "udp" /\ obj[c].reader # None /\ clients[obj[c].uid] = c
  /\ OnDisconnect(c, clients, obj)
  /\ UNCHANGED crashed
-----------------------------------------------------------------------------
(* Heartbeats.  libev runs onIdle() only when nothing else is pending.     *)
Pending ==
  \/ Spinning
  \/ \E c \in Clients : \/ Ended(c)
                        \/ \E f \in Fds : Watches(c, f) /\ Writable(f)

(* onIdle() looks at the clients of the map.  One is due only after the    *)
(* last heartbeat's timer (heartbeatInterval, 30s, against timeout, 3s).   *)
Due(c) ==
  /\ Listed(c) /\ c \in Beating /\ obj[c].up
  /\ obj[c].beat = "none" /\ obj[c].beats < MaxBeats

(* The heartbeat session's execute(). *)
Beaten(o) == [o EXCEPT !.beat = "sent", !.beats = @ + 1]

Beat(c) ==
  /\ ~crashed /\ ~Pending
  /\ Due(c)
  /\ obj' = [obj EXCEPT ![c] = Beaten(@)]
  /\ UNCHANGED <<clients, crashed>>

(* The answer removes the session, if the client is found by its uid. *)
BeatAnswered(c) ==
  /\ ~crashed
  /\ obj[c].beat = "sent" /\ obj[c].link = "up" /\ clients[obj[c].uid] = c
  /\ obj' = [obj EXCEPT ![c].beat = "none"]
  /\ UNCHANGED <<clients, crashed>>

(* The session's timer: onDisconnect() whatever became of the connection,  *)
(* then the session is removed.                                            *)
BeatTimeout(c) ==
  /\ ~crashed /\ obj[c].beat # "none"
  /\ OnDisconnect(c, clients, [obj EXCEPT ![c].beat = "none"])
  /\ UNCHANGED crashed
-----------------------------------------------------------------------------
(* The peers and the network: nobody hears of a datagram socket's peer. *)
Changed(c, from, to) ==
  /\ ~crashed /\ obj[c].link = from
  /\ obj' = [obj EXCEPT ![c].link = to]
  /\ UNCHANGED <<clients, crashed>>

Network(c) ==
  /\ obj[c].type = "tcp"
  /\ \/ Changed(c, "trying", "up") \/ Changed(c, "trying", "refused")
     \/ Changed(c, "up", "closed")

Next ==
  \/ \E S \in SUBSET Clients : Update(S)
  \/ \E c \in Clients :
       \/ Reconnect(c) \/ ReconnectUdp(c) \/ OnConnect(c) \/ OnRead(c) \/ OnEmptyDatagram(c)
       \/ Beat(c) \/ BeatAnswered(c) \/ BeatTimeout(c)
       \/ Network(c)

(* The loop serves its timers and its ready watchers.  Nothing is assumed  *)
(* of the network, of callers, or of who changes the configuration.        *)
Fairness ==
  \A c \in Clients :
    WF_vars(Reconnect(c)) /\ WF_vars(ReconnectUdp(c)) /\ WF_vars(OnConnect(c))
      /\ WF_vars(OnRead(c)) /\ WF_vars(BeatTimeout(c))

Spec == Init /\ [][Next]_vars /\ Fairness
-----------------------------------------------------------------------------
FdOrNull == Fds \cup {None}

ClientRecord ==
  [type : {"tcp", "udp"}, life : {"new", "alive", "dead"},
   uid : FdOrNull, sock : FdOrNull, up : BOOLEAN,
   link : {"none", "trying", "up", "refused", "closed", "failed"},
   current : FdOrNull, strays : SUBSET Fds, reader : FdOrNull,
   timers : Nat, beat : {"none", "sent", "lost"}, beats : 0..MaxBeats]

(* Types. *)
TypeOK ==
  /\ clients \in [Fds -> Clients \cup {None}]
  /\ obj \in [Clients -> ClientRecord]
  /\ crashed \in BOOLEAN

Attempt(c) ==
  /\ ~obj[c].up /\ obj[c].link \in {"trying", "up", "refused", "closed"}
  /\ Watches(c, obj[c].sock)

(* connect() failed at once; a null socket is another matter. *)
Unreached(c) == obj[c].sock # None /\ obj[c].link = "none"

(* A configured client with autoReconnect is given up for one reason only, *)
(* a connect() that failed at once: it is connected, or connecting and     *)
(* watched, or a retry is on its way.                                      *)
Retrying ==
  \A c \in AutoReconnect : Listed(c) => 
    obj[c].up \/ Attempt(c) \/ obj[c].timers > 0 \/ Unreached(c)

(* A read watcher is on the socket its client has now, and is there only   *)
(* while the client counts as connected.                                   *)
ReaderOnOwn ==
  \A c \in Clients :
    obj[c].reader # None => obj[c].up /\ obj[c].reader = obj[c].sock

Count(b) == IF b THEN 1 ELSE 0

(* A uid is a descriptor, which is used again: callbacks find clients by   *)
(* uid, and serve one client in place of another.                          *)
Twin(c) == \E d \in Clients \ {c} : obj[d].uid = obj[c].uid /\ obj[d].uid # None

(* Without heartbeats, and without another client of its uid, a client has *)
(* one life at a time: a connection, an attempt or one retry timer, so     *)
(* that no timer tears down what an earlier one has made.                  *)
OneLife ==
  \A c \in Clients \ Beating : ~Twin(c) =>
    Count(obj[c].up) + Count(Attempt(c)) + obj[c].timers <= 1

(* Such a client is connected when it counts as connected.                 *)
Established ==
  \A c \in Clients \ Beating : obj[c].up /\ ~Twin(c) => obj[c].link \in {"up", "closed"}

(* Whether serving c's watchers ends the process. *)
Fatal(c) ==
  \/ /\ \E f \in Fds : Watches(c, f) /\ Writable(f)
     /\ ~obj[c].up /\ ConnectCrash(c)
  \/ /\ Ended(c) /\ clients[obj[c].uid] # None
     /\ obj[clients[obj[c].uid]].sock = None

(* Such a client never ends the process, whatever others there are and     *)
(* whatever they do to the descriptors it had.                             *)
Harmless == \A c \in Clients \ Beating : ~Twin(c) => ~Fatal(c)

(* Such a client is what it is taken for. *)
Steady == Established /\ Harmless

(* The process dies of a client with heartbeats or with a twin only. *)
OnlyMixedUpCrash ==
  [][~crashed /\ crashed' =>
       \E c \in Clients : (c \in Beating \/ Twin(c)) /\ Fatal(c)]_vars

(* A client that lost its connection dials again. *)
DialsAgain ==
  \A c \in AutoReconnect :
    Listed(c) /\ obj[c].sock = None
      ~> obj[c].sock # None \/ ~Listed(c) \/ crashed

(* The end of a connection is noticed. *)
EndNoticed ==
  \A c \in Clients :
    Listed(c) /\ obj[c].link = "closed"
      ~> obj[c].link # "closed" \/ ~Listed(c) \/ crashed
=============================================================================

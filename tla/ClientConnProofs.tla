--------------------------- MODULE ClientConnProofs --------------------------
(***************************************************************************)
(* Theorems about ClientConn, for any number of clients and descriptors.   *)
(* The inductive invariant is stated object by object: what is true of one *)
(* client's record does not depend on the others, so a callback that ends  *)
(* in Settle has to establish it for the record it changed only.           *)
(***************************************************************************)
EXTENDS ClientConn, TLAPS

AttemptOf(o) ==
  /\ ~o.up /\ o.link \in {"trying", "up", "refused", "closed"}
  /\ o.sock = o.current \/ o.sock \in o.strays

UnreachedOf(o) == o.sock # None /\ o.link = "none"

ReaderOf(o) == o.reader # None => o.up /\ o.reader = o.sock

(* Listed or not, a client that is alive is not given up. *)
KeptOf(c, o) ==
  c \in AutoReconnect /\ o.life = "alive" =>
    o.up \/ AttemptOf(o) \/ o.timers > 0 \/ UnreachedOf(o)

(* Before it is made a client has nothing, then it has its uid. *)
NewOf(o) == IF o.life = "new" THEN o = Unborn ELSE o.uid \in Fds

Sound(c, o) == o \in ClientRecord /\ ReaderOf(o) /\ KeptOf(c, o) /\ NewOf(o)

(* The map holds clients that are alive. *)
MapAlive(map, os) == \A u \in Fds : map[u] # None => os[map[u]].life = "alive"

Maps == [Fds -> Clients \cup {None}]

Inv ==
  /\ clients \in Maps
  /\ obj \in [Clients -> ClientRecord]
  /\ crashed \in BOOLEAN
  /\ \A c \in Clients : Sound(c, obj[c])
  /\ MapAlive(clients, obj)
-----------------------------------------------------------------------------
(* What one record becomes. *)
LEMMA UnbornSound == \A c \in Clients : Sound(c, Unborn)
  BY ConnAssumption DEF Unborn, Sound, ClientRecord, ReaderOf, KeptOf, NewOf, FdOrNull

LEMMA DisconnectedType ==
  ASSUME NEW o \in ClientRecord
  PROVE  Disconnected(o) \in ClientRecord
  BY ZenonT(30) DEF Disconnected, ClientRecord, FdOrNull

LEMMA DestroyedSound ==
  ASSUME NEW c \in Clients, NEW o \in ClientRecord, o.uid \in Fds
  PROVE  Sound(c, Destroyed(o))
<1>1. Disconnected(o) \in ClientRecord
  BY DisconnectedType
<1>2. Unwatched(Disconnected(o)) \in ClientRecord
  BY <1>1 DEF Unwatched, ClientRecord, FdOrNull
<1> DEFINE w == Unwatched(Disconnected(o))
<1>3. Destroyed(o) \in ClientRecord
  <2>1. Destroyed(o) = [w EXCEPT !.life = "dead", !.beats = 0]
    BY DEF Destroyed
  <2>2. 0 \in 0..MaxBeats
    BY ConnAssumption
  <2> HIDE DEF w
  <2>3. [w EXCEPT !.life = "dead", !.beats = 0] \in ClientRecord
    BY <1>2, <2>2 DEF ClientRecord, w
  <2> QED
    BY <2>1, <2>3
<1>4. /\ Destroyed(o).life = "dead" /\ Destroyed(o).reader = None
      /\ Destroyed(o).uid = o.uid
  BY DEF Destroyed, Unwatched, Disconnected, ClientRecord
<1> QED
  BY <1>3, <1>4 DEF Sound, ReaderOf, KeptOf, NewOf

(* disconnect() and a timer: the retry is on its way. *)
LEMMA RetriedSound ==
  ASSUME NEW c \in Clients, NEW o \in ClientRecord, o.life # "new", o.uid \in Fds
  PROVE  Sound(c, Retried(Disconnected(o)))
<1> DEFINE d == Disconnected(o)
<1>1. d \in ClientRecord /\ d.life = o.life /\ d.reader = None /\ d.uid = o.uid
  BY ZenonT(30), DisconnectedType DEF Disconnected, ClientRecord
<1> HIDE DEF d
<1>2. Retried(d) \in ClientRecord
  BY <1>1 DEF Retried, ClientRecord
<1>3. /\ Retried(d).timers > 0 /\ Retried(d).life = o.life
      /\ Retried(d).reader = None /\ Retried(d).uid = o.uid
  BY <1>1 DEF Retried, ClientRecord
<1> QED
  BY <1>2, <1>3 DEF Sound, ReaderOf, KeptOf, NewOf, d

(* Dialling makes an attempt that is watched, or fails at once. *)
LEMMA DialledSound ==
  ASSUME NEW c \in Clients, NEW o \in ClientRecord, NEW f \in Fds,
         NEW atOnce \in BOOLEAN, o.life # "new", o.uid \in Fds, o.reader = None
  PROVE  /\ Sound(c, Dialled(o, f, atOnce))
         /\ Dialled(o, f, atOnce).life = o.life
<1> DEFINE d == Dialled(o, f, atOnce)
<1>0. f # None
  BY ConnAssumption
<1>1. CASE atOnce
  <2>1. d = [o EXCEPT !.sock = f, !.up = FALSE, !.link = "none"]
    BY <1>1 DEF Dialled
  <2>2. /\ d \in ClientRecord /\ d.life = o.life
        /\ d.reader = None /\ d.uid = o.uid
    BY <2>1 DEF ClientRecord, FdOrNull
  <2>3. UnreachedOf(d)
    BY <2>1, <1>0 DEF UnreachedOf, ClientRecord
  <2> QED
    BY <2>2, <2>3 DEF Sound, ReaderOf, KeptOf, NewOf
<1>2. CASE ~atOnce
  <2>1. d = [o EXCEPT !.sock = f, !.up = FALSE, !.link = "trying", !.current = f,
                      !.strays = o.strays \cup ({o.current} \ {None})]
    BY <1>2 DEF Dialled, ClientRecord
  <2>a. o.strays \cup ({o.current} \ {None}) \in SUBSET Fds
    BY DEF ClientRecord, FdOrNull
  <2>b. d \in ClientRecord
    BY ZenonT(30), <2>1, <2>a DEF ClientRecord, FdOrNull
  <2>2. /\ d \in ClientRecord /\ d.life = o.life
        /\ d.reader = None /\ d.uid = o.uid
    BY <2>1, <2>b DEF ClientRecord
  <2>3. AttemptOf(d)
    BY <2>1 DEF AttemptOf, ClientRecord
  <2> QED
    BY <2>2, <2>3 DEF Sound, ReaderOf, KeptOf, NewOf
<1> QED
  BY <1>1, <1>2

(* A datagram socket is connected and read from at once. *)
LEMMA BoundSound ==
  ASSUME NEW c \in Clients, NEW o \in ClientRecord, NEW f \in Fds,
         o.life # "new", o.uid \in Fds
  PROVE  /\ Sound(c, Bound(o, f))
         /\ Bound(o, f).life = o.life
<1> DEFINE d == Bound(o, f)
<1>1. d = [o EXCEPT !.sock = f, !.up = TRUE, !.link = "up", !.reader = f]
  BY DEF Bound
<1>2. /\ d \in ClientRecord /\ d.life = o.life /\ d.uid = o.uid
      /\ d.up /\ d.reader = d.sock
  BY ZenonT(30), <1>1 DEF ClientRecord, FdOrNull
<1> QED
  BY <1>2 DEF Sound, ReaderOf, KeptOf, NewOf

LEMMA OpenedSound ==
  ASSUME NEW c \in Clients, NEW o \in ClientRecord, NEW f \in Fds,
         NEW atOnce \in BOOLEAN, o.life # "new", o.uid \in Fds, o.reader = None
  PROVE  /\ Sound(c, Opened(o, f, atOnce))
         /\ Opened(o, f, atOnce).life = o.life
  BY BoundSound, DialledSound DEF Opened

(* onConnect(): connected, or a retry is on its way. *)
LEMMA ConnectEndedSound ==
  ASSUME NEW c \in Clients, NEW o \in ClientRecord, NEW ok \in BOOLEAN,
         o.life # "new", o.uid \in Fds, ~o.up, ReaderOf(o)
  PROVE  /\ Sound(c, ConnectEnded(c, Unwatched(o), ok))
         /\ ConnectEnded(c, Unwatched(o), ok).life = o.life
<1> DEFINE w == Unwatched(o)
           d == ConnectEnded(c, w, ok)
<1>1. /\ w \in ClientRecord /\ w.life = o.life /\ w.up = o.up /\ w.uid = o.uid
      /\ w.sock = o.sock /\ w.reader = None
  BY DEF Unwatched, ClientRecord, FdOrNull, ReaderOf
<1> HIDE DEF w
<1>2. CASE ok
  <2>1. d = [w EXCEPT !.up = TRUE, !.reader = w.sock]
    BY <1>2 DEF ConnectEnded
  <2>2. /\ d \in ClientRecord /\ d.life = o.life /\ d.uid = o.uid
        /\ d.up /\ d.reader = d.sock
    BY ZenonT(30), <2>1, <1>1 DEF ClientRecord
  <2> QED
    BY <2>2 DEF Sound, ReaderOf, KeptOf, NewOf, w
<1>3. CASE ~ok
  <2>1. d = [w EXCEPT !.link = "failed",
                      !.timers = w.timers + (IF c \in AutoReconnect THEN 1 ELSE 0)]
    BY <1>3 DEF ConnectEnded
  <2>a. /\ w.timers \in Nat
        /\ w.timers + (IF c \in AutoReconnect THEN 1 ELSE 0) \in Nat
        /\ c \in AutoReconnect => w.timers + (IF c \in AutoReconnect THEN 1 ELSE 0) > 0
    BY <1>1 DEF ClientRecord
  <2> DEFINE t == w.timers + (IF c \in AutoReconnect THEN 1 ELSE 0)
  <2>b. d = [w EXCEPT !.link = "failed", !.timers = t]
    BY <2>1
  <2>c. t \in Nat /\ (c \in AutoReconnect => t > 0)
    BY <2>a
  <2> HIDE DEF t, d
  <2>2. /\ d \in ClientRecord /\ d.life = o.life
        /\ d.reader = None /\ d.uid = o.uid
    BY <2>b, <2>c, <1>1 DEF ClientRecord
  <2>3. c \in AutoReconnect => d.timers > 0
    BY <2>b, <2>c, <1>1 DEF ClientRecord
  <2> USE DEF d
  <2> QED
    BY <2>2, <2>3 DEF Sound, ReaderOf, KeptOf, NewOf, w
<1> QED
  BY <1>2, <1>3
-----------------------------------------------------------------------------
(* The end of a callback keeps the invariant. *)
LEMMA SettleKeeps ==
  ASSUME NEW map \in Maps, NEW os \in [Clients -> ClientRecord],
         \A c \in Clients : Sound(c, os[c]),
         MapAlive(map, os),
         crashed' \in BOOLEAN, Settle(map, os)
  PROVE  Inv'
<1> DEFINE Gone(c) == os[c].life = "alive" /\ ~Held(c, map, os[c])
<1>1. /\ clients' = map
      /\ obj' = [c \in Clients |-> IF Gone(c) THEN Destroyed(os[c]) ELSE os[c]]
  BY DEF Settle
<1>2. \A c \in Clients : Sound(c, obj'[c])
  <2> TAKE c \in Clients
  <2>1. obj'[c] = IF Gone(c) THEN Destroyed(os[c]) ELSE os[c]
    BY <1>1
  <2>2. Sound(c, os[c])
    OBVIOUS
  <2>3. ASSUME Gone(c) PROVE Sound(c, Destroyed(os[c]))
    BY <2>2, <2>3, DestroyedSound DEF Sound, NewOf
  <2> QED
    BY <2>1, <2>2, <2>3
<1>3. obj' \in [Clients -> ClientRecord]
  BY <1>1, <1>2 DEF Sound
<1>4. MapAlive(clients', obj')
  <2> SUFFICES ASSUME NEW u \in Fds, map[u] # None
               PROVE  obj'[map[u]].life = "alive"
    BY <1>1 DEF MapAlive
  <2>1. map[u] \in Clients
    BY DEF Maps
  <2>2. Held(map[u], map, os[map[u]])
    BY DEF Held
  <2>3. obj'[map[u]] = os[map[u]]
    BY <1>1, <2>1, <2>2
  <2> QED
    BY <2>3 DEF MapAlive
<1> QED
  BY <1>1, <1>2, <1>3, <1>4 DEF Inv

(* One record changed, and the map as it was. *)
LEMMA ChangeKeeps ==
  ASSUME Inv, NEW c \in Clients, NEW o \in ClientRecord,
         Sound(c, o), o.life = obj[c].life,
         crashed' \in BOOLEAN, Settle(clients, [obj EXCEPT ![c] = o])
  PROVE  Inv'
<1> DEFINE os == [obj EXCEPT ![c] = o]
<1>1. os \in [Clients -> ClientRecord] /\ clients \in Maps
  BY DEF Inv
<1>2. \A d \in Clients : Sound(d, os[d]) /\ os[d].life = obj[d].life
  BY DEF Inv
<1>3. MapAlive(clients, os)
  BY <1>2 DEF Inv, MapAlive, Maps
<1> QED
  BY <1>1, <1>2, <1>3, SettleKeeps

LEMMA OnDisconnectKeeps ==
  ASSUME Inv, NEW c \in Clients, NEW o \in ClientRecord,
         Sound(c, o), o.life = obj[c].life, o.life # "new",
         crashed' \in BOOLEAN, OnDisconnect(c, clients, [obj EXCEPT ![c] = o])
  PROVE  Inv'
<1> DEFINE os == [obj EXCEPT ![c] = o]
           d == Retried(Disconnected(o))
           map == [clients EXCEPT ![o.uid] = None]
<1>1. os[c] = o
  BY DEF Inv
<1>2. CASE c \in AutoReconnect
  <2>1. Sound(c, d)
    BY RetriedSound DEF Sound, NewOf
  <2>2. d \in ClientRecord /\ d.life = obj[c].life
    BY <2>1 DEF Sound, Retried, Disconnected, ClientRecord
  <2>3. Settle(clients, [os EXCEPT ![c] = d])
    BY <1>1, <1>2 DEF OnDisconnect
  <2>4. [os EXCEPT ![c] = d] = [obj EXCEPT ![c] = d]
    BY DEF Inv
  <2>5. Settle(clients, [obj EXCEPT ![c] = d])
    BY <2>3, <2>4
  <2> HIDE DEF d
  <2> QED
    BY <2>1, <2>2, <2>5, ChangeKeeps
<1>3. CASE c \notin AutoReconnect
  <2>1. Settle(map, os)
    BY <1>1, <1>3 DEF OnDisconnect
  <2>2. map \in Maps /\ os \in [Clients -> ClientRecord]
    BY DEF Inv, Maps
  <2>3. \A e \in Clients : Sound(e, os[e]) /\ os[e].life = obj[e].life
    BY DEF Inv
  <2>4. MapAlive(map, os)
    BY <2>3 DEF Inv, MapAlive, Maps
  <2> QED
    BY <2>1, <2>2, <2>3, <2>4, SettleKeeps
<1> QED
  BY <1>2, <1>3

LEMMA CrashKeeps ==
  ASSUME Crash PROVE Inv'
<1>1. \A c \in Clients : Sound(c, obj'[c])
  BY UnbornSound DEF Crash
<1>2. obj' \in [Clients -> ClientRecord]
  BY <1>1 DEF Crash, Sound
<1>3. clients' \in Maps /\ MapAlive(clients', obj')
  BY DEF Crash, Maps, MapAlive
<1> QED
  BY <1>1, <1>2, <1>3 DEF Inv, Crash
-----------------------------------------------------------------------------
(* The actions. *)
LEMMA InitHolds == Init => Inv
<1> SUFFICES ASSUME Init PROVE Inv
  OBVIOUS
<1>1. \A c \in Clients : Sound(c, obj[c])
  BY UnbornSound DEF Init
<1> QED
  BY <1>1 DEF Init, Inv, Maps, MapAlive, Sound

LEMMA UpdateKeeps ==
  ASSUME Inv, NEW S \in SUBSET Clients, Update(S)
  PROVE  Inv'
<1> DEFINE kept == [u \in Fds |-> IF clients[u] \in S THEN clients[u] ELSE None]
           new == {c \in S : obj[c].life = "new"}
<1>1. kept \in Maps /\ MapAlive(kept, obj)
  BY DEF Inv, Maps, MapAlive
<1>2. crashed' \in BOOLEAN
  BY DEF Update, Inv
<1>3. CASE Settle(kept, obj)
  BY <1>1, <1>2, <1>3, SettleKeeps DEF Inv
<1>4. ASSUME NEW c \in new, NEW type \in {"tcp", "udp"}, NEW atOnce \in BOOLEAN,
             NEW f \in Lowest(FreeBut(c)),
             Settle([kept EXCEPT ![f] = c],
                    [obj EXCEPT ![c] =
                       Opened([@ EXCEPT !.type = type, !.life = "alive",
                                        !.uid = f], f, atOnce)])
      PROVE  Inv'
  <2> DEFINE o == [obj[c] EXCEPT !.type = type, !.life = "alive", !.uid = f]
             d == Opened(o, f, atOnce)
             map == [kept EXCEPT ![f] = c]
             os == [obj EXCEPT ![c] = d]
  <2>1. c \in Clients /\ f \in Fds
    BY DEF Lowest, FreeBut
  <2>2. obj[c] \in ClientRecord /\ obj[c] = Unborn
    BY <2>1 DEF Inv, Sound, NewOf
  <2>a. obj[c].reader = None
    BY <2>2 DEF Unborn
  <2>3. /\ o \in ClientRecord /\ o.life = "alive" /\ o.uid = f
        /\ o.reader = None
    BY <2>1, <2>2, <2>a DEF ClientRecord, FdOrNull
  <2> HIDE DEF o
  <2>4. Sound(c, d) /\ d.life = "alive"
    BY <2>1, <2>3, OpenedSound
  <2>5. Settle(map, os)
    BY <1>4, <2>1 DEF Inv, o
  <2> HIDE DEF d
  <2>6. map \in Maps /\ os \in [Clients -> ClientRecord]
    BY <1>1, <2>1, <2>4 DEF Inv, Maps, Sound
  <2>7. \A e \in Clients : Sound(e, os[e])
    BY <2>4 DEF Inv
  <2>8. MapAlive(map, os)
    <3> SUFFICES ASSUME NEW u \in Fds, map[u] # None
                 PROVE  os[map[u]].life = "alive"
      BY DEF MapAlive
    <3>1. CASE map[u] = c
      BY <3>1, <2>1, <2>4 DEF Inv
    <3>2. CASE map[u] # c
      <4>1. map[u] = kept[u]
        BY <3>2, <1>1 DEF Maps
      <4>2. map[u] \in Clients /\ obj[map[u]].life = "alive"
        BY <4>1, <1>1 DEF Maps, MapAlive
      <4> QED
        BY <4>2, <3>2 DEF Inv
    <3> QED
      BY <3>1, <3>2
  <2> QED
    BY <1>2, <2>5, <2>6, <2>7, <2>8, SettleKeeps
<1> QED
  BY <1>3, <1>4 DEF Update

LEMMA ReconnectKeeps ==
  ASSUME Inv, NEW c \in Clients, Reconnect(c)
  PROVE  Inv'
<1>1. PICK f \in Lowest(FreeBut(c)), atOnce \in BOOLEAN :
        Settle(clients,
               [obj EXCEPT ![c] =
                  Dialled(Disconnected(Fired(@)), f, atOnce)])
  BY DEF Reconnect
<1> DEFINE o == Fired(obj[c])
           x == Disconnected(o)
           d == Dialled(x, f, atOnce)
<1>2. f \in Fds
  BY DEF Lowest, FreeBut
<1>3. obj[c] \in ClientRecord /\ Sound(c, obj[c])
  BY DEF Inv
<1>4. obj[c].timers \in Nat /\ obj[c].timers > 0
  BY <1>3 DEF Reconnect, ClientRecord
<1>5. obj[c].life # "new" /\ obj[c].uid \in Fds
  BY <1>3, <1>4 DEF Sound, NewOf, Unborn
<1>6. o \in ClientRecord /\ o.life = obj[c].life /\ o.uid = obj[c].uid
  BY <1>3, <1>4 DEF Fired, ClientRecord
<1>7. Settle(clients, [obj EXCEPT ![c] = d])
  BY <1>1
<1> HIDE DEF o
<1>8. /\ x \in ClientRecord /\ x.life = obj[c].life
      /\ x.uid \in Fds /\ x.reader = None
  BY ZenonT(30), <1>5, <1>6, DisconnectedType DEF Disconnected, ClientRecord
<1> HIDE DEF x
<1>9. Sound(c, d) /\ d.life = obj[c].life
  BY <1>2, <1>5, <1>8, DialledSound
<1> HIDE DEF d
<1> QED
  BY <1>7, <1>9, ChangeKeeps DEF Sound, Reconnect, Inv

LEMMA ReconnectUdpKeeps ==
  ASSUME Inv, NEW c \in Clients, ReconnectUdp(c)
  PROVE  Inv'
<1>1. PICK f \in Lowest(FreeBut(c)) :
        Settle(clients, [obj EXCEPT ![c] = Bound(Disconnected(Fired(@)), f)])
  BY DEF ReconnectUdp
<1> DEFINE o == Fired(obj[c])
           x == Disconnected(o)
           d == Bound(x, f)
<1>2. f \in Fds
  BY DEF Lowest, FreeBut
<1>3. obj[c] \in ClientRecord /\ Sound(c, obj[c])
  BY DEF Inv
<1>4. obj[c].timers \in Nat /\ obj[c].timers > 0
  BY <1>3 DEF ReconnectUdp, ClientRecord
<1>5. obj[c].life # "new" /\ obj[c].uid \in Fds
  BY <1>3, <1>4 DEF Sound, NewOf, Unborn
<1>6. o \in ClientRecord /\ o.life = obj[c].life /\ o.uid = obj[c].uid
  BY <1>3, <1>4 DEF Fired, ClientRecord
<1>7. Settle(clients, [obj EXCEPT ![c] = d])
  BY <1>1
<1> HIDE DEF o
<1>8. x \in ClientRecord /\ x.life = obj[c].life /\ x.uid \in Fds
  BY ZenonT(30), <1>5, <1>6, DisconnectedType DEF Disconnected, ClientRecord
<1> HIDE DEF x
<1>9. Sound(c, d) /\ d.life = obj[c].life
  BY <1>2, <1>5, <1>8, BoundSound
<1> HIDE DEF d
<1> QED
  BY <1>7, <1>9, ChangeKeeps DEF Sound, ReconnectUdp, Inv

LEMMA OnConnectKeeps ==
  ASSUME Inv, NEW c \in Clients, OnConnect(c)
  PROVE  Inv'
<1>1. CASE Crash
  BY <1>1, CrashKeeps
<1>2. CASE ~ConnectCrash(c) /\ crashed' = crashed
           /\ \E ok \in Result(c) :
                Settle(clients, [obj EXCEPT ![c] = ConnectEnded(c, Unwatched(@), ok)])
  <2>1. PICK ok \in Result(c) :
          Settle(clients, [obj EXCEPT ![c] = ConnectEnded(c, Unwatched(@), ok)])
    BY <1>2
  <2>2. ok \in BOOLEAN
    BY DEF Result
  <2>3. obj[c] \in ClientRecord /\ Sound(c, obj[c]) /\ ~obj[c].up
    BY DEF Inv, OnConnect
  <2>4. obj[c].life # "new" /\ obj[c].uid \in Fds
    BY <1>2, <2>3 DEF Sound, NewOf, Unborn, ConnectCrash
  <2> DEFINE d == ConnectEnded(c, Unwatched(obj[c]), ok)
  <2>5. Sound(c, d) /\ d.life = obj[c].life
    BY <2>2, <2>3, <2>4, ConnectEndedSound DEF Sound
  <2>6. Settle(clients, [obj EXCEPT ![c] = d])
    BY <2>1 DEF Inv
  <2> HIDE DEF d
  <2> QED
    BY <1>2, <2>5, <2>6, ChangeKeeps DEF Sound, Inv
<1> QED
  BY <1>1, <1>2 DEF OnConnect

LEMMA OnReadKeeps ==
  ASSUME Inv, NEW c \in Clients, OnRead(c)
  PROVE  Inv'
<1>1. CASE Crash
  BY <1>1, CrashKeeps
<1>2. CASE ~Crash
  <2> DEFINE d == clients[obj[c].uid]
  <2>1. obj[c] \in ClientRecord /\ Sound(c, obj[c]) /\ obj[c].reader # None
    BY DEF Inv, OnRead, Ended
  <2>2. obj[c].uid \in Fds
    BY <2>1 DEF Sound, NewOf, Unborn
  <2>3. d \in Clients /\ obj[d].life = "alive"
    BY <2>2 DEF OnRead, Inv, Maps, MapAlive
  <2>4. OnDisconnect(d, clients, obj) /\ crashed' \in BOOLEAN
    BY <1>2 DEF OnRead, Inv
  <2>5. obj = [obj EXCEPT ![d] = obj[d]]
    BY DEF Inv
  <2>6. Sound(d, obj[d]) /\ obj[d] \in ClientRecord /\ obj[d].life # "new"
    BY <2>3 DEF Inv
  <2> HIDE DEF d
  <2>7. OnDisconnect(d, clients, [obj EXCEPT ![d] = obj[d]])
    BY <2>4, <2>5
  <2> QED
    BY <2>3, <2>4, <2>6, <2>7, OnDisconnectKeeps
<1> QED
  BY <1>1, <1>2

LEMMA OnEmptyDatagramKeeps ==
  ASSUME Inv, NEW c \in Clients, OnEmptyDatagram(c)
  PROVE  Inv'
<1>1. obj[c] \in ClientRecord /\ Sound(c, obj[c]) /\ obj[c].reader # None
  BY DEF Inv, OnEmptyDatagram
<1>2. obj[c].life # "new"
  BY <1>1 DEF Sound, NewOf, Unborn
<1>3. obj = [obj EXCEPT ![c] = obj[c]]
  BY DEF Inv
<1>4. OnDisconnect(c, clients, [obj EXCEPT ![c] = obj[c]]) /\ crashed' \in BOOLEAN
  BY <1>3 DEF OnEmptyDatagram, Inv
<1> QED
  BY <1>1, <1>2, <1>4, OnDisconnectKeeps

LEMMA BeatTimeoutKeeps ==
  ASSUME Inv, NEW c \in Clients, BeatTimeout(c)
  PROVE  Inv'
<1> DEFINE o == [obj[c] EXCEPT !.beat = "none"]
<1>1. obj[c] \in ClientRecord /\ Sound(c, obj[c]) /\ obj[c].beat # "none"
  BY DEF Inv, BeatTimeout
<1>2. obj[c].life # "new"
  BY <1>1 DEF Sound, NewOf, Unborn
<1>3. o \in ClientRecord /\ o.life = obj[c].life
  BY <1>1 DEF ClientRecord
<1>4. Sound(c, o)
  BY <1>1, <1>2, <1>3
     DEF Sound, ReaderOf, KeptOf, AttemptOf, UnreachedOf, NewOf, ClientRecord
<1>5. OnDisconnect(c, clients, [obj EXCEPT ![c] = o])
  BY DEF BeatTimeout, Inv
<1> HIDE DEF o
<1> QED
  BY <1>2, <1>3, <1>4, <1>5, OnDisconnectKeeps DEF BeatTimeout, Inv

(* The steps that are no callback change one field or two of a record.     *)
LEMMA FieldKeeps ==
  ASSUME Inv, NEW c \in Clients, NEW o \in ClientRecord, Sound(c, o),
         o.life = obj[c].life,
         obj' = [obj EXCEPT ![c] = o], UNCHANGED <<clients, crashed>>
  PROVE  Inv'
<1>1. obj' \in [Clients -> ClientRecord]
  BY DEF Inv
<1>2. \A d \in Clients : Sound(d, obj'[d]) /\ obj'[d].life = obj[d].life
  BY DEF Inv
<1>3. MapAlive(clients', obj')
  BY <1>2 DEF Inv, MapAlive, Maps
<1> QED
  BY <1>1, <1>2, <1>3 DEF Inv

LEMMA BeatKeeps ==
  ASSUME Inv, NEW c \in Clients, Beat(c)
  PROVE  Inv'
<1> DEFINE o == Beaten(obj[c])
<1>1. obj[c] \in ClientRecord /\ Sound(c, obj[c]) /\ obj[c].beats < MaxBeats
  BY DEF Inv, Beat, Due
<1>2. obj[c].life # "new"
  BY ConnAssumption DEF Beat, Due, Listed, Inv, MapAlive
<1>3. obj[c].beats + 1 \in 0..MaxBeats
  BY <1>1, ConnAssumption DEF ClientRecord
<1>4. o \in ClientRecord /\ o.life = obj[c].life
  BY <1>1, <1>3 DEF Beaten, ClientRecord
<1>5. Sound(c, o)
  BY <1>1, <1>2, <1>4
     DEF Sound, ReaderOf, KeptOf, AttemptOf, UnreachedOf, NewOf, Beaten, ClientRecord
<1>6. obj' = [obj EXCEPT ![c] = o]
  BY DEF Beat, Inv
<1> HIDE DEF o
<1> QED
  BY <1>4, <1>5, <1>6, FieldKeeps DEF Beat

LEMMA BeatAnsweredKeeps ==
  ASSUME Inv, NEW c \in Clients, BeatAnswered(c)
  PROVE  Inv'
<1> DEFINE o == [obj[c] EXCEPT !.beat = "none"]
<1>1. obj[c] \in ClientRecord /\ Sound(c, obj[c]) /\ obj[c].beat = "sent"
  BY DEF Inv, BeatAnswered
<1>2. obj[c].life # "new"
  BY <1>1 DEF Sound, NewOf, Unborn
<1>3. o \in ClientRecord /\ o.life = obj[c].life
  BY <1>1 DEF ClientRecord
<1>4. Sound(c, o)
  BY <1>1, <1>2, <1>3
     DEF Sound, ReaderOf, KeptOf, AttemptOf, UnreachedOf, NewOf, ClientRecord
<1>5. obj' = [obj EXCEPT ![c] = o]
  BY DEF BeatAnswered, Inv
<1> HIDE DEF o
<1> QED
  BY <1>3, <1>4, <1>5, FieldKeeps DEF BeatAnswered

LEMMA ChangedKeeps ==
  ASSUME Inv, NEW c \in Clients,
         NEW from \in {"trying", "up"}, NEW to \in {"up", "refused", "closed"},
         Changed(c, from, to)
  PROVE  Inv'
<1> DEFINE o == [obj[c] EXCEPT !.link = to]
<1>1. obj[c] \in ClientRecord /\ Sound(c, obj[c]) /\ obj[c].link = from
  BY DEF Inv, Changed
<1>2. obj[c].life # "new"
  BY <1>1 DEF Sound, NewOf, Unborn
<1>3. o \in ClientRecord /\ o.life = obj[c].life
  BY <1>1 DEF ClientRecord
<1>4. Sound(c, o)
  BY <1>1, <1>2, <1>3
     DEF Sound, ReaderOf, KeptOf, AttemptOf, UnreachedOf, NewOf, ClientRecord
<1>5. obj' = [obj EXCEPT ![c] = o]
  BY DEF Changed, Inv
<1> HIDE DEF o
<1> QED
  BY <1>3, <1>4, <1>5, FieldKeeps DEF Changed

(* A stutter changes nothing. *)
LEMMA StutterKeeps == Inv /\ UNCHANGED vars => Inv'
  BY DEF vars, Inv, MapAlive

LEMMA NextKeeps == Inv /\ [Next]_vars => Inv'
<1> SUFFICES ASSUME Inv, [Next]_vars PROVE Inv'
  OBVIOUS
<1>1. ASSUME NEW S \in SUBSET Clients, Update(S) PROVE Inv'
  BY <1>1, UpdateKeeps
<1>2. ASSUME NEW c \in Clients, Reconnect(c) PROVE Inv'
  BY <1>2, ReconnectKeeps
<1>3. ASSUME NEW c \in Clients, OnConnect(c) PROVE Inv'
  BY <1>3, OnConnectKeeps
<1>4. ASSUME NEW c \in Clients, OnRead(c) PROVE Inv'
  BY <1>4, OnReadKeeps
<1>5. ASSUME NEW c \in Clients, Beat(c) PROVE Inv'
  BY <1>5, BeatKeeps
<1>6. ASSUME NEW c \in Clients, BeatAnswered(c) PROVE Inv'
  BY <1>6, BeatAnsweredKeeps
<1>7. ASSUME NEW c \in Clients, BeatTimeout(c) PROVE Inv'
  BY <1>7, BeatTimeoutKeeps
<1>8. ASSUME NEW c \in Clients, Network(c) PROVE Inv'
  BY <1>8, ChangedKeeps DEF Network
<1>9. ASSUME NEW c \in Clients, ReconnectUdp(c) PROVE Inv'
  BY <1>9, ReconnectUdpKeeps
<1>10. ASSUME NEW c \in Clients, OnEmptyDatagram(c) PROVE Inv'
  BY <1>10, OnEmptyDatagramKeeps
<1>11. CASE UNCHANGED vars
  BY <1>11, StutterKeeps
<1> QED
  BY <1>1, <1>2, <1>3, <1>4, <1>5, <1>6, <1>7, <1>8, <1>9, <1>10, <1>11 DEF Next
-----------------------------------------------------------------------------
LEMMA AlwaysInv == Spec => []Inv
<1>1. Init => Inv
  BY InitHolds
<1>2. Inv /\ [Next]_vars => Inv'
  BY NextKeeps
<1> QED
  BY <1>1, <1>2, PTL DEF Spec

(* The types hold, whatever the number of clients and descriptors. *)
THEOREM AlwaysTypeOK == Spec => []TypeOK
<1>1. Inv => TypeOK
  BY DEF Inv, TypeOK, Maps
<1> QED
  BY <1>1, AlwaysInv, PTL

(* disconnect() and onConnect() between them never leave a read watcher on *)
(* a descriptor that is not its client's connection.                       *)
THEOREM AlwaysReaderOnOwn == Spec => []ReaderOnOwn
<1>1. Inv => ReaderOnOwn
  BY DEF Inv, Sound, ReaderOf, ReaderOnOwn
<1> QED
  BY <1>1, AlwaysInv, PTL

(* Whatever timers, stray watchers and clients of the same uid do, a       *)
(* configured client with autoReconnect is given up only by a connect()    *)
(* that failed at once.                                                    *)
THEOREM AlwaysRetrying == Spec => []Retrying
<1>1. Inv => Retrying
  <2> SUFFICES ASSUME Inv, NEW c \in AutoReconnect, Listed(c)
               PROVE  obj[c].up \/ Attempt(c) \/ obj[c].timers > 0 \/ Unreached(c)
    BY DEF Retrying
  <2>1. c \in Clients /\ c # None
    BY ConnAssumption
  <2>2. obj[c].life = "alive"
    BY <2>1 DEF Listed, Inv, MapAlive
  <2>3. KeptOf(c, obj[c])
    BY <2>1 DEF Inv, Sound
  <2> QED
    BY <2>2, <2>3 DEF KeptOf, AttemptOf, UnreachedOf, Attempt, Watches, Unreached
<1> QED
  BY <1>1, AlwaysInv, PTL
-----------------------------------------------------------------------------
(* OneLife and Established.  Descriptors belong to one client at a time,   *)
(* and a client without heartbeats whose uid is its own has, besides what  *)
(* the two say, no stray watcher: each time it dials again the last watcher*)
(* is gone.  Only its own callbacks change it, for another client's look   *)
(* at the map under their own uid.                                         *)
Dialling == {"trying", "up", "refused", "closed"}

CleanOf(o) ==
  /\ o.timers \in {0, 1}
  /\ o.timers = 1 => ~o.up /\ o.link \notin Dialling
  /\ o.strays = {}
  /\ o.current # None => ~o.up /\ o.link \in Dialling
  /\ ~o.up /\ o.link \in Dialling => o.current = o.sock /\ o.sock # None
  /\ o.up => o.link \in {"up", "closed"}

TwinIn(c, os) ==
  \E d \in Clients \ {c} : os[d].uid = os[c].uid /\ os[d].uid # None

CleanIn(c, os) ==
  c \notin Beating => /\ os[c].beat = "none"
                      /\ ~TwinIn(c, os) => CleanOf(os[c])

OwnUid(map, os) == \A u \in Fds : map[u] # None => os[map[u]].uid = u

OwnFd(os) ==
  \A c, d \in Clients : os[c].sock = os[d].sock /\ os[c].sock # None => c = d

Lives(map, os) ==
  OwnUid(map, os) /\ OwnFd(os) /\ \A c \in Clients : CleanIn(c, os)

LEMMA DestroyedClean ==
  ASSUME NEW o \in ClientRecord
  PROVE  /\ Destroyed(o).uid = o.uid /\ Destroyed(o).sock = None
         /\ o.beat = "none" => Destroyed(o).beat = "none"
         /\ CleanOf(o) => CleanOf(Destroyed(o))
<1> DEFINE d == Destroyed(o)
<1>1. /\ d.uid = o.uid /\ d.sock = None /\ d.timers = o.timers
      /\ d.up = FALSE /\ d.link = "none" /\ d.current = None
      /\ d.strays = o.strays
      /\ d.beat = IF o.beat = "sent" THEN "lost" ELSE o.beat
  BY DEF Destroyed, Unwatched, Disconnected, ClientRecord
<1> HIDE DEF d
<1>2. CleanOf(o) => CleanOf(d)
  BY <1>1 DEF CleanOf, Dialling
<1> QED BY <1>1, <1>2 DEF d

(* Destroying what nobody holds leaves the others alone. *)
LEMMA SettleLives ==
  ASSUME NEW map \in Maps, NEW os \in [Clients -> ClientRecord],
         Lives(map, os), Settle(map, os)
  PROVE  Lives(clients, obj)'
<1>1. /\ clients' = map
      /\ \A c \in Clients :
           \/ obj'[c] = os[c]
           \/ obj'[c] = Destroyed(os[c])
  BY DEF Settle
<1>2. \A c \in Clients :
        /\ obj'[c].uid = os[c].uid
        /\ obj'[c].sock \in {os[c].sock, None}
        /\ os[c].beat = "none" => obj'[c].beat = "none"
        /\ CleanOf(os[c]) => CleanOf(obj'[c])
  BY <1>1, DestroyedClean
<1>3. OwnUid(map, obj')
  BY <1>2 DEF Lives, OwnUid, Maps
<1>4. OwnFd(obj')
  BY <1>2 DEF Lives, OwnFd
<1>5. \A c \in Clients : CleanIn(c, obj')
  BY <1>2 DEF Lives, CleanIn, TwinIn
<1> QED BY <1>1, <1>3, <1>4, <1>5 DEF Lives

(* One record changed, and the map as it was. *)
LEMMA OneChanged ==
  ASSUME Inv, Lives(clients, obj), NEW c \in Clients, NEW o \in ClientRecord,
         o.uid = obj[c].uid,
         o.sock = None \/ o.sock = obj[c].sock \/ o.sock \in FreeBut(c),
         c \notin Beating =>
           /\ obj[c].beat = "none" => o.beat = "none"
           /\ ~Twin(c) /\ CleanOf(obj[c]) => CleanOf(o)
  PROVE  Lives(clients, [obj EXCEPT ![c] = o])
<1> DEFINE os == [obj EXCEPT ![c] = o]
<1>1. os[c] = o /\ \A d \in Clients \ {c} : os[d] = obj[d]
  BY DEF Inv
<1> HIDE DEF os
<1>2. \A d \in Clients : os[d].uid = obj[d].uid
  BY <1>1
<1>3. OwnUid(clients, os)
  BY <1>2 DEF Lives, OwnUid, Inv, Maps
<1>4. OwnFd(os)
  BY <1>1 DEF Lives, OwnFd, FreeBut
<1>5. \A d \in Clients : CleanIn(d, os)
  <2>1. \A d \in Clients : TwinIn(d, os) <=> TwinIn(d, obj)
    BY <1>2 DEF TwinIn
  <2>2. Twin(c) <=> TwinIn(c, obj)
    BY DEF Twin, TwinIn
  <2> QED BY <1>1, <2>1, <2>2 DEF Lives, CleanIn
<1> QED BY <1>3, <1>4, <1>5 DEF Lives, os

LEMMA OneChangedLives ==
  ASSUME Inv, Lives(clients, obj), NEW c \in Clients, NEW o \in ClientRecord,
         o.uid = obj[c].uid,
         o.sock = None \/ o.sock = obj[c].sock \/ o.sock \in FreeBut(c),
         c \notin Beating =>
           /\ obj[c].beat = "none" => o.beat = "none"
           /\ ~Twin(c) /\ CleanOf(obj[c]) => CleanOf(o),
         Settle(clients, [obj EXCEPT ![c] = o])
  PROVE  Lives(clients, obj)'
<1>1. [obj EXCEPT ![c] = o] \in [Clients -> ClientRecord] /\ clients \in Maps
  BY DEF Inv
<1> QED BY <1>1, OneChanged, SettleLives

LEMMA FieldLives ==
  ASSUME Inv, Lives(clients, obj), NEW c \in Clients, NEW o \in ClientRecord,
         o.uid = obj[c].uid, o.sock = obj[c].sock,
         c \notin Beating =>
           /\ obj[c].beat = "none" => o.beat = "none"
           /\ ~Twin(c) /\ CleanOf(obj[c]) => CleanOf(o),
         obj' = [obj EXCEPT ![c] = o], clients' = clients
  PROVE  Lives(clients, obj)'
BY OneChanged

(* What dialling makes of a clean client that is neither connected nor     *)
(* connecting, and has no retry to come.                                   *)
Resting(o) == CleanOf(o) /\ o.timers = 0 /\ ~o.up /\ o.link \notin Dialling

LEMMA OpenedClean ==
  ASSUME NEW o \in ClientRecord, NEW f \in Fds, NEW atOnce \in BOOLEAN
  PROVE  /\ Dialled(o, f, atOnce).uid = o.uid
         /\ Dialled(o, f, atOnce).sock = f
         /\ Dialled(o, f, atOnce).beat = o.beat
         /\ Bound(o, f).uid = o.uid /\ Bound(o, f).sock = f
         /\ Bound(o, f).beat = o.beat
         /\ Resting(o) => CleanOf(Dialled(o, f, atOnce)) /\ CleanOf(Bound(o, f))
<1>0. f # None
  BY ConnAssumption
<1>1. CleanOf(o) /\ ~o.up /\ o.link \notin Dialling => o.current = None /\ o.strays = {}
  BY DEF CleanOf
<1>2. /\ Bound(o, f).uid = o.uid /\ Bound(o, f).sock = f
      /\ Bound(o, f).beat = o.beat
      /\ Resting(o) => CleanOf(Bound(o, f))
  BY DEF Bound, CleanOf, ClientRecord, Resting, Dialling
<1> DEFINE d == Dialled(o, f, atOnce)
<1>3. CASE atOnce
  <2>1. d = [o EXCEPT !.sock = f, !.up = FALSE, !.link = "none"]
    BY <1>3 DEF Dialled
  <2>2. Resting(o) => CleanOf(d)
    BY <2>1 DEF CleanOf, ClientRecord, Resting, Dialling
  <2> QED BY <1>2, <2>1, <2>2 DEF ClientRecord
<1>4. CASE ~atOnce
  <2>1. d = [o EXCEPT !.sock = f, !.up = FALSE, !.link = "trying", !.current = f,
                      !.strays = o.strays \cup ({o.current} \ {None})]
    BY <1>4 DEF Dialled, ClientRecord
  <2>2. /\ d.uid = o.uid /\ d.sock = f /\ d.beat = o.beat /\ d.up = FALSE
        /\ d.link = "trying" /\ d.current = f /\ d.timers = o.timers
        /\ d.strays = o.strays \cup ({o.current} \ {None})
    BY <2>1 DEF ClientRecord
  <2>3. Resting(o) => CleanOf(d)
    BY <1>0, <1>1, <2>2 DEF CleanOf, Resting, Dialling
  <2> QED BY <1>2, <2>2, <2>3
<1> QED BY <1>3, <1>4

LEMMA InitLives == Init => Lives(clients, obj)
<1>1. CleanOf(Unborn) /\ Unborn.uid = None /\ Unborn.sock = None
      /\ Unborn.beat = "none"
  BY DEF CleanOf, Unborn, Dialling
<1> QED BY <1>1 DEF Init, Lives, OwnUid, OwnFd, CleanIn, TwinIn

LEMMA CrashLives == ASSUME Crash PROVE Lives(clients, obj)'
<1>1. CleanOf(Unborn) /\ Unborn.uid = None /\ Unborn.sock = None
      /\ Unborn.beat = "none"
  BY DEF CleanOf, Unborn, Dialling
<1> QED BY <1>1 DEF Crash, Lives, OwnUid, OwnFd, CleanIn, TwinIn

(* Hosts that leave take nothing from the others; a new client begins with *)
(* one attempt, and may make another its twin.                             *)
LEMMA UpdateLives ==
  ASSUME Inv, Lives(clients, obj), NEW S \in SUBSET Clients, Update(S)
  PROVE  Lives(clients, obj)'
<1> DEFINE kept == [u \in Fds |-> IF clients[u] \in S THEN clients[u] ELSE None]
           new == {c \in S : obj[c].life = "new"}
<1>1. kept \in Maps /\ OwnUid(kept, obj)
  BY DEF Inv, Maps, Lives, OwnUid
<1>2. CASE Settle(kept, obj)
  <2>1. Lives(kept, obj)
    BY <1>1 DEF Lives
  <2> QED BY <1>1, <1>2, <2>1, SettleLives DEF Inv
<1>3. ASSUME NEW c \in new, NEW type \in {"tcp", "udp"}, NEW atOnce \in BOOLEAN,
             NEW f \in Lowest(FreeBut(c)),
             Settle([kept EXCEPT ![f] = c],
                    [obj EXCEPT ![c] =
                       Opened([@ EXCEPT !.type = type, !.life = "alive",
                                        !.uid = f], f, atOnce)])
      PROVE  Lives(clients, obj)'
  <2> DEFINE o == [obj[c] EXCEPT !.type = type, !.life = "alive", !.uid = f]
             d == Opened(o, f, atOnce)
             map == [kept EXCEPT ![f] = c]
             os == [obj EXCEPT ![c] = d]
  <2>1. c \in Clients /\ f \in Fds /\ f \in FreeBut(c) /\ f # None
    BY ConnAssumption DEF Lowest, FreeBut
  <2>2. obj[c] \in ClientRecord /\ obj[c] = Unborn
    BY <2>1 DEF Inv, Sound, NewOf
  <2>a. obj[c].reader = None
    BY <2>2 DEF Unborn
  <2>3. o \in ClientRecord /\ o.life = "alive" /\ o.uid = f /\ o.reader = None
    BY <2>1, <2>2, <2>a DEF ClientRecord, FdOrNull
  <2>4. Resting(o) /\ o.beat = "none"
    BY <2>2 DEF Unborn, Resting, CleanOf, Dialling
  <2>5. Settle(map, os)
    BY <1>3, <2>1 DEF Inv
  <2> HIDE DEF o
  <2>6. d.uid = f /\ d.sock = f /\ d.beat = "none" /\ CleanOf(d)
    BY <2>1, <2>3, <2>4, OpenedClean DEF Opened
  <2>7. d \in ClientRecord
    BY <2>1, <2>3, OpenedSound DEF Sound
  <2> HIDE DEF d
  <2>8. map \in Maps /\ os \in [Clients -> ClientRecord]
    BY <1>1, <2>1, <2>7 DEF Inv, Maps
  <2>9. os[c] = d /\ \A e \in Clients \ {c} : os[e] = obj[e]
    BY <2>1 DEF Inv
  <2>10. OwnUid(map, os)
    <3> SUFFICES ASSUME NEW u \in Fds, map[u] # None PROVE os[map[u]].uid = u
      BY DEF OwnUid
    <3>1. CASE u = f
      BY <1>1, <2>6, <2>9, <3>1 DEF Maps
    <3>2. CASE u # f
      <4>1. map[u] = kept[u] /\ kept[u] \in Clients /\ obj[kept[u]].uid = u
        BY <1>1, <3>2 DEF Maps, OwnUid
      <4>2. kept[u] # c
        BY <2>1, <2>2, <4>1, ConnAssumption DEF Unborn
      <4> QED BY <2>9, <4>1, <4>2
    <3> QED BY <3>1, <3>2
  <2>11. OwnFd(os)
    BY <2>1, <2>6, <2>9 DEF Lives, OwnFd, FreeBut
  <2>12. ASSUME NEW e \in Clients PROVE CleanIn(e, os)
    <3>1. CASE e = c
      BY <2>6, <2>9, <3>1 DEF CleanIn
    <3>2. CASE e # c
      <4>1. obj[c].uid = None
        BY <2>2 DEF Unborn
      <4>2. TwinIn(e, obj) => TwinIn(e, os)
        BY <2>9, <3>2, <4>1 DEF TwinIn
      <4> QED BY <2>9, <3>2, <4>2 DEF Lives, CleanIn
    <3> QED BY <3>1, <3>2
  <2> QED BY <2>5, <2>8, <2>10, <2>11, <2>12, SettleLives DEF Lives
<1> QED BY <1>2, <1>3 DEF Update

(* The only retry there was has fired. *)
LEMMA FiredResting ==
  ASSUME NEW o \in ClientRecord, o.timers > 0
  PROVE  /\ Disconnected(Fired(o)) \in ClientRecord
         /\ Disconnected(Fired(o)).uid = o.uid
         /\ o.beat = "none" => Disconnected(Fired(o)).beat = "none"
         /\ CleanOf(o) => Resting(Disconnected(Fired(o)))
<1>1. o.timers \in Nat /\ o.timers - 1 \in Nat
  BY DEF ClientRecord
<1>2. Fired(o) \in ClientRecord
  BY <1>1 DEF Fired, ClientRecord
<1> DEFINE x == Disconnected(Fired(o))
<1>3. x \in ClientRecord
  BY <1>2, DisconnectedType
<1>4. /\ x.uid = o.uid /\ x.timers = o.timers - 1 /\ x.up = FALSE
      /\ x.link = "none" /\ x.current = o.current /\ x.strays = o.strays
      /\ x.beat = IF o.beat = "sent" THEN "lost" ELSE o.beat
  BY <1>2 DEF Disconnected, Fired, ClientRecord
<1> HIDE DEF x
<1>5. CleanOf(o) => Resting(x)
  BY <1>1, <1>4 DEF CleanOf, Resting, Dialling
<1> QED BY <1>3, <1>4, <1>5 DEF x

LEMMA ReconnectLives ==
  ASSUME Inv, Lives(clients, obj), NEW c \in Clients,
         Reconnect(c) \/ ReconnectUdp(c)
  PROVE  Lives(clients, obj)'
<1> DEFINE x == Disconnected(Fired(obj[c]))
<1>1. obj[c] \in ClientRecord /\ obj[c].timers > 0
  BY DEF Inv, Reconnect, ReconnectUdp
<1>2. /\ x \in ClientRecord /\ x.uid = obj[c].uid
      /\ obj[c].beat = "none" => x.beat = "none"
      /\ CleanOf(obj[c]) => Resting(x)
  BY <1>1, FiredResting
<1>3. obj[c].life # "new" /\ obj[c].uid \in Fds
  BY <1>1 DEF Inv, Sound, NewOf, Unborn
<1>4. x.life = obj[c].life /\ x.reader = None
  BY <1>1 DEF Disconnected, Fired, ClientRecord
<1>5. PICK f \in Lowest(FreeBut(c)), atOnce \in BOOLEAN :
        \/ Settle(clients, [obj EXCEPT ![c] = Dialled(x, f, atOnce)])
        \/ Settle(clients, [obj EXCEPT ![c] = Bound(x, f)])
  BY DEF Reconnect, ReconnectUdp
<1>6. f \in Fds /\ f \in FreeBut(c)
  BY DEF Lowest, FreeBut
<1> HIDE DEF x
<1> DEFINE d == Dialled(x, f, atOnce)
           b == Bound(x, f)
<1>7. d \in ClientRecord /\ b \in ClientRecord
  BY <1>2, <1>3, <1>4, <1>6, DialledSound, BoundSound DEF Sound
<1>8. /\ d.uid = x.uid /\ d.sock = f /\ d.beat = x.beat
      /\ b.uid = x.uid /\ b.sock = f /\ b.beat = x.beat
      /\ Resting(x) => CleanOf(d) /\ CleanOf(b)
  BY <1>2, <1>6, OpenedClean
<1> HIDE DEF d, b
<1>9. CASE Settle(clients, [obj EXCEPT ![c] = d])
  BY <1>2, <1>6, <1>7, <1>8, <1>9, OneChangedLives
<1>10. CASE Settle(clients, [obj EXCEPT ![c] = b])
  BY <1>2, <1>6, <1>7, <1>8, <1>10, OneChangedLives
<1> QED BY <1>5, <1>9, <1>10 DEF d, b

(* The client's own watcher found the end of its own attempt: what another *)
(* client's descriptor does is not heard.                                  *)
LEMMA OnConnectLives ==
  ASSUME Inv, Lives(clients, obj), NEW c \in Clients, OnConnect(c)
  PROVE  Lives(clients, obj)'
<1>1. CASE Crash
  BY <1>1, CrashLives
<1>2. CASE ~ConnectCrash(c) /\ \E ok \in Result(c) :
             Settle(clients, [obj EXCEPT ![c] = ConnectEnded(c, Unwatched(@), ok)])
  <2> DEFINE o == obj[c]
  <2>1. PICK ok \in Result(c) :
          Settle(clients, [obj EXCEPT ![c] = ConnectEnded(c, Unwatched(@), ok)])
    BY <1>2
  <2> DEFINE d == ConnectEnded(c, Unwatched(o), ok)
  <2>2. ok \in BOOLEAN
    BY DEF Result
  <2>3. o \in ClientRecord /\ Sound(c, o) /\ ~o.up
    BY DEF Inv, OnConnect
  <2>4. o.life # "new" /\ o.uid \in Fds
    BY <1>2, <2>3 DEF Sound, NewOf, Unborn, ConnectCrash
  <2>5. d \in ClientRecord
    BY <2>2, <2>3, <2>4, ConnectEndedSound DEF Sound
  <2>6. /\ d.uid = o.uid /\ d.sock = o.sock /\ d.beat = o.beat
        /\ d.current = None /\ d.strays = o.strays
        /\ ok => d.up /\ d.link = o.link /\ d.timers = o.timers
        /\ ~ok => /\ ~d.up /\ d.link = "failed"
                  /\ d.timers = o.timers + (IF c \in AutoReconnect THEN 1 ELSE 0)
    BY <2>2, <2>3 DEF ConnectEnded, Unwatched, ClientRecord
  <2>7. ASSUME c \notin Beating, ~Twin(c), CleanOf(o) PROVE CleanOf(d)
    <3>1. PICK f \in Fds : Watches(c, f) /\ Writable(f)
      BY DEF OnConnect
    <3>2. f = o.current /\ f # None
      BY <2>7, <3>1, ConnAssumption DEF Watches, CleanOf
    <3>3. o.sock = f /\ o.link \in Dialling /\ o.timers = 0
      BY <2>3, <2>7, <3>2 DEF CleanOf
    <3>4. o.link # "trying"
      BY <3>1, <3>2, <3>3 DEF Writable, Lives, OwnFd
    <3>5. ok => o.link \in {"up", "closed"}
      BY <2>1, <3>3, <3>4 DEF Result, Dialling
    <3> QED BY <2>2, <2>6, <2>7, <3>3, <3>5 DEF CleanOf, Dialling
  <2>8. Settle(clients, [obj EXCEPT ![c] = d])
    BY <2>1 DEF Inv
  <2> HIDE DEF d
  <2> QED BY <2>5, <2>6, <2>7, <2>8, OneChangedLives
<1> QED BY <1>1, <1>2 DEF OnConnect

(* onDisconnect() for a client that was connected. *)
LEMMA OnDisconnectLives ==
  ASSUME Inv, Lives(clients, obj), NEW c \in Clients, NEW o \in ClientRecord,
         o.uid = obj[c].uid, o.sock = obj[c].sock,
         c \notin Beating =>
           /\ obj[c].beat = "none" => o.beat = "none"
           /\ ~Twin(c) /\ CleanOf(obj[c]) => CleanOf(o) /\ o.up,
         OnDisconnect(c, clients, [obj EXCEPT ![c] = o])
  PROVE  Lives(clients, obj)'
<1> DEFINE os == [obj EXCEPT ![c] = o]
           d == Retried(Disconnected(o))
           map == [clients EXCEPT ![o.uid] = None]
<1>1. os[c] = o /\ os \in [Clients -> ClientRecord]
  BY DEF Inv
<1>2. CASE c \in AutoReconnect
  <2>1. d \in ClientRecord
    <3>1. Disconnected(o) \in ClientRecord
      BY DisconnectedType
    <3> QED BY <3>1 DEF Retried, ClientRecord
  <2>2. /\ d.uid = o.uid /\ d.sock = None /\ d.up = FALSE /\ d.link = "none"
        /\ d.current = o.current /\ d.strays = o.strays
        /\ d.timers = o.timers + 1
        /\ d.beat = IF o.beat = "sent" THEN "lost" ELSE o.beat
    BY DEF Retried, Disconnected, ClientRecord
  <2>3. Settle(clients, [os EXCEPT ![c] = d])
    BY <1>1, <1>2 DEF OnDisconnect
  <2>4. [os EXCEPT ![c] = d] = [obj EXCEPT ![c] = d]
    BY DEF Inv
  <2>5. Settle(clients, [obj EXCEPT ![c] = d])
    BY <2>3, <2>4
  <2> HIDE DEF d
  <2>6. CleanOf(o) /\ o.up => CleanOf(d)
    BY <2>2 DEF CleanOf, Dialling
  <2> QED BY <2>1, <2>2, <2>5, <2>6, OneChangedLives
<1>3. CASE c \notin AutoReconnect
  <2>1. Settle(map, os)
    BY <1>1, <1>3 DEF OnDisconnect
  <2>2. Lives(clients, os)
    BY OneChanged
  <2>3. map \in Maps /\ OwnUid(map, os)
    BY <2>2 DEF Inv, Lives, OwnUid, Maps
  <2> QED BY <1>1, <2>1, <2>2, <2>3, SettleLives DEF Lives
<1> QED BY <1>2, <1>3

(* A read watcher that finds another client by its uid shares that uid.    *)
LEMMA OnReadLives ==
  ASSUME Inv, Lives(clients, obj), NEW c \in Clients, OnRead(c)
  PROVE  Lives(clients, obj)'
<1>1. CASE Crash
  BY <1>1, CrashLives
<1>2. CASE ~Crash
  <2> DEFINE d == clients[obj[c].uid]
  <2>1. obj[c] \in ClientRecord /\ Sound(c, obj[c]) /\ obj[c].reader # None
    BY DEF Inv, OnRead, Ended
  <2>a. obj[c].uid \in Fds
    BY <2>1 DEF Sound, NewOf, Unborn
  <2>b. obj[c].up
    BY <2>1 DEF Sound, ReaderOf
  <2>2. obj[c].uid \in Fds /\ obj[c].uid # None /\ obj[c].up
    BY <2>a, <2>b, ConnAssumption
  <2>3. d \in Clients /\ obj[d].uid = obj[c].uid
    BY <2>2 DEF OnRead, Inv, Maps, Lives, OwnUid
  <2>4. OnDisconnect(d, clients, obj)
    BY <1>2 DEF OnRead
  <2>5. obj = [obj EXCEPT ![d] = obj[d]] /\ obj[d] \in ClientRecord
    BY <2>3 DEF Inv
  <2>6. ~Twin(d) => obj[d].up
    BY <2>2, <2>3 DEF Twin
  <2> HIDE DEF d
  <2>7. OnDisconnect(d, clients, [obj EXCEPT ![d] = obj[d]])
    BY <2>4, <2>5
  <2> QED BY <2>3, <2>5, <2>6, <2>7, OnDisconnectLives
<1> QED BY <1>1, <1>2

LEMMA OnEmptyDatagramLives ==
  ASSUME Inv, Lives(clients, obj), NEW c \in Clients, OnEmptyDatagram(c)
  PROVE  Lives(clients, obj)'
<1>1. obj[c] \in ClientRecord /\ Sound(c, obj[c]) /\ obj[c].reader # None
  BY DEF Inv, OnEmptyDatagram
<1>2. obj[c].up
  BY <1>1 DEF Sound, ReaderOf
<1>3. obj = [obj EXCEPT ![c] = obj[c]]
  BY DEF Inv
<1>4. OnDisconnect(c, clients, [obj EXCEPT ![c] = obj[c]])
  BY <1>3 DEF OnEmptyDatagram
<1> QED BY <1>1, <1>2, <1>4, OnDisconnectLives

LEMMA BeatTimeoutLives ==
  ASSUME Inv, Lives(clients, obj), NEW c \in Clients, BeatTimeout(c)
  PROVE  Lives(clients, obj)'
<1> DEFINE o == [obj[c] EXCEPT !.beat = "none"]
<1>1. obj[c] \in ClientRecord /\ obj[c].beat # "none"
  BY DEF Inv, BeatTimeout
<1>2. c \in Beating
  BY <1>1 DEF Lives, CleanIn
<1>3. o \in ClientRecord /\ o.uid = obj[c].uid /\ o.sock = obj[c].sock
  BY <1>1 DEF ClientRecord
<1>4. OnDisconnect(c, clients, [obj EXCEPT ![c] = o])
  BY DEF BeatTimeout, Inv
<1> HIDE DEF o
<1> QED BY <1>2, <1>3, <1>4, OnDisconnectLives

LEMMA BeatLives ==
  ASSUME Inv, Lives(clients, obj), NEW c \in Clients, Beat(c) \/ BeatAnswered(c)
  PROVE  Lives(clients, obj)'
<1>1. obj[c] \in ClientRecord /\ c \in Beating
  BY DEF Inv, Beat, Due, BeatAnswered, Lives, CleanIn
<1>2. CASE Beat(c)
  <2> DEFINE o == Beaten(obj[c])
  <2>1. obj[c].beats + 1 \in 0..MaxBeats
    BY <1>1, <1>2, ConnAssumption DEF Beat, Due, ClientRecord
  <2>2. o \in ClientRecord /\ o.uid = obj[c].uid /\ o.sock = obj[c].sock
    BY <1>1, <2>1 DEF Beaten, ClientRecord
  <2>3. obj' = [obj EXCEPT ![c] = o] /\ clients' = clients
    BY <1>2 DEF Beat, Inv
  <2> HIDE DEF o
  <2> QED BY <1>1, <2>2, <2>3, FieldLives
<1>3. CASE BeatAnswered(c)
  <2> DEFINE o == [obj[c] EXCEPT !.beat = "none"]
  <2>1. o \in ClientRecord /\ o.uid = obj[c].uid /\ o.sock = obj[c].sock
    BY <1>1 DEF ClientRecord
  <2>2. obj' = [obj EXCEPT ![c] = o] /\ clients' = clients
    BY <1>3 DEF BeatAnswered, Inv
  <2> HIDE DEF o
  <2> QED BY <1>1, <2>1, <2>2, FieldLives
<1> QED BY <1>2, <1>3

LEMMA NetworkLives ==
  ASSUME Inv, Lives(clients, obj), NEW c \in Clients, Network(c)
  PROVE  Lives(clients, obj)'
<1>1. PICK from \in {"trying", "up"}, to \in {"up", "refused", "closed"} :
        /\ Changed(c, from, to)
        /\ from = "up" => to = "closed"
  BY DEF Network
<1> DEFINE o == [obj[c] EXCEPT !.link = to]
<1>2. obj[c] \in ClientRecord /\ obj[c].link = from
  BY <1>1 DEF Inv, Changed
<1>3. /\ o \in ClientRecord /\ o.uid = obj[c].uid /\ o.sock = obj[c].sock
      /\ o.beat = obj[c].beat /\ o.link = to /\ o.up = obj[c].up
      /\ o.timers = obj[c].timers /\ o.current = obj[c].current
      /\ o.strays = obj[c].strays
  BY <1>2 DEF ClientRecord
<1>4. obj' = [obj EXCEPT ![c] = o] /\ clients' = clients
  BY <1>1 DEF Changed, Inv
<1> HIDE DEF o
<1>5. CleanOf(obj[c]) => CleanOf(o)
  BY <1>1, <1>2, <1>3 DEF CleanOf, Dialling
<1> QED BY <1>3, <1>4, <1>5, FieldLives

LEMMA NextLives == Inv /\ Lives(clients, obj) /\ [Next]_vars => Lives(clients, obj)'
<1> SUFFICES ASSUME Inv, Lives(clients, obj), [Next]_vars
             PROVE  Lives(clients, obj)'
  OBVIOUS
<1>1. ASSUME NEW S \in SUBSET Clients, Update(S) PROVE Lives(clients, obj)'
  BY <1>1, UpdateLives
<1>2. ASSUME NEW c \in Clients,
             \/ Reconnect(c) \/ ReconnectUdp(c) \/ OnConnect(c) \/ OnRead(c)
             \/ OnEmptyDatagram(c) \/ Beat(c) \/ BeatAnswered(c) \/ BeatTimeout(c)
             \/ Network(c)
      PROVE  Lives(clients, obj)'
  BY <1>2, ReconnectLives, OnConnectLives, OnReadLives, OnEmptyDatagramLives,
     BeatLives, BeatTimeoutLives, NetworkLives
<1>3. CASE UNCHANGED vars
  BY <1>3 DEF vars
<1> QED BY <1>1, <1>2, <1>3 DEF Next

LEMMA AlwaysLives == Spec => []Lives(clients, obj)
BY AlwaysInv, InitLives, NextLives, PTL DEF Spec

(* A client without heartbeats that shares its uid with none has one life  *)
(* at a time, whatever the other clients, their stray watchers and their   *)
(* descriptors do.                                                         *)
THEOREM AlwaysOneLife == Spec => []OneLife
<1>1. Lives(clients, obj) => OneLife
  <2> SUFFICES ASSUME Lives(clients, obj), NEW c \in Clients \ Beating, ~Twin(c)
               PROVE  Count(obj[c].up) + Count(Attempt(c)) + obj[c].timers <= 1
    BY DEF OneLife
  <2>1. CleanOf(obj[c])
    BY DEF Lives, CleanIn, Twin, TwinIn
  <2>2. ~(obj[c].up /\ Attempt(c)) /\ (obj[c].timers = 1 => ~obj[c].up /\ ~Attempt(c))
    BY <2>1 DEF CleanOf, Attempt, Dialling
  <2>3. Count(obj[c].up) \in {0, 1} /\ Count(Attempt(c)) \in {0, 1}
    BY DEF Count
  <2> QED BY <2>1, <2>2, <2>3 DEF CleanOf, Count
<1> QED BY <1>1, AlwaysLives, PTL

(* Such a client counts as connected only while the kernel has connected   *)
(* its socket, though writability is reported by descriptor.               *)
THEOREM AlwaysEstablished == Spec => []Established
<1>1. Lives(clients, obj) => Established
  BY DEF Lives, CleanIn, CleanOf, Established, Twin, TwinIn
<1> QED BY <1>1, AlwaysLives, PTL
-----------------------------------------------------------------------------
(* Harmless.  Nothing is left of an object that was destroyed: no timer    *)
(* and no session holds it, and its socket is gone.                        *)
DeadOf(o) ==
  o.life = "dead" => o.link = "none" /\ o.timers = 0 /\ o.beat = "none"

Buried(os) == \A c \in Clients : DeadOf(os[c])

LEMMA SettleBuried ==
  ASSUME NEW map, NEW os \in [Clients -> ClientRecord], Buried(os), Settle(map, os)
  PROVE  Buried(obj')
<1> SUFFICES ASSUME NEW c \in Clients PROVE DeadOf(obj'[c])
  BY DEF Buried
<1>1. CASE obj'[c] = os[c]
  BY <1>1 DEF Buried
<1>2. CASE obj'[c] # os[c]
  <2>1. obj'[c] = Destroyed(os[c]) /\ ~Held(c, map, os[c])
    BY <1>2 DEF Settle
  <2>2. os[c].timers = 0 /\ os[c].beat = "none"
    BY <2>1 DEF Held, ClientRecord
  <2>3. /\ Destroyed(os[c]).link = "none" /\ Destroyed(os[c]).timers = os[c].timers
        /\ os[c].beat = "none" => Destroyed(os[c]).beat = "none"
    BY DEF Destroyed, Unwatched, Disconnected, ClientRecord
  <2> QED BY <2>1, <2>2, <2>3 DEF DeadOf
<1> QED BY <1>1, <1>2

(* A callback works on a client that is not dead, and does not kill it     *)
(* before its end.                                                         *)
LEMMA OneBuried ==
  ASSUME Inv, Buried(obj), NEW c \in Clients, obj[c].life # "dead",
         NEW o \in ClientRecord, o.life = obj[c].life
  PROVE  /\ Buried([obj EXCEPT ![c] = o])
         /\ [obj EXCEPT ![c] = o] \in [Clients -> ClientRecord]
BY DEF Inv, Buried, DeadOf

LEMMA OnDisconnectBuried ==
  ASSUME Inv, Buried(obj), NEW c \in Clients, obj[c].life # "dead",
         NEW o \in ClientRecord, o.life = obj[c].life,
         OnDisconnect(c, clients, [obj EXCEPT ![c] = o])
  PROVE  Buried(obj')
<1> DEFINE os == [obj EXCEPT ![c] = o]
           d == Retried(Disconnected(o))
<1>1. os[c] = o /\ os \in [Clients -> ClientRecord] /\ Buried(os)
  BY OneBuried DEF Inv
<1>2. CASE c \in AutoReconnect
  <2>1. Disconnected(o) \in ClientRecord
    BY DisconnectedType
  <2>2. d \in ClientRecord /\ d.life = o.life
    <3>1. d \in ClientRecord
      BY <2>1 DEF Retried, ClientRecord
    <3>2. d.life = o.life
      BY DEF Retried, Disconnected, ClientRecord
    <3> QED BY <3>1, <3>2
  <2>3. Settle(clients, [os EXCEPT ![c] = d])
    BY <1>1, <1>2 DEF OnDisconnect
  <2>4. [os EXCEPT ![c] = d] = [obj EXCEPT ![c] = d]
    BY DEF Inv
  <2> HIDE DEF d, os
  <2>5. /\ Buried([obj EXCEPT ![c] = d])
        /\ [obj EXCEPT ![c] = d] \in [Clients -> ClientRecord]
    BY <2>2, OneBuried
  <2> QED BY <2>3, <2>4, <2>5, SettleBuried
<1>3. CASE c \notin AutoReconnect
  BY <1>1, <1>3, SettleBuried DEF OnDisconnect
<1> QED BY <1>2, <1>3

LEMMA NextBuried ==
  Inv /\ Lives(clients, obj) /\ Buried(obj) /\ [Next]_vars => Buried(obj)'
<1> SUFFICES ASSUME Inv, Lives(clients, obj), Buried(obj), [Next]_vars
             PROVE  Buried(obj')
  BY DEF Buried, DeadOf
<1>1. CASE UNCHANGED vars
  BY <1>1 DEF vars
<1>2. CASE Crash
  BY <1>2 DEF Crash, Buried, DeadOf, Unborn
<1>3. ASSUME NEW S \in SUBSET Clients, Update(S) PROVE Buried(obj')
  <2>1. CASE \E map : Settle(map, obj)
    BY <2>1, SettleBuried DEF Inv
  <2>2. ASSUME NEW map, NEW c \in Clients, obj[c].life = "new",
               NEW type \in {"tcp", "udp"}, NEW atOnce \in BOOLEAN, NEW f \in Fds,
               Settle(map, [obj EXCEPT ![c] =
                              Opened([@ EXCEPT !.type = type, !.life = "alive",
                                               !.uid = f], f, atOnce)])
        PROVE  Buried(obj')
    <3> DEFINE o == [obj[c] EXCEPT !.type = type, !.life = "alive", !.uid = f]
               d == Opened(o, f, atOnce)
               os == [obj EXCEPT ![c] = d]
    <3>1. obj[c] \in ClientRecord /\ obj[c] = Unborn
      BY <2>2 DEF Inv, Sound, NewOf
    <3>2. o \in ClientRecord /\ o.life = "alive" /\ o.uid = f
      BY <3>1 DEF ClientRecord, FdOrNull
    <3>3. o.reader = None
      BY <3>1 DEF Unborn
    <3>4. Settle(map, os)
      BY <2>2 DEF Inv
    <3> HIDE DEF o
    <3>5. d \in ClientRecord
      BY <3>2, <3>3, OpenedSound DEF Sound
    <3>6. d.life = "alive"
      BY <3>2 DEF Opened, Bound, Dialled, ClientRecord
    <3> HIDE DEF d
    <3>7. os \in [Clients -> ClientRecord] /\ Buried(os)
      BY <3>5, <3>6 DEF Inv, Buried, DeadOf
    <3> QED BY <3>4, <3>7, SettleBuried
  <2> QED BY <1>3, <2>1, <2>2 DEF Update, Lowest, FreeBut
<1>4. ASSUME NEW c \in Clients, Reconnect(c) \/ ReconnectUdp(c) PROVE Buried(obj')
  <2> DEFINE x == Disconnected(Fired(obj[c]))
  <2>1. obj[c] \in ClientRecord /\ obj[c].timers > 0
    BY <1>4 DEF Inv, Reconnect, ReconnectUdp
  <2>2. obj[c].life # "dead" /\ obj[c].life # "new" /\ obj[c].uid \in Fds
    BY <2>1 DEF Inv, Sound, NewOf, Unborn, Buried, DeadOf
  <2>3. x \in ClientRecord /\ x.uid = obj[c].uid
    BY <2>1, FiredResting
  <2>4. x.life = obj[c].life /\ x.reader = None
    BY <2>1 DEF Disconnected, Fired, ClientRecord
  <2>5. PICK f \in Lowest(FreeBut(c)), atOnce \in BOOLEAN :
          \/ Settle(clients, [obj EXCEPT ![c] = Dialled(x, f, atOnce)])
          \/ Settle(clients, [obj EXCEPT ![c] = Bound(x, f)])
    BY <1>4 DEF Reconnect, ReconnectUdp
  <2>6. f \in Fds
    BY DEF Lowest, FreeBut
  <2> HIDE DEF x
  <2> DEFINE d == Dialled(x, f, atOnce)
             b == Bound(x, f)
  <2>7. d \in ClientRecord /\ b \in ClientRecord
    BY <2>2, <2>3, <2>4, <2>6, DialledSound, BoundSound DEF Sound
  <2>8. d.life = obj[c].life /\ b.life = obj[c].life
    BY <2>3, <2>4 DEF Dialled, Bound, ClientRecord
  <2> HIDE DEF d, b
  <2>9. /\ Buried([obj EXCEPT ![c] = d]) /\ Buried([obj EXCEPT ![c] = b])
        /\ [obj EXCEPT ![c] = d] \in [Clients -> ClientRecord]
        /\ [obj EXCEPT ![c] = b] \in [Clients -> ClientRecord]
    BY <2>2, <2>7, <2>8, OneBuried
  <2> QED BY <2>5, <2>9, SettleBuried DEF d, b
<1>5. ASSUME NEW c \in Clients, OnConnect(c) PROVE Buried(obj')
  <2>1. CASE ~ConnectCrash(c) /\ \E ok \in Result(c) :
               Settle(clients, [obj EXCEPT ![c] = ConnectEnded(c, Unwatched(@), ok)])
    <3> DEFINE o == obj[c]
    <3>1. PICK ok \in Result(c) :
            Settle(clients, [obj EXCEPT ![c] = ConnectEnded(c, Unwatched(@), ok)])
      BY <2>1
    <3> DEFINE d == ConnectEnded(c, Unwatched(o), ok)
    <3>2. ok \in BOOLEAN
      BY DEF Result
    <3>3. o \in ClientRecord /\ Sound(c, o) /\ ~o.up /\ o.life # "dead"
      BY <1>5, <2>1 DEF Inv, OnConnect, ConnectCrash
    <3>4. o.life # "new" /\ o.uid \in Fds
      BY <2>1, <3>3 DEF Sound, NewOf, Unborn, ConnectCrash
    <3>5. d \in ClientRecord
      BY <3>2, <3>3, <3>4, ConnectEndedSound DEF Sound
    <3>6. d.life = o.life
      BY <3>2, <3>3 DEF ConnectEnded, Unwatched, ClientRecord
    <3>7. Settle(clients, [obj EXCEPT ![c] = d])
      BY <3>1 DEF Inv
    <3> HIDE DEF d
    <3> QED BY <3>3, <3>5, <3>6, <3>7, OneBuried, SettleBuried
  <2> QED BY <1>2, <1>5, <2>1 DEF OnConnect
<1>6. ASSUME NEW c \in Clients, OnRead(c) PROVE Buried(obj')
  <2> DEFINE d == clients[obj[c].uid]
  <2>1. Sound(c, obj[c]) /\ obj[c].reader # None
    BY <1>6 DEF Inv, OnRead, Ended
  <2>2. obj[c].uid \in Fds
    BY <2>1 DEF Sound, NewOf, Unborn
  <2>3. d \in Clients /\ obj[d].life = "alive"
    BY <1>6, <2>2 DEF OnRead, Inv, Maps, MapAlive
  <2>4. obj = [obj EXCEPT ![d] = obj[d]] /\ obj[d] \in ClientRecord
    BY <2>3 DEF Inv
  <2>5. Crash \/ OnDisconnect(d, clients, obj)
    BY <1>6 DEF OnRead
  <2> HIDE DEF d
  <2>6. OnDisconnect(d, clients, obj) =>
          OnDisconnect(d, clients, [obj EXCEPT ![d] = obj[d]])
    BY <2>4
  <2> QED BY <1>2, <2>3, <2>4, <2>5, <2>6, OnDisconnectBuried
<1>7. ASSUME NEW c \in Clients, BeatTimeout(c) PROVE Buried(obj')
  <2> DEFINE o == [obj[c] EXCEPT !.beat = "none"]
  <2>1. obj[c] \in ClientRecord /\ obj[c].life # "dead"
    BY <1>7 DEF Inv, BeatTimeout, Buried, DeadOf
  <2>2. o \in ClientRecord /\ o.life = obj[c].life
    BY <2>1 DEF ClientRecord
  <2>3. OnDisconnect(c, clients, [obj EXCEPT ![c] = o])
    BY <1>7 DEF BeatTimeout, Inv
  <2> HIDE DEF o
  <2> QED BY <2>1, <2>2, <2>3, OnDisconnectBuried
<1>9. ASSUME NEW c \in Clients, OnEmptyDatagram(c) PROVE Buried(obj')
  <2>1. obj[c] \in ClientRecord /\ Sound(c, obj[c]) /\ obj[c].reader # None
        /\ clients[obj[c].uid] = c
    BY <1>9 DEF Inv, OnEmptyDatagram
  <2>2. obj[c].life # "dead"
    <3>1. obj[c].uid \in Fds
      BY <2>1 DEF Sound, NewOf, Unborn
    <3> QED BY <2>1, <3>1, ConnAssumption DEF Inv, MapAlive
  <2>3. obj = [obj EXCEPT ![c] = obj[c]]
    BY DEF Inv
  <2>4. OnDisconnect(c, clients, [obj EXCEPT ![c] = obj[c]])
    BY <1>9, <2>3 DEF OnEmptyDatagram
  <2> QED BY <2>1, <2>2, <2>4, OnDisconnectBuried
<1>8. ASSUME NEW c \in Clients, Beat(c) \/ BeatAnswered(c) \/ Network(c)
      PROVE  Buried(obj')
  <2>1. obj[c] \in ClientRecord /\ obj[c].life # "dead"
    <3>1. CASE Beat(c)
      <4>1. PICK u \in Fds : clients[u] = c
        BY <3>1 DEF Beat, Due, Listed
      <4>2. c # None
        BY ConnAssumption
      <4> QED BY <4>1, <4>2 DEF Inv, MapAlive
    <3>2. CASE BeatAnswered(c)
      BY <3>2 DEF Inv, BeatAnswered, Buried, DeadOf
    <3>3. CASE Network(c)
      BY <3>3 DEF Inv, Network, Changed, Buried, DeadOf
    <3> QED BY <1>8, <3>1, <3>2, <3>3
  <2>2. /\ obj'[c].life = obj[c].life
        /\ \A d \in Clients \ {c} : obj'[d] = obj[d]
    <3>1. CASE Beat(c)
      BY <2>1, <3>1 DEF Beat, Beaten, Inv, ClientRecord
    <3>2. CASE BeatAnswered(c)
      BY <2>1, <3>2 DEF BeatAnswered, Inv, ClientRecord
    <3>3. CASE Network(c)
      BY <2>1, <3>3 DEF Network, Changed, Inv, ClientRecord
    <3> QED BY <1>8, <3>1, <3>2, <3>3
  <2> QED BY <2>1, <2>2 DEF Buried, DeadOf
<1> QED BY <1>1, <1>3, <1>4, <1>5, <1>6, <1>7, <1>8, <1>9 DEF Next

LEMMA AlwaysBuried == Spec => []Buried(obj)
<1>1. Init => Buried(obj)
  BY DEF Init, Buried, DeadOf, Unborn
<1> QED BY <1>1, AlwaysInv, AlwaysLives, NextBuried, PTL DEF Spec

(* What serving a client without heartbeats and without a twin meets is    *)
(* its own attempt or its own connection.                                  *)
LEMMA CleanHarmless == Inv /\ Lives(clients, obj) /\ Buried(obj) => Harmless
<1> SUFFICES ASSUME Inv, Lives(clients, obj), Buried(obj),
                    NEW c \in Clients \ Beating, ~Twin(c)
             PROVE  ~Fatal(c)
  BY DEF Harmless
<1>1. CleanOf(obj[c]) /\ Sound(c, obj[c]) /\ DeadOf(obj[c])
  BY DEF Lives, CleanIn, Twin, TwinIn, Inv, Buried
<1>2. ASSUME NEW f \in Fds, Watches(c, f), ~obj[c].up PROVE ~ConnectCrash(c)
  <2>1. f # None /\ f = obj[c].current
    BY <1>1, <1>2, ConnAssumption DEF Watches, CleanOf
  <2>2. obj[c].link \in Dialling
    BY <1>1, <2>1 DEF CleanOf
  <2> QED BY <1>1, <2>2 DEF ConnectCrash, Dialling, DeadOf
<1>3. ASSUME Ended(c), clients[obj[c].uid] # None
      PROVE  obj[clients[obj[c].uid]].sock # None
  <2>1. obj[c].reader # None /\ obj[c].reader = obj[c].sock
    BY <1>1, <1>3 DEF Ended, Sound, ReaderOf
  <2>2. obj[c].uid \in Fds /\ obj[c].uid # None
    <3>1. obj[c].uid \in Fds
      BY <1>1, <2>1 DEF Sound, NewOf, Unborn
    <3> QED BY <3>1, ConnAssumption
  <2>3. PICK d \in Clients : d = clients[obj[c].uid] /\ obj[d].uid = obj[c].uid
    BY <1>3, <2>2 DEF Inv, Maps, Lives, OwnUid
  <2>4. d = c
    BY <2>2, <2>3 DEF Twin
  <2> QED BY <2>1, <2>3, <2>4
<1> QED BY <1>2, <1>3 DEF Fatal

(* A client without heartbeats that shares its uid with none is what it is *)
(* taken for and never ends the process, whatever the others, their stray  *)
(* watchers and their descriptors do.                                      *)
THEOREM AlwaysSteady == Spec => []Steady
BY AlwaysInv, AlwaysLives, AlwaysBuried, CleanHarmless, AlwaysEstablished, PTL DEF Steady

(* So the process dies of a client with heartbeats or with a twin only:    *)
(* of its stray connect watcher, or of a read watcher whose uid is now     *)
(* another client's.                                                       *)
THEOREM AlwaysOnlyMixedUpCrash == Spec => OnlyMixedUpCrash
<1>1. Harmless /\ [Next]_vars =>
        [~crashed /\ crashed' =>
           \E c \in Clients : (c \in Beating \/ Twin(c)) /\ Fatal(c)]_vars
  <2> SUFFICES ASSUME Harmless, Next, ~crashed, crashed'
               PROVE  \E c \in Clients : (c \in Beating \/ Twin(c)) /\ Fatal(c)
    OBVIOUS
  <2>1. PICK c \in Clients : OnConnect(c) \/ OnRead(c)
    BY DEF Next, Update, Reconnect, ReconnectUdp, OnEmptyDatagram, Beat, BeatAnswered,
           BeatTimeout, Network, Changed
  <2>2. Fatal(c)
    <3>1. CASE OnConnect(c)
      BY <3>1 DEF OnConnect, Fatal
    <3>2. CASE OnRead(c)
      BY <3>2 DEF OnRead, Fatal
    <3> QED BY <2>1, <3>1, <3>2
  <2> QED BY <2>2 DEF Harmless
<1>2. Steady => Harmless
  BY DEF Steady
<1> QED BY <1>1, <1>2, AlwaysSteady, PTL DEF Spec, OnlyMixedUpCrash
=============================================================================

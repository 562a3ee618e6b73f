------------------------ MODULE ServerChannelProofs -------------------------
(***************************************************************************)
(* Proofs about ServerChannel, for any connections, descriptors, handlers  *)
(* and number of packets.                                                  *)
(***************************************************************************)
EXTENDS ServerChannel, TLAPS

LEMMA Initial == Init => TypeOK /\ MapHoldsOpen /\ OwnSocket /\ WaitHasJob
<1> SUFFICES ASSUME Init PROVE TypeOK /\ MapHoldsOpen /\ OwnSocket /\ WaitHasJob
  OBVIOUS
<1>1. TypeOK
  <2>1. <<>> \in Seq(Packet) /\ <<>> \in Seq(Job) /\ <<>> \in Seq(Conns)
    OBVIOUS
  <2>2. 0 \in 0..MaxSend
    BY ServerAssumption
  <2>3. task \in [Handlers -> TaskType]
    BY DEF Init, TaskType
  <2> QED BY <2>1, <2>2, <2>3 DEF Init, TypeOK
<1>2. MapHoldsOpen /\ OwnSocket /\ WaitHasJob
  BY DEF Init, MapHoldsOpen, OwnSocket, WaitHasJob, Open, NoFd
<1> QED BY <1>1, <1>2

(* Farewells are no packets. *)
LEMMA FarewellType ==
  ASSUME NEW c \in Conns
  PROVE /\ Farewell(c) \in Job
        /\ Farewell(c) \notin Packet
        /\ Farewell(c).kind = "close"
        /\ Farewell(c).chan = c
BY ServerAssumption DEF Farewell, Job, Packet

LEMMA CallIsPacket ==
  ASSUME NEW j \in Job, j.kind # "close"
  PROVE j \in Packet
BY DEF Job, Farewell

LEMMA PacketIsJob == Packet \subseteq Job
BY DEF Job

(* A task that is not idle. *)
LEMMA TaskOf ==
  ASSUME TypeOK, NEW h \in Handlers
  PROVE /\ task[h].phase = "run" => task[h].job \in Job
        /\ task[h].phase = "reply" => task[h].job \in Packet
BY DEF TypeOK, TaskType, NoTask

LEMMA TurnType ==
  ASSUME TypeOK, NEW h \in Handlers, NEW j \in Job, NEW p \in {"run", "reply"},
         p = "reply" => j \in Packet, Turn(h, p, j)
  PROVE task' \in [Handlers -> TaskType]
BY DEF TypeOK, Turn, TaskType

LEMMA RestType ==
  ASSUME TypeOK, NEW h \in Handlers, Rest(h)
  PROVE task' \in [Handlers -> TaskType]
BY DEF TypeOK, Rest, TaskType

LEMMA RemovedType ==
  ASSUME TypeOK, NEW c \in Conns, Removed(c)
  PROVE /\ channels' \in [Fds -> Conns \cup {None}]
        /\ sock' \in [Conns -> Fds \cup {NoFd}]
        /\ signalled' \subseteq Conns
BY DEF TypeOK, Removed, Close

LEMMA WaitForType ==
  ASSUME TypeOK, NEW c \in Conns, NEW todo \in SUBSET Fds, WaitFor(c, todo)
  PROVE /\ ioAt' \in {"poll", "tasks", "idle", "wait", "read"}
        /\ ioChan' \in Conns \cup {None}
        /\ (ioChan' = None) <=> (ioAt' \notin {"wait", "read"})
        /\ ioTodo' \subseteq Fds
        /\ answered' \in BOOLEAN
        /\ jobs' \in Seq(Job)
<1>1. jobs' \in Seq(Job)
  BY FarewellType DEF TypeOK, WaitFor
<1>2. c # None
  BY ServerAssumption
<1> QED BY <1>1, <1>2 DEF WaitFor
-----------------------------------------------------------------------------
LEMMA PeerType ==
  ASSUME TypeOK, NEW c \in Conns, Peer(c), UNCHANGED blocking
  PROVE TypeOK'
<1>1. CASE Connect(c)
  BY <1>1, SMTT(60) DEF Connect, TypeOK, loopVars, ioVars
<1>2. CASE SendPacket(c)
  <2>1. PICK k \in Kinds :
          inbox' = [inbox EXCEPT ![c] =
                      Append(@, [kind |-> k, chan |-> c, n |-> sent[c] + 1])]
    BY <1>2 DEF SendPacket
  <2>2. sent[c] + 1 \in 1..MaxSend
    BY <1>2, ServerAssumption DEF SendPacket, TypeOK
  <2>3. sent' \in [Conns -> 0..MaxSend]
    BY <1>2, <2>2 DEF SendPacket, TypeOK
  <2>4. [kind |-> k, chan |-> c, n |-> sent[c] + 1] \in Packet
    BY <2>2 DEF Packet
  <2>5. inbox' \in [Conns -> Seq(Packet)]
    BY <2>1, <2>4 DEF TypeOK
  <2> QED
    BY <1>2, <2>3, <2>5, SMTT(60) DEF SendPacket, TypeOK, loopVars, ioVars
<1>3. CASE HangUp(c)
  BY <1>3, SMTT(60) DEF HangUp, TypeOK, loopVars, ioVars
<1>4. CASE FallQuiet(c)
  BY <1>4, SMTT(60) DEF FallQuiet, TypeOK, loopVars, ioVars, peerVars
<1> QED BY <1>1, <1>2, <1>3, <1>4 DEF Peer

LEMMA IOOnType ==
  ASSUME TypeOK, NEW c \in Conns, IOOn(c), UNCHANGED blocking
  PROVE TypeOK'
<1>1. CASE Accept(c)
  <2>1. PICK u \in FreeFds : /\ uid' = [uid EXCEPT ![c] = u]
                             /\ sock' = [sock EXCEPT ![c] = u]
                             /\ channels' = [channels EXCEPT ![u] = c]
    BY <1>1 DEF Accept
  <2>2. u \in Fds
    BY DEF FreeFds
  <2>3. /\ channels' \in [Fds -> Conns \cup {None}]
        /\ uid' \in [Conns -> Fds \cup {NoFd}]
        /\ sock' \in [Conns -> Fds \cup {NoFd}]
    BY <2>1, <2>2 DEF TypeOK
  <2> QED BY <1>1, <2>3, SMTT(60) DEF Accept, TypeOK, ioVars, peerVars
<1>2. CASE Read(c)
  <2>1. jobs' \in Seq(Job)
    BY <1>2, PacketIsJob DEF Read, TypeOK
  <2> QED BY <1>2, <2>1, SMTT(60) DEF Read, TypeOK, loopVars, ioVars
<1>6. CASE ReadBlocks(c)
  <2>1. c # None
    BY ServerAssumption
  <2> QED BY <1>6, <2>1, SMTT(60) DEF ReadBlocks, TypeOK, loopVars, peerVars
<1>3. CASE ReadEnd(c)
  <2>1. /\ inbox' \in [Conns -> Seq(Packet)]
        /\ quiet' \subseteq Conns
    BY <1>3 DEF ReadEnd, TypeOK
  <2>2. WaitFor(c, {}) /\ UNCHANGED <<loopVars, signalled, wbuf, task, peer,
                                     sent, delivered, crashed>>
    BY <1>3 DEF ReadEnd
  <2>3. /\ ioAt' \in {"poll", "tasks", "idle", "wait", "read"}
        /\ ioChan' \in Conns \cup {None}
        /\ (ioChan' = None) <=> (ioAt' \notin {"wait", "read"})
        /\ ioTodo' \subseteq Fds
        /\ answered' \in BOOLEAN
        /\ jobs' \in Seq(Job)
    BY <2>2, WaitForType
  <2> QED BY <2>1, <2>2, <2>3, SMTT(60) DEF TypeOK, loopVars
<1>4. CASE Write(c)
  <2>1. CASE Found(c)
    <3>1. PICK k \in 0..Len(wbuf[c]) :
            /\ Flush(c, k)
            /\ IF k < Len(wbuf[c])
               THEN Removed(c)
               ELSE signalled' = signalled \ {c} /\ UNCHANGED <<channels, sock>>
      BY <1>4, <2>1 DEF Write
    <3>2. SubSeq(wbuf[c], 1, k) \in Seq(Packet)
      BY DEF TypeOK
    <3>3. wbuf' \in [Conns -> Seq(Packet)] /\ delivered' \in [Conns -> Seq(Packet)]
      BY <3>1, <3>2 DEF TypeOK, Flush
    <3>4. /\ channels' \in [Fds -> Conns \cup {None}]
          /\ sock' \in [Conns -> Fds \cup {NoFd}]
          /\ signalled' \subseteq Conns
      BY <3>1, RemovedType DEF TypeOK
    <3>5. UNCHANGED <<uid, quiet, loopq, ioAt, ioChan, ioTodo, answered, jobs,
                      task, peer, sent, inbox, crashed>>
      BY <1>4 DEF Write, ioVars, peerVars
    <3> QED BY <3>3, <3>4, <3>5, SMTT(60) DEF TypeOK
  <2>2. CASE ~Found(c)
    BY <1>4, <2>2, SMTT(60) DEF Write, TypeOK, ioVars, peerVars
  <2> QED BY <2>1, <2>2
<1>5. CASE BrokenPipe(c)
  BY <1>5, SMTT(60) DEF BrokenPipe, TypeOK, loopVars, ioVars, peerVars
<1> QED BY <1>1, <1>2, <1>3, <1>4, <1>5, <1>6 DEF IOOn

LEMMA IOLoopType ==
  ASSUME TypeOK, IOLoop, UNCHANGED blocking
  PROVE TypeOK'
<1>1. CASE RunPosted
  <2>1. Head(loopq) \in Conns /\ Tail(loopq) \in Seq(Conns)
    BY <1>1 DEF RunPosted, TypeOK
  <2>2. /\ channels' \in [Fds -> Conns \cup {None}]
        /\ sock' \in [Conns -> Fds \cup {NoFd}]
        /\ signalled' \subseteq Conns
    BY <1>1, <2>1, RemovedType DEF RunPosted
  <2>3. /\ loopq' \in Seq(Conns)
        /\ ioAt' = "tasks" /\ ioAt \notin {"wait", "read"}
    BY <1>1, <2>1 DEF RunPosted
  <2> QED BY <1>1, <2>2, <2>3, SMTT(60) DEF RunPosted, TypeOK, peerVars
<1>2. CASE PostedDone
  BY <1>2, SMTT(60) DEF PostedDone, TypeOK, loopVars, peerVars
<1>3. CASE IdleStart
  BY <1>3, SMTT(60) DEF IdleStart, TypeOK, loopVars, peerVars
<1>4. CASE IdleTimeout
  <2>1. PICK u \in Fds : /\ Lowest(u, Expired(ioTodo))
                         /\ WaitFor(channels[u], {v \in ioTodo : u < v})
    BY <1>4 DEF IdleTimeout
  <2>2. channels[u] \in Conns
    BY <2>1 DEF Lowest, Expired, TypeOK
  <2>3. {v \in ioTodo : u < v} \in SUBSET Fds
    BY DEF TypeOK
  <2>4. /\ ioAt' \in {"poll", "tasks", "idle", "wait", "read"}
        /\ ioChan' \in Conns \cup {None}
        /\ (ioChan' = None) <=> (ioAt' \notin {"wait", "read"})
        /\ ioTodo' \subseteq Fds
        /\ answered' \in BOOLEAN
        /\ jobs' \in Seq(Job)
    BY <2>1, <2>2, <2>3, WaitForType
  <2> QED BY <1>4, <2>4, SMTT(60) DEF IdleTimeout, TypeOK, loopVars, peerVars
<1>5. CASE IdleDone
  BY <1>5, SMTT(60) DEF IdleDone, TypeOK, loopVars, peerVars
<1>6. CASE Resume
  <2>1. ioChan \in Conns
    BY <1>6 DEF Resume, TypeOK
  <2>2. /\ channels' \in [Fds -> Conns \cup {None}]
        /\ sock' \in [Conns -> Fds \cup {NoFd}]
        /\ signalled' \subseteq Conns
    BY <1>6, <2>1, RemovedType DEF Resume
  <2>3. /\ ioAt' \in {"poll", "tasks", "idle", "wait", "read"}
        /\ ioChan' \in Conns \cup {None}
        /\ (ioChan' = None) <=> (ioAt' \notin {"wait", "read"})
        /\ answered' \in BOOLEAN
    BY <1>6 DEF Resume
  <2>4. UNCHANGED <<uid, wbuf, quiet, loopq, ioTodo, jobs, task, peerVars,
                    delivered, crashed>>
    BY <1>6 DEF Resume
  <2> QED BY <2>2, <2>3, <2>4, SMTT(60) DEF TypeOK, peerVars
<1> QED BY <1>1, <1>2, <1>3, <1>4, <1>5, <1>6 DEF IOLoop

LEMMA HandleType ==
  ASSUME TypeOK, NEW h \in Handlers, Handle(h), UNCHANGED blocking
  PROVE TypeOK'
<1>1. CASE Start(h)
  <2>1. Head(jobs) \in Job /\ Tail(jobs) \in Seq(Job)
    BY <1>1 DEF Start, TypeOK
  <2>2. task' \in [Handlers -> TaskType]
    BY <1>1, <2>1, TurnType DEF Start
  <2> QED BY <1>1, <2>1, <2>2, SMTT(60) DEF Start, TypeOK, loopVars, ioVars, peerVars
<1>2. CASE RunFarewell(h)
  <2>1. task' \in [Handlers -> TaskType]
    BY <1>2, RestType DEF RunFarewell
  <2> QED BY <1>2, <2>1, SMTT(60) DEF RunFarewell, TypeOK, loopVars, ioVars, peerVars
<1>3. CASE RunCall(h)
  <2>1. task[h].job \in Packet
    BY <1>3, TaskOf, CallIsPacket DEF RunCall
  <2>2. task' \in [Handlers -> TaskType]
    BY <1>3, <2>1, PacketIsJob, TurnType, RestType DEF RunCall
  <2> QED BY <1>3, <2>2, SMTT(60) DEF RunCall, TypeOK, loopVars, ioVars, peerVars
<1>4. CASE Reply(h)
  <2>1. task[h].job \in Packet /\ task[h].job.chan \in Conns
    BY <1>4, TaskOf DEF Reply, Packet
  <2>2. task' \in [Handlers -> TaskType]
    BY <1>4, RestType DEF Reply
  <2>3. wbuf' \in [Conns -> Seq(Packet)]
    BY <1>4, <2>1 DEF Reply, TypeOK
  <2>4. signalled' \subseteq Conns /\ crashed' \in BOOLEAN
    BY <1>4, <2>1 DEF Reply, TypeOK
  <2> QED BY <1>4, <2>2, <2>3, <2>4, SMTT(60) DEF Reply, TypeOK, loopVars, ioVars, peerVars
<1>5. CASE RunBye(h)
  <2>1. task[h].job \in Packet /\ task[h].job.chan \in Conns
    BY <1>5, TaskOf, CallIsPacket DEF RunBye, Packet
  <2>2. task' \in [Handlers -> TaskType]
    BY <1>5, RestType DEF RunBye
  <2>3. loopq' \in Seq(Conns)
    BY <1>5, <2>1 DEF RunBye, TypeOK
  <2> QED BY <1>5, <2>2, <2>3, SMTT(60) DEF RunBye, TypeOK, ioVars, peerVars
<1> QED BY <1>1, <1>2, <1>3, <1>4, <1>5 DEF Handle

LEMMA NextType == TypeOK /\ [Next]_vars => TypeOK'
<1> SUFFICES ASSUME TypeOK, [Next]_vars PROVE TypeOK'
  OBVIOUS
<1>1. CASE UNCHANGED vars
  BY <1>1 DEF vars, TypeOK
<1>2. CASE Next
  BY <1>2, PeerType, IOOnType, IOLoopType, HandleType DEF Next, Running
<1> QED BY <1>1, <1>2

(* Every variable has its type, in every reachable state of every instance *)
(* of the loop.                                                            *)
THEOREM TypeCorrect == Spec => []TypeOK
<1>1. Init => TypeOK
  BY Initial
<1> QED BY <1>1, NextType, PTL DEF Spec
-----------------------------------------------------------------------------
MapInv == MapHoldsOpen /\ OwnSocket

(* Closing a channel and erasing what is filed under its uid leaves every  *)
(* other entry and every other socket as they were.                        *)
LEMMA RemovedMap ==
  ASSUME TypeOK, MapInv, NEW c \in Conns, Removed(c), UNCHANGED uid
  PROVE MapInv'
<1>1. /\ \A d \in Conns : sock'[d] = IF d = c THEN NoFd ELSE sock[d]
      /\ \A u \in Fds : channels'[u] = IF u = uid[c] THEN None ELSE channels[u]
      /\ signalled' = signalled \ {c}
  BY DEF TypeOK, Removed, Close
<1>2. MapHoldsOpen'
  <2> SUFFICES ASSUME NEW u \in Fds, channels'[u] # None
               PROVE sock'[channels'[u]] = u /\ uid'[channels'[u]] = u
    BY DEF MapHoldsOpen
  <2>1. u # uid[c] /\ channels'[u] = channels[u]
    BY <1>1
  <2>2. channels[u] \in Conns /\ sock[channels[u]] = u /\ uid[channels[u]] = u
    BY <2>1 DEF MapInv, MapHoldsOpen, TypeOK
  <2> QED BY <1>1, <2>1, <2>2
<1>3. OwnSocket'
  BY <1>1 DEF MapInv, OwnSocket, Open, TypeOK
<1> QED BY <1>2, <1>3 DEF MapInv

(* The map, the sockets and the pending signals are all MapInv speaks of.  *)
LEMMA MapUntouched ==
  ASSUME MapInv, UNCHANGED <<channels, uid, sock>>, signalled' \subseteq signalled
  PROVE MapInv'
BY DEF MapInv, MapHoldsOpen, OwnSocket, Open

(* A new connection gets a descriptor no open channel has.                 *)
LEMMA AcceptMap ==
  ASSUME TypeOK, MapInv, NEW c \in Conns, Accept(c)
  PROVE MapInv'
<1>1. PICK u \in FreeFds : /\ uid' = [uid EXCEPT ![c] = u]
                           /\ sock' = [sock EXCEPT ![c] = u]
                           /\ channels' = [channels EXCEPT ![u] = c]
  BY DEF Accept
<1>2. u \in Fds /\ u # NoFd /\ \A d \in Conns : sock[d] # u
  BY ServerAssumption DEF FreeFds
<1>3. uid[c] = NoFd
  BY DEF Accept, Backlog
<1>4. MapHoldsOpen'
  <2> SUFFICES ASSUME NEW v \in Fds, channels'[v] # None
               PROVE sock'[channels'[v]] = v /\ uid'[channels'[v]] = v
    BY DEF MapHoldsOpen
  <2>1. CASE v = u
    BY <1>1, <2>1 DEF TypeOK
  <2>2. CASE v # u
    <3>1. channels'[v] = channels[v] /\ channels[v] \in Conns
      BY <1>1, <2>2 DEF TypeOK
    <3>2. sock[channels[v]] = v /\ uid[channels[v]] = v
      BY <3>1 DEF MapInv, MapHoldsOpen
    <3>3. channels[v] # c
      BY <1>3, <3>2, ServerAssumption
    <3> QED BY <1>1, <3>1, <3>2, <3>3 DEF TypeOK
  <2> QED BY <2>1, <2>2
<1>5. OwnSocket'
  <2>1. \A d \in Conns : sock'[d] = IF d = c THEN u ELSE sock[d]
    BY <1>1 DEF TypeOK
  <2>2. signalled' = signalled /\ signalled \subseteq Conns
    BY DEF Accept, TypeOK
  <2> QED BY <1>2, <2>1, <2>2 DEF MapInv, OwnSocket, Open
<1> QED BY <1>4, <1>5 DEF MapInv

LEMMA IOMap ==
  ASSUME TypeOK, MapInv, NEW c \in Conns, IOOn(c)
  PROVE MapInv'
<1>1. CASE Accept(c)
  BY <1>1, AcceptMap
<1>2. CASE Read(c)
  BY <1>2, MapUntouched DEF Read, loopVars
<1>6. CASE ReadBlocks(c)
  BY <1>6, MapUntouched DEF ReadBlocks, loopVars
<1>3. CASE ReadEnd(c)
  BY <1>3, MapUntouched DEF ReadEnd, loopVars
<1>4. CASE Write(c)
  <2>1. CASE Removed(c)
    BY <1>4, <2>1, RemovedMap DEF Write
  <2>2. CASE ~Removed(c)
    <3>1. UNCHANGED <<channels, uid, sock>> /\ signalled' = signalled \ {c}
      BY <1>4, <2>2 DEF Write
    <3> QED BY <3>1, MapUntouched
  <2> QED BY <2>1, <2>2
<1>5. CASE BrokenPipe(c)
  BY <1>5, MapUntouched DEF BrokenPipe, loopVars
<1> QED BY <1>1, <1>2, <1>3, <1>4, <1>5, <1>6 DEF IOOn

LEMMA LoopMap ==
  ASSUME TypeOK, MapInv, IOLoop
  PROVE MapInv'
<1>1. CASE RunPosted
  <2>1. Head(loopq) \in Conns
    BY <1>1 DEF RunPosted, TypeOK
  <2> QED BY <1>1, <2>1, RemovedMap DEF RunPosted
<1>2. CASE PostedDone
  BY <1>2, MapUntouched DEF PostedDone, loopVars
<1>3. CASE IdleStart
  BY <1>3, MapUntouched DEF IdleStart, loopVars
<1>4. CASE IdleTimeout
  BY <1>4, MapUntouched DEF IdleTimeout, loopVars
<1>5. CASE IdleDone
  BY <1>5, MapUntouched DEF IdleDone, loopVars
<1>6. CASE Resume
  <2>1. ioChan \in Conns
    BY <1>6 DEF Resume, TypeOK
  <2> QED BY <1>6, <2>1, RemovedMap DEF Resume
<1> QED BY <1>1, <1>2, <1>3, <1>4, <1>5, <1>6 DEF IOLoop

LEMMA HandleMap ==
  ASSUME TypeOK, MapInv, NEW h \in Handlers, Handle(h)
  PROVE MapInv'
<1>1. CASE Reply(h)
  <2>1. task[h].job.chan \in Conns
    BY <1>1, TaskOf DEF Reply, Packet
  <2>2. UNCHANGED <<channels, uid, sock>>
    BY <1>1 DEF Reply, loopVars
  <2>3. \A d \in signalled' : d \in signalled \/ Open(d)
    BY <1>1 DEF Reply
  <2> QED BY <2>2, <2>3 DEF MapInv, MapHoldsOpen, OwnSocket, Open
<1>2. CASE ~Reply(h)
  <2>1. UNCHANGED <<channels, uid, sock, signalled>>
    BY <1>2 DEF Handle, Start, RunFarewell, RunCall, RunBye, loopVars
  <2> QED BY <2>1, MapUntouched
<1> QED BY <1>1, <1>2

LEMMA NextMap == TypeOK /\ MapInv /\ [Next]_vars => MapInv'
<1> SUFFICES ASSUME TypeOK, MapInv, [Next]_vars PROVE MapInv'
  OBVIOUS
<1>1. CASE UNCHANGED vars
  BY <1>1, MapUntouched DEF vars
<1>2. ASSUME NEW c \in Conns, Peer(c) PROVE MapInv'
  BY <1>2, MapUntouched DEF Peer, Connect, SendPacket, HangUp, FallQuiet, loopVars
<1>3. CASE Next
  BY <1>2, <1>3, IOMap, LoopMap, HandleMap DEF Next, Running
<1> QED BY <1>1, <1>3

(* A channel found in the map by its uid always owns the descriptor it is  *)
(* filed under, for any number of connections, descriptors and handlers.   *)
THEOREM AlwaysMapHoldsOpen == Spec => []MapHoldsOpen
<1>1. Init => TypeOK /\ MapInv
  BY Initial DEF MapInv
<1>2. TypeOK /\ MapInv /\ [Next]_vars => (TypeOK /\ MapInv)'
  BY NextType, NextMap
<1>3. MapInv => MapHoldsOpen
  BY DEF MapInv
<1> QED BY <1>1, <1>2, <1>3, PTL DEF Spec

(* No two channels share a descriptor and no closed one is signalled.      *)
THEOREM AlwaysOwnSocket == Spec => []OwnSocket
<1>1. Init => TypeOK /\ MapInv
  BY Initial DEF MapInv
<1>2. TypeOK /\ MapInv /\ [Next]_vars => (TypeOK /\ MapInv)'
  BY NextType, NextMap
<1>3. MapInv => OwnSocket
  BY DEF MapInv
<1> QED BY <1>1, <1>2, <1>3, PTL DEF Spec

-----------------------------------------------------------------------------
(* What an open channel's descriptor, the map and the waiting IO thread    *)
(* have to do with each other.                                             *)
OwnUid == \A c \in Conns : Open(c) => sock[c] = uid[c]

WaitedListed ==
  ioAt \in {"wait", "read"} => uid[ioChan] \in Fds /\ channels[uid[ioChan]] = ioChan

FiledInv == TypeOK /\ MapInv /\ OwnUid /\ WaitedListed

(* Why a step may close a channel and erase its uid from the map. *)
Cause(c) ==
  \/ Write(c) /\ Found(c) /\ c \in signalled
  \/ RunPosted /\ loopq # <<>> /\ c = Head(loopq)
  \/ Resume /\ ioAt = "wait" /\ c = ioChan

(* All that a step does to the map and the sockets. *)
LEMMA MapSteps ==
  ASSUME TypeOK, Next
  PROVE  \/ UNCHANGED <<channels, uid, sock>>
         \/ \E c \in Conns : Accept(c)
         \/ \E c \in Conns : Removed(c) /\ UNCHANGED uid /\ Cause(c)
<1>1. ASSUME NEW c \in Conns, Peer(c) PROVE UNCHANGED <<channels, uid, sock>>
  BY <1>1 DEF Peer, Connect, SendPacket, HangUp, FallQuiet, loopVars
<1>2. ASSUME NEW c \in Conns, IOOn(c)
      PROVE  \/ UNCHANGED <<channels, uid, sock>> \/ Accept(c)
             \/ Removed(c) /\ UNCHANGED uid /\ Cause(c)
  <2>1. CASE Write(c)
    <3>1. c \in signalled /\ UNCHANGED uid
      BY <2>1 DEF Write
    <3>2. UNCHANGED <<channels, sock>> \/ (Found(c) /\ Removed(c))
      BY <2>1 DEF Write
    <3> QED BY <2>1, <3>1, <3>2 DEF Cause
  <2>2. CASE ~Write(c) /\ ~Accept(c)
    BY <1>2, <2>2 DEF IOOn, Read, ReadBlocks, ReadEnd, BrokenPipe, loopVars
  <2> QED BY <2>1, <2>2
<1>3. ASSUME IOLoop
      PROVE  \/ UNCHANGED <<channels, uid, sock>>
             \/ \E c \in Conns : Removed(c) /\ UNCHANGED uid /\ Cause(c)
  <2>1. CASE RunPosted
    <3>1. Head(loopq) \in Conns
      BY <2>1 DEF RunPosted, TypeOK
    <3> QED BY <2>1, <3>1 DEF RunPosted, Cause
  <2>2. CASE Resume
    <3>1. ioChan \in Conns
      BY <2>2 DEF Resume, TypeOK
    <3> QED BY <2>2, <3>1 DEF Resume, Cause
  <2>3. CASE ~RunPosted /\ ~Resume
    BY <1>3, <2>3 DEF IOLoop, PostedDone, IdleStart, IdleTimeout, IdleDone, loopVars
  <2> QED BY <2>1, <2>2, <2>3
<1>4. ASSUME NEW h \in Handlers, Handle(h) PROVE UNCHANGED <<channels, uid, sock>>
  BY <1>4 DEF Handle, Start, RunFarewell, RunCall, Reply, RunBye, loopVars
<1> QED BY <1>1, <1>2, <1>3, <1>4 DEF Next, Running

(* What accepting a connection does, element by element. *)
LEMMA AcceptSteps ==
  ASSUME TypeOK, NEW c \in Conns, Accept(c)
  PROVE  \E u \in Fds :
           /\ u # NoFd /\ uid[c] = NoFd /\ \A d \in Conns : sock[d] # u
           /\ \A d \in Conns : uid'[d] = IF d = c THEN u ELSE uid[d]
           /\ \A d \in Conns : sock'[d] = IF d = c THEN u ELSE sock[d]
           /\ \A v \in Fds : channels'[v] = IF v = u THEN c ELSE channels[v]
<1>1. PICK u \in FreeFds : /\ uid' = [uid EXCEPT ![c] = u]
                           /\ sock' = [sock EXCEPT ![c] = u]
                           /\ channels' = [channels EXCEPT ![u] = c]
  BY DEF Accept
<1>2. u \in Fds /\ u # NoFd /\ \A d \in Conns : sock[d] # u
  BY ServerAssumption DEF FreeFds
<1>3. uid[c] = NoFd
  BY DEF Accept, Backlog
<1> QED BY <1>1, <1>2, <1>3 DEF TypeOK

(* What closing a channel and erasing its uid does, element by element. *)
LEMMA RemovedSteps ==
  ASSUME TypeOK, NEW c \in Conns, Removed(c)
  PROVE  /\ \A d \in Conns : sock'[d] = IF d = c THEN NoFd ELSE sock[d]
         /\ \A u \in Fds : channels'[u] = IF u = uid[c] THEN None ELSE channels[u]
         /\ signalled' = signalled \ {c}
BY DEF TypeOK, Removed, Close

LEMMA NextOwnUid == FiledInv /\ [Next]_vars => OwnUid'
<1> SUFFICES ASSUME FiledInv, [Next]_vars PROVE OwnUid'
  OBVIOUS
<1>1. CASE UNCHANGED <<channels, uid, sock>>
  BY <1>1 DEF FiledInv, OwnUid, Open
<1>2. ASSUME NEW c \in Conns, Accept(c) PROVE OwnUid'
  BY <1>2, AcceptSteps DEF FiledInv, OwnUid, Open
<1>3. ASSUME NEW c \in Conns, Removed(c), UNCHANGED uid PROVE OwnUid'
  BY <1>3, RemovedSteps DEF FiledInv, OwnUid, Open
<1> QED BY <1>1, <1>2, <1>3, MapSteps DEF FiledInv, vars

(* The IO thread waits for a channel that is in the map, and nobody else   *)
(* takes it out.                                                           *)
LEMMA NextWaitedListed == FiledInv /\ [Next]_vars => WaitedListed'
<1> SUFFICES ASSUME FiledInv, [Next]_vars PROVE WaitedListed'
  OBVIOUS
<1>1. CASE UNCHANGED <<channels, uid, ioAt, ioChan>>
  BY <1>1 DEF FiledInv, WaitedListed
<1>2. ASSUME NEW c \in Conns, Peer(c) PROVE WaitedListed'
  BY <1>1, <1>2
     DEF Peer, Connect, SendPacket, HangUp, FallQuiet, loopVars, ioVars
<1>3. ASSUME NEW c \in Conns, IOOn(c) PROVE WaitedListed'
  <2>1. CASE ReadEnd(c)
    <3>1. ioChan' = c /\ UNCHANGED <<channels, uid>>
      BY <2>1 DEF ReadEnd, WaitFor, loopVars
    <3>2. CASE Found(c) /\ Open(c)
      <4>1. uid[c] \in Fds
        BY <3>2 DEF FiledInv, TypeOK, OwnUid, Open
      <4> QED BY <3>1, <3>2, <4>1 DEF WaitedListed, Found
    <3>3. CASE ioAt = "read" /\ ioChan = c
      BY <3>1, <3>3 DEF FiledInv, WaitedListed
    <3> QED BY <2>1, <3>2, <3>3 DEF ReadEnd, Readable
  <2>3. CASE ReadBlocks(c)
    <3>1. ioChan' = c /\ UNCHANGED <<channels, uid>> /\ Found(c) /\ Open(c)
      BY <2>3 DEF ReadBlocks, loopVars, Readable
    <3>2. uid[c] \in Fds
      BY <3>1 DEF FiledInv, TypeOK, OwnUid, Open
    <3> QED BY <3>1, <3>2 DEF WaitedListed, Found
  <2>2. CASE ~ReadEnd(c) /\ ~ReadBlocks(c)
    <3>1. ioAt' \notin {"wait", "read"}
      BY <1>3, <2>2 DEF IOOn, Accept, Read, Write, BrokenPipe, ioVars
    <3> QED BY <3>1 DEF WaitedListed
  <2> QED BY <2>1, <2>2, <2>3
<1>4. ASSUME IOLoop PROVE WaitedListed'
  <2>1. CASE IdleTimeout
    <3>1. PICK u \in Fds : /\ Lowest(u, Expired(ioTodo))
                           /\ WaitFor(channels[u], {v \in ioTodo : u < v})
      BY <2>1 DEF IdleTimeout
    <3>2. channels[u] # None /\ ioChan' = channels[u] /\ UNCHANGED <<channels, uid>>
      BY <2>1, <3>1 DEF Lowest, Expired, WaitFor, IdleTimeout, loopVars
    <3>3. uid[channels[u]] = u
      BY <3>2 DEF FiledInv, MapInv, MapHoldsOpen
    <3> QED BY <3>2, <3>3 DEF WaitedListed
  <2>2. CASE ~IdleTimeout
    <3>1. ioAt' \notin {"wait", "read"}
      BY <1>4, <2>2 DEF IOLoop, RunPosted, PostedDone, IdleStart, IdleDone, Resume
    <3> QED BY <3>1 DEF WaitedListed
  <2> QED BY <2>1, <2>2
<1>5. ASSUME NEW h \in Handlers, Handle(h) PROVE WaitedListed'
  BY <1>1, <1>5 DEF Handle, Start, RunFarewell, RunCall, Reply, RunBye, loopVars, ioVars
<1> QED BY <1>1, <1>2, <1>3, <1>4, <1>5 DEF Next, Running, vars

LEMMA AlwaysFiled == Spec => []FiledInv
<1>1. Init => FiledInv
  BY Initial DEF Init, FiledInv, MapInv, OwnUid, WaitedListed, Open
<1>2. FiledInv /\ [Next]_vars => FiledInv'
  BY NextType, NextMap, NextOwnUid, NextWaitedListed DEF FiledInv
<1> QED BY <1>1, <1>2, PTL DEF Spec

(* A channel is found under its uid, if it is listed at all. *)
LEMMA ListedFound ==
  ASSUME FiledInv, NEW c \in Conns, Listed(c)
  PROVE  Open(c) /\ Found(c) /\ uid[c] \in Fds
<1>1. PICK u \in Fds : channels[u] = c
  BY DEF Listed
<1>2. c # None /\ u # NoFd
  BY ServerAssumption
<1> QED BY <1>1, <1>2 DEF FiledInv, MapInv, MapHoldsOpen, Open, Found

(* Erasing a uid costs an open channel its entry only if it is filed under *)
(* the uid of another one.                                                 *)
LEMMA LostNeedsTwin ==
  ASSUME FiledInv, NEW c \in Conns, Removed(c), UNCHANGED uid,
         NEW d \in Conns, Listed(d), Open(d)', ~Listed(d)'
  PROVE  d # c /\ uid[d] = uid[c] /\ Found(d)
<1>1. uid[d] \in Fds /\ channels[uid[d]] = d
  BY ListedFound DEF Found
<1>2. d # c
  BY RemovedSteps DEF FiledInv, Open
<1>3. uid[d] = uid[c]
  BY <1>1, RemovedSteps DEF FiledInv, Listed
<1> QED BY <1>1, <1>2, <1>3 DEF Found

LEMMA NextLost == FiledInv /\ LostToTwin /\ [Next]_vars => LostToTwin'
<1> SUFFICES ASSUME FiledInv, LostToTwin, [Next]_vars, NEW d \in Conns,
                    Open(d)', ~Listed(d)'
             PROVE  \E e \in Conns \ {d} : uid'[e] = uid'[d]
  BY DEF LostToTwin
<1>1. CASE UNCHANGED <<channels, uid, sock>>
  BY <1>1 DEF LostToTwin, Open, Listed
<1>2. ASSUME NEW c \in Conns, Accept(c)
      PROVE  \E e \in Conns \ {d} : uid'[e] = uid'[d]
  <2>1. PICK u \in Fds :
          /\ u # NoFd /\ uid[c] = NoFd /\ \A e \in Conns : sock[e] # u
          /\ \A e \in Conns : uid'[e] = IF e = c THEN u ELSE uid[e]
          /\ \A e \in Conns : sock'[e] = IF e = c THEN u ELSE sock[e]
          /\ \A v \in Fds : channels'[v] = IF v = u THEN c ELSE channels[v]
    BY <1>2, AcceptSteps DEF FiledInv
  <2>2. d # c
    BY <2>1 DEF Listed
  <2>3. Open(d) /\ uid[d] # NoFd
    BY <2>1, <2>2 DEF FiledInv, OwnUid, Open
  <2>4. ~Listed(d)
    <3>1. d # None
      BY ServerAssumption
    <3>2. ASSUME NEW v \in Fds, channels[v] = d PROVE FALSE
      <4>1. sock[d] = v
        BY <3>1, <3>2 DEF FiledInv, MapInv, MapHoldsOpen
      <4>2. v # u /\ channels'[v] = d
        BY <2>1, <3>2, <4>1
      <4> QED BY <4>2 DEF Listed
    <3> QED BY <3>2 DEF Listed
  <2>5. PICK e \in Conns \ {d} : uid[e] = uid[d]
    BY <2>3, <2>4 DEF LostToTwin
  <2>6. e # c
    BY <2>1, <2>3, <2>5
  <2> QED BY <2>1, <2>2, <2>5, <2>6
<1>3. ASSUME NEW c \in Conns, Removed(c), UNCHANGED uid
      PROVE  \E e \in Conns \ {d} : uid'[e] = uid'[d]
  <2>1. CASE Listed(d)
    BY <1>3, <2>1, LostNeedsTwin
  <2>2. CASE ~Listed(d)
    <3>1. Open(d)
      BY <1>3, RemovedSteps DEF FiledInv, Open
    <3> QED BY <1>3, <2>2, <3>1 DEF LostToTwin
  <2> QED BY <2>1, <2>2
<1> QED BY <1>1, <1>2, <1>3, MapSteps DEF FiledInv, vars

(* The map and the sockets stay one to one, and an open channel that fell  *)
(* out of the map has a twin: for any connections, descriptors and         *)
(* handlers, and every order of accept, close and removal.                 *)
THEOREM AlwaysChannelsSound == Spec => []ChannelsSound
<1>1. Init => LostToTwin
  BY DEF Init, LostToTwin, Open
<1>2. FiledInv /\ LostToTwin => ChannelsSound
  BY DEF FiledInv, MapInv, ChannelsSound
<1> QED BY <1>1, <1>2, AlwaysFiled, NextLost, PTL DEF Spec

(* Only a posted removal takes an open channel out of the map.             *)
LEMMA OnlyPosted ==
  ASSUME FiledInv, [Next]_vars, NEW d \in Conns, Listed(d), Open(d)', ~Listed(d)'
  PROVE  RunPosted
<1>1. CASE UNCHANGED <<channels, uid, sock>>
  BY <1>1 DEF Listed
<1>2. ASSUME NEW c \in Conns, Accept(c) PROVE FALSE
  <2>1. PICK u \in Fds : /\ \A e \in Conns : sock[e] # u
                         /\ \A v \in Fds : channels'[v] = IF v = u THEN c ELSE channels[v]
    BY <1>2, AcceptSteps DEF FiledInv
  <2>2. PICK v \in Fds : channels[v] = d
    BY DEF Listed
  <2>3. sock[d] = v
    BY <2>2, ServerAssumption DEF FiledInv, MapInv, MapHoldsOpen
  <2> QED BY <2>1, <2>2, <2>3 DEF Listed
<1>3. ASSUME NEW c \in Conns, Removed(c), UNCHANGED uid, Cause(c) PROVE RunPosted
  <2>1. d # c /\ uid[d] = uid[c] /\ Found(d)
    BY <1>3, LostNeedsTwin
  <2>2. ~Found(c)
    BY <2>1 DEF Found
  <2>3. ioAt = "wait" => ioChan # c
    BY <2>2 DEF FiledInv, WaitedListed, Found
  <2> QED BY <1>3, <2>2, <2>3 DEF Cause
<1> QED BY <1>1, <1>2, <1>3, MapSteps DEF FiledInv, vars

(* The map loses an open channel to a posted removal and to nothing else:  *)
(* neither to a hang-up, nor to a timeout, nor to a short write.           *)
THEOREM AlwaysOnlyPostedUnlists == Spec => OnlyPostedUnlists
<1>1. FiledInv /\ [Next]_vars =>
        [\A c \in Conns : Listed(c) /\ Open(c)' => Listed(c)' \/ RunPosted]_vars
  BY OnlyPosted
<1> QED BY <1>1, AlwaysFiled, PTL DEF Spec, OnlyPostedUnlists
-----------------------------------------------------------------------------
(* Handlers that close nothing post nothing. *)
LEMMA NothingPosted ==
  ASSUME "bye" \notin Kinds
  PROVE  TypeOK /\ loopq = <<>> /\ [Next]_vars => (loopq = <<>>)'
<1> SUFFICES ASSUME TypeOK, loopq = <<>>, [Next]_vars PROVE loopq' = <<>>
  OBVIOUS
<1>1. ASSUME NEW h \in Handlers PROVE ~RunBye(h)
  <2>1. task[h].phase = "run" => task[h].job.kind # "bye"
    BY TaskOf, FarewellType DEF Job, Packet, Farewell
  <2> QED BY <2>1 DEF RunBye
<1>2. ASSUME NEW c \in Conns, Peer(c) PROVE loopq' = loopq
  BY <1>2 DEF Peer, Connect, SendPacket, HangUp, FallQuiet, loopVars
<1>3. ASSUME NEW c \in Conns, IOOn(c) PROVE loopq' = loopq
  BY <1>3 DEF IOOn, Accept, Read, ReadBlocks, ReadEnd, Write, BrokenPipe, loopVars
<1>4. ASSUME IOLoop PROVE loopq' = loopq
  BY <1>4 DEF IOLoop, RunPosted, PostedDone, IdleStart, IdleTimeout, IdleDone,
              Resume, loopVars
<1>5. ASSUME NEW h \in Handlers, Handle(h) PROVE loopq' = loopq
  BY <1>1, <1>5 DEF Handle, Start, RunFarewell, RunCall, Reply, loopVars
<1> QED BY <1>2, <1>3, <1>4, <1>5 DEF Next, Running, vars

(* EventLoop.h is right about a service whose handlers never close their   *)
(* connections: every open channel is in the map, though descriptors are   *)
(* used again and hang-ups, timeouts and short writes close channels.      *)
THEOREM ListedWithoutBye ==
  ASSUME "bye" \notin Kinds
  PROVE  Spec => []OpenIsListed
<1> DEFINE I == loopq = <<>> /\ OpenIsListed
<1>1. Init => I
  BY DEF Init, OpenIsListed, Open
<1>2. FiledInv /\ I /\ [Next]_vars => I'
  <2> SUFFICES ASSUME FiledInv, loopq = <<>>, OpenIsListed, [Next]_vars
               PROVE  (loopq = <<>>)' /\ OpenIsListed'
    OBVIOUS
  <2>1. (loopq = <<>>)'
    BY NothingPosted DEF FiledInv
  <2>2. ASSUME NEW d \in Conns, Open(d)' PROVE Listed(d)'
    <3>1. CASE Open(d)
      <4>1. ~RunPosted
        BY DEF RunPosted
      <4> QED BY <2>2, <3>1, <4>1, OnlyPosted DEF OpenIsListed
    <3>2. CASE ~Open(d)
      <4>1. ASSUME NEW c \in Conns, Accept(c) PROVE Listed(d)'
        BY <2>2, <3>2, <4>1, AcceptSteps DEF FiledInv, Open, Listed
      <4>2. ASSUME NEW c \in Conns, Removed(c) PROVE FALSE
        BY <2>2, <3>2, <4>2, RemovedSteps DEF FiledInv, Open
      <4> QED BY <2>2, <3>2, <4>1, <4>2, MapSteps DEF FiledInv, vars, Open
    <3> QED BY <3>1, <3>2
  <2> QED BY <2>1, <2>2 DEF OpenIsListed
<1>3. I => OpenIsListed
  OBVIOUS
<1> QED BY <1>1, <1>2, <1>3, AlwaysFiled, PTL DEF Spec
-----------------------------------------------------------------------------
(* WaitHasJob for a fixed channel: where its farewell job can be.          *)
Expected(c) ==
  \/ answered
  \/ \E i \in DOMAIN jobs : jobs[i] = Farewell(c)
  \/ \E h \in Handlers : task[h].phase = "run" /\ task[h].job = Farewell(c)

(* The job is queued before the IO thread waits.                           *)
LEMMA WaitForExpects ==
  ASSUME TypeOK, NEW c \in Conns, NEW todo, WaitFor(c, todo)
  PROVE WaitHasJob'
<1>1. jobs' = Append(jobs, Farewell(c)) /\ ioChan' = c
  BY DEF WaitFor
<1>2. Len(jobs) + 1 \in DOMAIN jobs' /\ jobs'[Len(jobs) + 1] = Farewell(c)
  BY <1>1 DEF TypeOK
<1>3. Farewell(c)' = Farewell(c)
  BY DEF Farewell
<1> QED BY <1>1, <1>2, <1>3 DEF WaitHasJob, Farewell

(* A step outside the handlers, or none: jobs and tasks stay.              *)
LEMMA WaitUntouched ==
  ASSUME WaitHasJob, UNCHANGED <<ioAt, ioChan, answered, jobs, task>>
  PROVE WaitHasJob'
BY DEF WaitHasJob, Farewell

(* The head of the queue moves into a handler, nothing else moves.         *)
LEMMA StartExpects ==
  ASSUME TypeOK, NEW h \in Handlers, Start(h), NEW c \in Conns, Expected(c)
  PROVE Expected(c)'
<1>1. /\ DOMAIN jobs = 1..Len(jobs) /\ Len(jobs) \in Nat /\ Len(jobs) >= 1
      /\ DOMAIN jobs' = 1..(Len(jobs) - 1)
      /\ \A i \in 1..(Len(jobs) - 1) : jobs'[i] = jobs[i + 1]
      /\ Head(jobs) = jobs[1]
  BY DEF Start, TypeOK
<1>2. /\ \A g \in Handlers : g # h => task'[g] = task[g]
      /\ task'[h] = [phase |-> "run", job |-> jobs[1]]
      /\ task[h].phase = "idle"
      /\ answered' = answered
  BY <1>1 DEF Start, Turn, TypeOK
<1> DEFINE F == Farewell(c)
<1>3. CASE answered
  BY <1>2, <1>3 DEF Expected
<1>4. ASSUME NEW i \in DOMAIN jobs, jobs[i] = F PROVE Expected(c)'
  <2> HIDE DEF F
  <2>1. CASE i = 1
    <3>1. task'[h].phase = "run" /\ task'[h].job = F
      BY <1>2, <1>4, <2>1
    <3> QED BY <3>1 DEF Expected, F, Farewell
  <2>2. CASE i # 1
    <3>1. i - 1 \in DOMAIN jobs' /\ jobs'[i - 1] = F
      BY <1>1, <1>4, <2>2
    <3> QED BY <3>1 DEF Expected, F, Farewell
  <2> QED BY <2>1, <2>2
<1>5. ASSUME NEW g \in Handlers, task[g].phase = "run", task[g].job = F
      PROVE Expected(c)'
  BY <1>2, <1>5 DEF Expected, Farewell
<1> QED BY <1>3, <1>4, <1>5 DEF Expected

(* A handler that does something else than a farewell does not lose one.   *)
LEMMA OtherExpects ==
  ASSUME TypeOK, NEW h \in Handlers, NEW c \in Conns, Expected(c),
         RunCall(h) \/ Reply(h) \/ RunBye(h)
  PROVE Expected(c)'
<1>1. task[h].job = Farewell(c) => task[h].phase # "run"
  <2>1. Farewell(c).kind = "close" /\ Farewell(c) \notin Packet
    BY FarewellType
  <2> QED BY <2>1, TaskOf DEF RunCall, Reply, RunBye
<1>2. \A g \in Handlers : g # h => task'[g] = task[g]
  BY DEF RunCall, Reply, RunBye, Turn, Rest, TypeOK
<1>3. UNCHANGED <<answered, jobs>>
  BY DEF RunCall, Reply, RunBye
<1> QED BY <1>1, <1>2, <1>3 DEF Expected, Farewell

LEMMA NextWait == TypeOK /\ WaitHasJob /\ [Next]_vars => WaitHasJob'
<1> SUFFICES ASSUME TypeOK, WaitHasJob, [Next]_vars PROVE WaitHasJob'
  OBVIOUS
<1>1. CASE UNCHANGED vars
  BY <1>1, WaitUntouched DEF vars
<1>2. ASSUME NEW c \in Conns, Peer(c) PROVE WaitHasJob'
  BY <1>2, WaitUntouched
     DEF Peer, Connect, SendPacket, HangUp, FallQuiet, ioVars
<1>3. ASSUME NEW c \in Conns, IOOn(c) PROVE WaitHasJob'
  <2>1. CASE ReadEnd(c)
    BY <2>1, WaitForExpects DEF ReadEnd
  <2>2. CASE ~ReadEnd(c)
    <3>1. ioAt' # "wait"
      BY <1>3, <2>2 DEF IOOn, Accept, Read, ReadBlocks, Write, BrokenPipe, ioVars
    <3> QED BY <3>1 DEF WaitHasJob
  <2> QED BY <2>1, <2>2
<1>4. ASSUME IOLoop PROVE WaitHasJob'
  <2>1. CASE IdleTimeout
    <3>1. PICK u \in Fds : /\ Lowest(u, Expired(ioTodo))
                           /\ WaitFor(channels[u], {v \in ioTodo : u < v})
      BY <2>1 DEF IdleTimeout
    <3>2. channels[u] \in Conns
      BY <3>1 DEF Lowest, Expired, TypeOK
    <3> QED BY <3>1, <3>2, WaitForExpects
  <2>2. CASE ~IdleTimeout
    <3>1. ioAt' # "wait"
      BY <1>4, <2>2 DEF IOLoop, RunPosted, PostedDone, IdleStart, IdleDone, Resume
    <3> QED BY <3>1 DEF WaitHasJob
  <2> QED BY <2>1, <2>2
<1>5. ASSUME NEW h \in Handlers, Handle(h) PROVE WaitHasJob'
  <2>1. CASE RunFarewell(h)
    BY <2>1 DEF RunFarewell, WaitHasJob
  <2>2. CASE ~RunFarewell(h)
    <3> SUFFICES ASSUME ioAt' = "wait" PROVE Expected(ioChan)'
      BY DEF WaitHasJob, Expected
    <3>1. UNCHANGED <<ioAt, ioChan>>
      BY <1>5, <2>2 DEF Handle, Start, RunCall, Reply, RunBye, ioVars
    <3>2. ioChan \in Conns
      BY <3>1 DEF TypeOK
    <3> DEFINE c == ioChan
    <3>3. Expected(ioChan)
      BY <3>1 DEF WaitHasJob, Expected
    <3>4. \A d \in Conns : Expected(d) => Expected(d)'
      BY <1>5, <2>2, StartExpects, OtherExpects DEF Handle
    <3> QED BY <3>1, <3>2, <3>3, <3>4 DEF Expected, Farewell
  <2> QED BY <2>1, <2>2
<1> QED BY <1>1, <1>2, <1>3, <1>4, <1>5 DEF Next, Running

(* While the IO thread waits for a handler there is a job whose end will   *)
(* release it, whatever the connections and the other handlers do.         *)
THEOREM AlwaysWaitHasJob == Spec => []WaitHasJob
<1>1. Init => TypeOK /\ WaitHasJob
  BY Initial
<1>2. TypeOK /\ WaitHasJob /\ [Next]_vars => (TypeOK /\ WaitHasJob)'
  BY NextType, NextWait
<1> QED BY <1>1, <1>2, PTL DEF Spec
-----------------------------------------------------------------------------
(* RepliesMatch.  A packet is known by its connection and its number, and  *)
(* is in one place at a time: received and unread, queued, with a handler, *)
(* or as a reply.  A farewell has the number 0, which no packet has.       *)
Once(q) ==
  \A i, k \in DOMAIN q :
    q[i].chan = q[k].chan /\ q[i].n = q[k].n /\ q[i].n # 0 => i = k

Own(q, c) == \A i \in DOMAIN q : q[i].chan = c
Calls(q) == \A i \in DOMAIN q : q[i].kind = "call"

Kept ==
  /\ \A c \in Conns : Own(inbox[c], c) /\ Own(Replies(c), c) /\ Calls(Replies(c))
  /\ \A h \in Handlers : task[h].phase = "reply" => task[h].job.kind = "call"

Spot(c, n) ==
  /\ \/ Holds(inbox[c], c, n) \/ Holds(jobs, c, n) \/ Holds(Replies(c), c, n)
     \/ \E h \in Handlers : Busy(h, c, n)
     => n <= sent[c]
  /\ ~(Holds(inbox[c], c, n) /\ Holds(jobs, c, n))
  /\ ~(Holds(inbox[c], c, n) /\ Holds(Replies(c), c, n))
  /\ ~(Holds(jobs, c, n) /\ Holds(Replies(c), c, n))
  /\ \A h \in Handlers : Busy(h, c, n) =>
       /\ ~Holds(inbox[c], c, n) /\ ~Holds(jobs, c, n) /\ ~Holds(Replies(c), c, n)
       /\ \A g \in Handlers : Busy(g, c, n) => g = h

Placed ==
  /\ Kept
  /\ Once(jobs)
  /\ \A c \in Conns : Once(inbox[c]) /\ Once(Replies(c))
  /\ \A c \in Conns, n \in 1..MaxSend : Spot(c, n)

(* Sequences of packets. *)
LEMMA AfterAppend ==
  ASSUME NEW S, NEW q \in Seq(S), NEW x \in S
  PROVE  /\ \A c, n : Holds(Append(q, x), c, n)
                        <=> Holds(q, c, n) \/ (x.chan = c /\ x.n = n)
         /\ Once(q) /\ (x.n = 0 \/ ~Holds(q, x.chan, x.n)) => Once(Append(q, x))
         /\ \A c : Own(q, c) /\ x.chan = c => Own(Append(q, x), c)
         /\ Calls(q) /\ x.kind = "call" => Calls(Append(q, x))
<1>1. /\ DOMAIN q = 1 .. Len(q) /\ Len(q) \in Nat
      /\ DOMAIN Append(q, x) = 1 .. Len(q) + 1
      /\ \A i \in 1 .. Len(q) : Append(q, x)[i] = q[i]
      /\ Append(q, x)[Len(q) + 1] = x
  OBVIOUS
<1>2. \A c, n : Holds(Append(q, x), c, n)
                  <=> Holds(q, c, n) \/ (x.chan = c /\ x.n = n)
  BY <1>1 DEF Holds
<1>3. Once(q) /\ (x.n = 0 \/ ~Holds(q, x.chan, x.n)) => Once(Append(q, x))
  BY <1>1 DEF Holds, Once
<1>4. \A c : Own(q, c) /\ x.chan = c => Own(Append(q, x), c)
  BY <1>1 DEF Own
<1>5. Calls(q) /\ x.kind = "call" => Calls(Append(q, x))
  BY <1>1 DEF Calls
<1> QED BY <1>2, <1>3, <1>4, <1>5

LEMMA AfterTail ==
  ASSUME NEW S, NEW q \in Seq(S), q # <<>>
  PROVE  /\ \A c, n : Holds(Tail(q), c, n) => Holds(q, c, n)
         /\ Holds(q, Head(q).chan, Head(q).n)
         /\ Once(q) => Once(Tail(q))
         /\ Once(q) /\ Head(q).n # 0 => ~Holds(Tail(q), Head(q).chan, Head(q).n)
<1>1. /\ DOMAIN q = 1 .. Len(q) /\ Len(q) \in Nat /\ Len(q) >= 1
      /\ DOMAIN Tail(q) = 1 .. Len(q) - 1
      /\ \A i \in 1 .. Len(q) - 1 : Tail(q)[i] = q[i + 1]
      /\ Head(q) = q[1]
  OBVIOUS
<1>2. \A i \in 1 .. Len(q) - 1 : i + 1 \in 1 .. Len(q) /\ i + 1 # 1
  BY <1>1
<1>3. \A c, n : Holds(Tail(q), c, n) => Holds(q, c, n)
  BY <1>1, <1>2 DEF Holds
<1>4. Holds(q, Head(q).chan, Head(q).n)
  BY <1>1 DEF Holds
<1>5. Once(q) => Once(Tail(q))
  BY <1>1, <1>2 DEF Once
<1>6. Once(q) /\ Head(q).n # 0 => ~Holds(Tail(q), Head(q).chan, Head(q).n)
  BY <1>1, <1>2 DEF Once, Holds
<1> QED BY <1>3, <1>4, <1>5, <1>6

LEMMA AfterConcat ==
  ASSUME NEW S, NEW q \in Seq(S), NEW r \in Seq(S)
  PROVE  /\ \A c, n : Holds(q \o r, c, n) <=> Holds(q, c, n) \/ Holds(r, c, n)
         /\ Once(q) /\ Once(r)
              /\ (\A c, n : Holds(q, c, n) /\ Holds(r, c, n) => n = 0)
            => Once(q \o r)
<1>1. /\ DOMAIN q = 1 .. Len(q) /\ Len(q) \in Nat
      /\ DOMAIN r = 1 .. Len(r) /\ Len(r) \in Nat
      /\ DOMAIN (q \o r) = 1 .. Len(q) + Len(r)
      /\ \A i \in 1 .. Len(q) : (q \o r)[i] = q[i]
      /\ \A i \in 1 .. Len(q) + Len(r) : i > Len(q) => (q \o r)[i] = r[i - Len(q)]
  OBVIOUS
<1>2. \A i \in 1 .. Len(q) + Len(r) : i > Len(q) => i - Len(q) \in 1 .. Len(r)
  BY <1>1
<1>3. \A k \in 1 .. Len(r) : /\ Len(q) + k \in 1 .. Len(q) + Len(r)
                             /\ (q \o r)[Len(q) + k] = r[k]
  <2> TAKE k \in 1 .. Len(r)
  <2>1. /\ Len(q) + k \in 1 .. Len(q) + Len(r) /\ Len(q) + k > Len(q)
        /\ (Len(q) + k) - Len(q) = k
    BY <1>1
  <2>2. (q \o r)[Len(q) + k] = r[(Len(q) + k) - Len(q)]
    BY <1>1, <2>1
  <2> QED BY <2>1, <2>2
<1> DEFINE qr == q \o r
<1> HIDE DEF qr
<1>4. \A c, n : Holds(qr, c, n) => Holds(q, c, n) \/ Holds(r, c, n)
  BY <1>1, <1>2 DEF Holds, qr
<1>5. \A c, n : Holds(q, c, n) => Holds(qr, c, n)
  BY <1>1 DEF Holds, qr
<1>6. \A c, n : Holds(r, c, n) => Holds(qr, c, n)
  BY <1>1, <1>3 DEF Holds, qr
<1>7. ASSUME Once(q), Once(r), \A c, n : Holds(q, c, n) /\ Holds(r, c, n) => n = 0
      PROVE  Once(qr)
  <2> SUFFICES ASSUME NEW i \in DOMAIN qr, NEW k \in DOMAIN qr,
                      qr[i].chan = qr[k].chan, qr[i].n = qr[k].n, qr[i].n # 0
               PROVE  i = k
    BY DEF Once
  <2>1. i \in 1 .. Len(q) + Len(r) /\ k \in 1 .. Len(q) + Len(r)
    BY <1>1 DEF qr
  <2>2. CASE i <= Len(q) /\ k <= Len(q)
    <3>1. i \in DOMAIN q /\ k \in DOMAIN q /\ qr[i] = q[i] /\ qr[k] = q[k]
      BY <1>1, <2>1, <2>2 DEF qr
    <3> QED BY <1>7, <3>1 DEF Once
  <2>3. CASE i > Len(q) /\ k > Len(q)
    <3>1. /\ i - Len(q) \in DOMAIN r /\ k - Len(q) \in DOMAIN r
          /\ qr[i] = r[i - Len(q)] /\ qr[k] = r[k - Len(q)]
      BY <1>1, <1>2, <2>1, <2>3 DEF qr
    <3>2. i - Len(q) = k - Len(q)
      BY <1>7, <3>1 DEF Once
    <3> QED BY <1>1, <2>1, <3>2
  <2>4. CASE i <= Len(q) /\ k > Len(q)
    <3>1. i \in DOMAIN q /\ qr[i] = q[i]
      BY <1>1, <2>1, <2>4 DEF qr
    <3>2. k - Len(q) \in DOMAIN r /\ qr[k] = r[k - Len(q)]
      BY <1>1, <1>2, <2>1, <2>4 DEF qr
    <3>3. Holds(q, qr[i].chan, qr[i].n) /\ Holds(r, qr[i].chan, qr[i].n)
      BY <3>1, <3>2 DEF Holds
    <3> QED BY <1>7, <3>3
  <2>5. CASE i > Len(q) /\ k <= Len(q)
    <3>1. k \in DOMAIN q /\ qr[k] = q[k]
      BY <1>1, <2>1, <2>5 DEF qr
    <3>2. i - Len(q) \in DOMAIN r /\ qr[i] = r[i - Len(q)]
      BY <1>1, <1>2, <2>1, <2>5 DEF qr
    <3>3. Holds(q, qr[i].chan, qr[i].n) /\ Holds(r, qr[i].chan, qr[i].n)
      BY <3>1, <3>2 DEF Holds
    <3> QED BY <1>7, <3>3
  <2> QED BY <1>1, <2>1, <2>2, <2>3, <2>4, <2>5
<1> QED BY <1>4, <1>5, <1>6, <1>7 DEF qr

(* A sequence that begins like another. *)
LEMMA OfPrefix ==
  ASSUME NEW p, NEW q, DOMAIN p \subseteq DOMAIN q, \A i \in DOMAIN p : p[i] = q[i]
  PROVE  /\ \A c, n : Holds(p, c, n) => Holds(q, c, n)
         /\ Once(q) => Once(p)
         /\ \A c : Own(q, c) => Own(p, c)
         /\ Calls(q) => Calls(p)
BY DEF Holds, Once, Own, Calls

LEMMA OfNone ==
  /\ \A c, n : ~Holds(<<>>, c, n)
  /\ Once(<<>>) /\ (\A c : Own(<<>>, c)) /\ Calls(<<>>)
BY DEF Holds, Once, Own, Calls
-----------------------------------------------------------------------------
(* Each step moves packets from one place to the next, or drops them.      *)
LEMMA InitPlaced == Init => Placed
<1> SUFFICES ASSUME Init PROVE Placed
  OBVIOUS
<1>1. /\ \A c \in Conns : inbox[c] = <<>> /\ Replies(c) = <<>>
      /\ jobs = <<>> /\ \A h \in Handlers : task[h].phase = "idle"
  BY DEF Init, Replies, NoTask
<1> QED BY <1>1, OfNone DEF Placed, Kept, Spot, Busy

LEMMA PlacesSame ==
  ASSUME Placed, UNCHANGED <<sent, inbox, jobs, task, wbuf, delivered>>
  PROVE  Placed'
<1>1. \A c : Replies(c)' = Replies(c)
  BY DEF Replies
<1>2. \A h, c, n : Busy(h, c, n)' <=> Busy(h, c, n)
  BY DEF Busy
<1> QED BY <1>1, <1>2 DEF Placed, Kept, Spot

(* What is in an inbox is of its connection and numbered from 1. *)
LEMMA InboxOwn ==
  ASSUME TypeOK, Placed, NEW c \in Conns, NEW d, NEW n, Holds(inbox[c], d, n)
  PROVE  d = c /\ n \in 1..MaxSend
<1>1. PICK i \in DOMAIN inbox[c] : inbox[c][i].chan = d /\ inbox[c][i].n = n
  BY DEF Holds
<1>2. inbox[c][i] \in Packet
  BY DEF TypeOK
<1>3. inbox[c][i].chan = c
  BY DEF Placed, Kept, Own
<1> QED BY <1>1, <1>2, <1>3 DEF Packet

LEMMA SendPlaced ==
  ASSUME TypeOK, Placed, NEW c \in Conns, SendPacket(c)
  PROVE  Placed'
<1>1. PICK k \in Kinds :
        inbox' = [inbox EXCEPT ![c] =
                    Append(@, [kind |-> k, chan |-> c, n |-> sent[c] + 1])]
  BY DEF SendPacket
<1> DEFINE p == [kind |-> k, chan |-> c, n |-> sent[c] + 1]
<1>2. sent[c] \in Nat /\ sent[c] + 1 \in 1..MaxSend /\ sent[c] + 1 # sent[c]
      /\ ~(sent[c] + 1 <= sent[c])
  BY ServerAssumption DEF SendPacket, TypeOK
<1>3. p \in Packet /\ p.chan = c /\ p.n = sent[c] + 1 /\ inbox[c] \in Seq(Packet)
  BY <1>2 DEF Packet, TypeOK
<1>4. /\ \A d \in Conns : d # c => inbox'[d] = inbox[d] /\ sent'[d] = sent[d]
      /\ inbox'[c] = Append(inbox[c], p) /\ sent'[c] = sent[c] + 1
      /\ UNCHANGED <<jobs, task, wbuf, delivered>>
  BY <1>1 DEF SendPacket, TypeOK
<1> HIDE DEF p
<1>5. \A d \in Conns : Replies(d)' = Replies(d)
  BY <1>4 DEF Replies
<1>6. \A h, d, n : Busy(h, d, n)' <=> Busy(h, d, n)
  BY <1>4 DEF Busy
<1>7. Spot(c, sent[c] + 1)
  BY <1>2 DEF Placed
<1>8. /\ ~Holds(inbox[c], c, sent[c] + 1) /\ ~Holds(jobs, c, sent[c] + 1)
      /\ ~Holds(Replies(c), c, sent[c] + 1)
      /\ \A h \in Handlers : ~Busy(h, c, sent[c] + 1)
  BY <1>2, <1>7 DEF Spot
<1>9. /\ \A n : Holds(inbox'[c], c, n) <=> Holds(inbox[c], c, n) \/ n = sent[c] + 1
      /\ Once(inbox'[c]) /\ Own(inbox'[c], c)
  BY <1>3, <1>4, <1>8, AfterAppend DEF Placed, Kept
<1>10. \A d \in Conns, n \in 1..MaxSend : Spot(d, n)'
  <2> SUFFICES ASSUME NEW d \in Conns, NEW n \in 1..MaxSend PROVE Spot(d, n)'
    OBVIOUS
  <2>1. Spot(d, n)
    BY DEF Placed
  <2>2. CASE d # c
    BY <1>4, <1>5, <1>6, <2>1, <2>2 DEF Spot
  <2>3. CASE d = c /\ n # sent[c] + 1
    <3>1. n <= sent[c] => n <= sent[c] + 1
      BY <1>2
    <3> QED BY <1>4, <1>5, <1>6, <1>9, <2>1, <2>3, <3>1 DEF Spot
  <2>4. CASE d = c /\ n = sent[c] + 1
    BY <1>2, <1>4, <1>5, <1>6, <1>8, <2>4 DEF Spot
  <2> QED BY <2>2, <2>3, <2>4
<1>11. Kept'
  BY <1>4, <1>5, <1>9 DEF Placed, Kept
<1> QED BY <1>4, <1>5, <1>9, <1>10, <1>11 DEF Placed

LEMMA ReadPlaced ==
  ASSUME TypeOK, Placed, NEW c \in Conns, Read(c)
  PROVE  Placed'
<1>1. /\ \A d \in Conns : d # c => inbox'[d] = inbox[d]
      /\ inbox'[c] = <<>> /\ jobs' = jobs \o inbox[c]
      /\ UNCHANGED <<sent, task, wbuf, delivered>>
      /\ jobs \in Seq(Job) /\ inbox[c] \in Seq(Job)
  BY PacketIsJob DEF Read, TypeOK
<1>2. \A d \in Conns : Replies(d)' = Replies(d)
  BY <1>1 DEF Replies
<1>3. \A h, d, n : Busy(h, d, n)' <=> Busy(h, d, n)
  BY <1>1 DEF Busy
<1>4. \A d, n : Holds(jobs', d, n) <=> Holds(jobs, d, n) \/ Holds(inbox[c], d, n)
  BY <1>1, AfterConcat
<1>5. Once(jobs')
  <2>1. ASSUME NEW d, NEW n, Holds(jobs, d, n), Holds(inbox[c], d, n) PROVE n = 0
    <3>1. d = c /\ n \in 1..MaxSend
      BY <2>1, InboxOwn
    <3> QED BY <2>1, <3>1 DEF Placed, Spot
  <2> QED BY <1>1, <2>1, AfterConcat DEF Placed
<1>6. \A d \in Conns, n \in 1..MaxSend : Spot(d, n)'
  <2> SUFFICES ASSUME NEW d \in Conns, NEW n \in 1..MaxSend PROVE Spot(d, n)'
    OBVIOUS
  <2>1. Spot(d, n)
    BY DEF Placed
  <2>2. CASE d # c
    <3>1. ~Holds(inbox[c], d, n)
      BY <2>2, InboxOwn
    <3> QED BY <1>1, <1>2, <1>3, <1>4, <2>1, <2>2, <3>1 DEF Spot
  <2>3. CASE d = c
    BY <1>1, <1>2, <1>3, <1>4, <2>1, <2>3, OfNone DEF Spot
  <2> QED BY <2>2, <2>3
<1>7. \A d \in Conns : Once(inbox'[d]) /\ Own(inbox'[d], d)
  BY <1>1, OfNone DEF Placed, Kept
<1> QED BY <1>1, <1>2, <1>5, <1>6, <1>7 DEF Placed, Kept

(* A farewell joins the queue, and what an inbox had may be forgotten.     *)
LEMMA WaitForPlaced ==
  ASSUME TypeOK, Placed, NEW c \in Conns, jobs' = Append(jobs, Farewell(c)),
         \A d \in Conns : inbox'[d] \in {inbox[d], <<>>},
         UNCHANGED <<sent, task, wbuf, delivered>>
  PROVE  Placed'
<1>1. Farewell(c) \in Job /\ Farewell(c).n = 0 /\ jobs \in Seq(Job)
  BY FarewellType DEF TypeOK, Farewell
<1>2. \A d \in Conns : Replies(d)' = Replies(d)
  BY DEF Replies
<1>3. \A h, d, n : Busy(h, d, n)' <=> Busy(h, d, n)
  BY DEF Busy
<1>4. /\ Once(jobs')
      /\ \A d : \A n \in 1..MaxSend : Holds(jobs', d, n) => Holds(jobs, d, n)
  BY <1>1, AfterAppend DEF Placed
<1>5. \A d \in Conns : /\ Once(inbox'[d]) /\ Own(inbox'[d], d)
                       /\ \A n : Holds(inbox'[d], d, n) => Holds(inbox[d], d, n)
  BY OfNone DEF Placed, Kept
<1>6. \A d \in Conns, n \in 1..MaxSend : Spot(d, n)'
  <2> SUFFICES ASSUME NEW d \in Conns, NEW n \in 1..MaxSend PROVE Spot(d, n)'
    OBVIOUS
  <2>1. Spot(d, n) /\ sent' = sent
    BY DEF Placed
  <2>2. /\ Holds(jobs', d, n) => Holds(jobs, d, n)
        /\ Holds(inbox'[d], d, n) => Holds(inbox[d], d, n)
    BY <1>4, <1>5
  <2> QED BY <1>2, <1>3, <2>1, <2>2 DEF Spot
<1> QED BY <1>2, <1>4, <1>5, <1>6 DEF Placed, Kept

(* What has gone out is a beginning of what was buffered. *)
LEMMA WritePlaced ==
  ASSUME TypeOK, Placed, NEW c \in Conns, Write(c)
  PROVE  Placed'
<1>1. UNCHANGED <<sent, inbox, jobs, task>>
  BY DEF Write, peerVars
<1>2. CASE ~Found(c)
  BY <1>1, <1>2, PlacesSame DEF Write
<1>3. CASE Found(c)
  <2>1. PICK k \in 0..Len(wbuf[c]) : Flush(c, k)
    BY <1>3 DEF Write
  <2>2. /\ wbuf'[c] = <<>>
        /\ \/ delivered'[c] = delivered[c]
           \/ delivered'[c] = delivered[c] \o SubSeq(wbuf[c], 1, k)
        /\ \A d \in Conns : d # c => wbuf'[d] = wbuf[d] /\ delivered'[d] = delivered[d]
        /\ delivered[c] \in Seq(Packet) /\ wbuf[c] \in Seq(Packet)
    BY <2>1 DEF Flush, TypeOK
  <2>3. /\ DOMAIN (Replies(c)') \subseteq DOMAIN Replies(c)
        /\ \A i \in DOMAIN (Replies(c)') : Replies(c)'[i] = Replies(c)[i]
    <3> DEFINE a == delivered[c]
               b == wbuf[c]
    <3>1. CASE delivered'[c] = a
      <4>1. Replies(c)' = a \o <<>>
        BY <2>2, <3>1 DEF Replies
      <4>2. a \o <<>> = a
        BY <2>2
      <4>3. a \in Seq(Packet) /\ b \in Seq(Packet)
        BY <2>2
      <4> HIDE DEF a, b
      <4>4. /\ DOMAIN a \subseteq DOMAIN (a \o b)
            /\ \A i \in DOMAIN a : a[i] = (a \o b)[i]
        BY <4>3
      <4> QED BY <4>1, <4>2, <4>4 DEF Replies, a, b
    <3>2. CASE delivered'[c] = a \o SubSeq(b, 1, k)
      <4>1. Replies(c)' = (a \o SubSeq(b, 1, k)) \o <<>>
        BY <2>2, <3>2 DEF Replies
      <4>2. a \in Seq(Packet) /\ b \in Seq(Packet) /\ k \in 0..Len(b)
        BY <2>2
      <4> HIDE DEF a, b
      <4>3. SubSeq(b, 1, k) \in Seq(Packet) /\ Len(SubSeq(b, 1, k)) = k
            /\ \A i \in 1..k : SubSeq(b, 1, k)[i] = b[i]
        BY <4>2
      <4> DEFINE e == SubSeq(b, 1, k)
      <4>4. e \in Seq(Packet) /\ Len(e) = k /\ (\A i \in 1..k : e[i] = b[i])
        BY <4>3
      <4> HIDE DEF e
      <4>5. (a \o e) \o <<>> = a \o e
        BY <4>2, <4>4
      <4>6. /\ DOMAIN (a \o e) \subseteq DOMAIN (a \o b)
            /\ \A i \in DOMAIN (a \o e) : (a \o e)[i] = (a \o b)[i]
        <5>1. /\ DOMAIN (a \o e) = 1..Len(a) + k /\ DOMAIN (a \o b) = 1..Len(a) + Len(b)
              /\ Len(a) \in Nat /\ Len(b) \in Nat
          <6> DEFINE x == a \o e
                     y == a \o b
          <6>1. x \in Seq(Packet) /\ Len(x) = Len(a) + Len(e)
            BY <4>2, <4>4
          <6>2. y \in Seq(Packet) /\ Len(y) = Len(a) + Len(b)
            BY <4>2
          <6> HIDE DEF x, y
          <6>3. DOMAIN x = 1..Len(x) /\ DOMAIN y = 1..Len(y)
            BY <6>1, <6>2
          <6>4. Len(a) \in Nat /\ Len(b) \in Nat
            BY <4>2
          <6>5. DOMAIN x = 1..Len(a) + k /\ DOMAIN y = 1..Len(a) + Len(b)
            BY <4>4, <6>1, <6>2, <6>3
          <6> QED BY <6>4, <6>5 DEF x, y
        <5>2. SUFFICES ASSUME NEW i \in 1..Len(a) + k
                       PROVE  (a \o e)[i] = (a \o b)[i]
          BY <4>2, <5>1
        <5>3. CASE i <= Len(a)
          BY <4>2, <4>4, <5>1, <5>3
        <5>4. CASE i > Len(a)
          <6>1. i - Len(a) \in 1..k
            BY <4>2, <5>1, <5>4
          <6> QED BY <4>2, <4>4, <5>1, <5>4, <6>1
        <5> QED BY <4>2, <5>1, <5>3, <5>4
      <4> QED BY <4>1, <4>5, <4>6 DEF Replies, a, b, e
    <3> QED BY <2>2, <3>1, <3>2
  <2>4. \A d \in Conns : d # c => Replies(d)' = Replies(d)
    BY <2>2 DEF Replies
  <2>5. \A d \in Conns : /\ \A n : Holds(Replies(d)', d, n) => Holds(Replies(d), d, n)
                         /\ Once(Replies(d)') /\ Own(Replies(d)', d)
                         /\ Calls(Replies(d)')
    BY <2>3, <2>4, OfPrefix DEF Placed, Kept
  <2>6. \A h, d, n : Busy(h, d, n)' <=> Busy(h, d, n)
    BY <1>1 DEF Busy
  <2>7. \A d \in Conns, n \in 1..MaxSend : Spot(d, n)'
    BY <1>1, <2>5, <2>6 DEF Placed, Spot
  <2> QED BY <1>1, <2>5, <2>7 DEF Placed, Kept
<1> QED BY <1>2, <1>3

LEMMA StartPlaced ==
  ASSUME TypeOK, Placed, NEW h \in Handlers, Start(h)
  PROVE  Placed'
<1> DEFINE j == Head(jobs)
<1>1. /\ jobs # <<>> /\ jobs' = Tail(jobs) /\ task[h].phase = "idle"
      /\ task'[h] = [phase |-> "run", job |-> j]
      /\ \A g \in Handlers : g # h => task'[g] = task[g]
      /\ UNCHANGED <<sent, inbox, wbuf, delivered>>
      /\ jobs \in Seq(Job)
  BY DEF Start, Turn, TypeOK, peerVars
<1>2. /\ \A d, n : Holds(jobs', d, n) => Holds(jobs, d, n)
      /\ Holds(jobs, j.chan, j.n)
      /\ Once(jobs')
      /\ j.n # 0 => ~Holds(jobs', j.chan, j.n)
  BY <1>1, AfterTail DEF Placed
<1> HIDE DEF j
<1>3. \A d \in Conns : Replies(d)' = Replies(d)
  BY <1>1 DEF Replies
<1>4. /\ \A d, n : \A g \in Handlers : g # h => (Busy(g, d, n)' <=> Busy(g, d, n))
      /\ \A d, n : ~Busy(h, d, n)
      /\ \A d, n : Busy(h, d, n)' <=> j.chan = d /\ j.n = n
  BY <1>1 DEF Busy
<1>5. \A d \in Conns, n \in 1..MaxSend : Spot(d, n)'
  <2> SUFFICES ASSUME NEW d \in Conns, NEW n \in 1..MaxSend PROVE Spot(d, n)'
    OBVIOUS
  <2>1. Spot(d, n) /\ n # 0
    BY DEF Placed
  <2>2. CASE j.chan = d /\ j.n = n
    BY <1>1, <1>2, <1>3, <1>4, <2>1, <2>2 DEF Spot
  <2>3. CASE ~(j.chan = d /\ j.n = n)
    BY <1>1, <1>2, <1>3, <1>4, <2>1, <2>3 DEF Spot
  <2> QED BY <2>2, <2>3
<1>6. Kept'
  BY <1>1, <1>3 DEF Placed, Kept
<1> QED BY <1>1, <1>2, <1>3, <1>5, <1>6 DEF Placed

(* A handler goes on with its packet, or is done with it. *)
LEMMA TaskPlaced ==
  ASSUME Placed, NEW h \in Handlers, NEW t, task' = [task EXCEPT ![h] = t],
         task \in [Handlers -> TaskType],
         \/ t = NoTask
         \/ /\ task[h].phase # "idle" /\ t.job = task[h].job
            /\ t.phase = "reply" => t.job.kind = "call",
         UNCHANGED <<sent, inbox, jobs, wbuf, delivered>>
  PROVE  Placed'
<1>1. task'[h] = t /\ \A g \in Handlers : g # h => task'[g] = task[g]
  OBVIOUS
<1>2. \A c \in Conns : Replies(c)' = Replies(c)
  BY DEF Replies
<1>3. \A d, n : \A g \in Handlers : Busy(g, d, n)' => Busy(g, d, n)
  BY <1>1 DEF Busy, NoTask
<1>4. \A d \in Conns, n \in 1..MaxSend : Spot(d, n)'
  BY <1>2, <1>3 DEF Placed, Spot
<1>5. Kept'
  BY <1>1, <1>2 DEF Placed, Kept, NoTask
<1> QED BY <1>2, <1>4, <1>5 DEF Placed

(* A packet appended to the second of two sequences is appended to both.    *)
LEMMA ConcatAppend ==
  ASSUME NEW S, NEW a \in Seq(S), NEW b \in Seq(S), NEW x \in S
  PROVE  /\ a \o b \in Seq(S)
         /\ a \o Append(b, x) = Append(a \o b, x)
<1> DEFINE ab == a \o b
           bx == Append(b, x)
<1>1. /\ ab \in Seq(S) /\ Len(ab) = Len(a) + Len(b)
      /\ \A i \in 1 .. Len(a) + Len(b) :
           ab[i] = IF i <= Len(a) THEN a[i] ELSE b[i - Len(a)]
      /\ Len(a) \in Nat /\ Len(b) \in Nat
  OBVIOUS
<1>2. /\ bx \in Seq(S) /\ Len(bx) = Len(b) + 1
      /\ \A i \in 1 .. Len(b) : bx[i] = b[i]
      /\ bx[Len(b) + 1] = x
  OBVIOUS
<1> HIDE DEF ab, bx
<1>3. /\ a \o bx \in Seq(S) /\ Len(a \o bx) = Len(a) + Len(b) + 1
      /\ \A i \in 1 .. Len(a) + Len(b) + 1 :
           (a \o bx)[i] = IF i <= Len(a) THEN a[i] ELSE bx[i - Len(a)]
  <2>1. bx \in Seq(S) /\ Len(bx) = Len(b) + 1 /\ Len(a) \in Nat /\ Len(b) \in Nat
    BY <1>1, <1>2
  <2>2. /\ a \o bx \in Seq(S) /\ Len(a \o bx) = Len(a) + Len(bx)
        /\ \A i \in 1 .. Len(a) + Len(bx) :
             (a \o bx)[i] = IF i <= Len(a) THEN a[i] ELSE bx[i - Len(a)]
    BY <2>1
  <2>3. Len(a) + Len(bx) = Len(a) + Len(b) + 1
    BY <2>1
  <2> QED BY <2>2, <2>3
<1>4. /\ Append(ab, x) \in Seq(S) /\ Len(Append(ab, x)) = Len(a) + Len(b) + 1
      /\ \A i \in 1 .. Len(a) + Len(b) : Append(ab, x)[i] = ab[i]
      /\ Append(ab, x)[Len(a) + Len(b) + 1] = x
  BY <1>1
<1>5. ASSUME NEW i \in 1 .. Len(a) + Len(b) + 1
      PROVE  (a \o bx)[i] = Append(ab, x)[i]
  <2>1. CASE i <= Len(a)
    BY <1>1, <1>3, <1>4, <2>1
  <2>2. CASE i > Len(a) /\ i <= Len(a) + Len(b)
    <3>1. i - Len(a) \in 1 .. Len(b)
      BY <1>1, <2>2
    <3> QED BY SMTT(30), <1>1, <1>2, <1>3, <1>4, <2>2, <3>1
  <2>3. CASE i = Len(a) + Len(b) + 1
    <3>1. i - Len(a) = Len(b) + 1 /\ ~(i <= Len(a))
      BY <1>1, <2>3
    <3> QED BY <1>2, <1>3, <1>4, <2>3, <3>1
  <2>4. Len(a) \in Nat /\ Len(b) \in Nat
    OBVIOUS
  <2>5. i <= Len(a) \/ (i > Len(a) /\ i <= Len(a) + Len(b)) \/ i = Len(a) + Len(b) + 1
    BY <2>4
  <2> QED BY <2>1, <2>2, <2>3, <2>5
<1>6. a \o bx = Append(ab, x)
  <2>1. /\ DOMAIN (a \o bx) = 1 .. Len(a) + Len(b) + 1
        /\ DOMAIN Append(ab, x) = 1 .. Len(a) + Len(b) + 1
    BY <1>3, <1>4
  <2> QED BY SMTT(30), <1>3, <1>4, <1>5, <2>1
<1> QED BY <1>1, <1>6 DEF ab, bx

LEMMA ReplyPlaced ==
  ASSUME TypeOK, Placed, NEW h \in Handlers, Reply(h)
  PROVE  Placed'
<1>1. /\ task[h].job \in Packet /\ task[h].job.kind = "call"
      /\ task[h].job.chan \in Conns /\ task[h].job.n \in 1..MaxSend
  <2>1. task[h].job \in Packet
    BY TaskOf DEF Reply
  <2>2. task[h].job.kind = "call"
    BY DEF Reply, Placed, Kept
  <2> QED BY <2>1, <2>2 DEF Packet
<1>2. PICK j \in Packet, c \in Conns, m \in 1..MaxSend :
        j = task[h].job /\ c = j.chan /\ m = j.n /\ j.kind = "call"
  BY <1>1
<1>3. /\ task[h].phase = "reply" /\ task'[h] = NoTask
      /\ \A g \in Handlers : g # h => task'[g] = task[g]
      /\ wbuf'[c] = Append(wbuf[c], j)
      /\ \A d \in Conns : d # c => wbuf'[d] = wbuf[d]
      /\ UNCHANGED <<sent, inbox, jobs, delivered>>
  BY <1>2 DEF Reply, Rest, TypeOK, peerVars
<1>4. Replies(c) \in Seq(Packet) /\ Replies(c)' = Append(Replies(c), j)
  <2> DEFINE a == delivered[c]
             b == wbuf[c]
  <2>1. a \in Seq(Packet) /\ b \in Seq(Packet)
    BY DEF TypeOK
  <2>2. Replies(c) = a \o b /\ Replies(c)' = a \o Append(b, j)
    BY <1>3 DEF Replies
  <2> HIDE DEF a, b
  <2>3. a \o b \in Seq(Packet) /\ a \o Append(b, j) = Append(a \o b, j)
    BY <1>2, <2>1, ConcatAppend
  <2> QED BY <2>2, <2>3
<1>5. \A d \in Conns : d # c => Replies(d)' = Replies(d)
  BY <1>3 DEF Replies
<1>6. Spot(c, m) /\ Busy(h, c, m)
  BY <1>2, <1>3 DEF Placed, Busy
<1>7. /\ \A n : Holds(Replies(c)', c, n) <=> Holds(Replies(c), c, n) \/ n = m
      /\ Once(Replies(c)') /\ Own(Replies(c)', c) /\ Calls(Replies(c)')
  <2> DEFINE q == Replies(c)
  <2>1. /\ q \in Seq(Packet) /\ Once(q) /\ Own(q, c) /\ Calls(q)
    BY <1>4 DEF Placed, Kept
  <2>2. ~Holds(q, c, m)
    BY <1>2, <1>6 DEF Spot
  <2>3. j \in Packet /\ j.chan = c /\ j.n = m /\ j.kind = "call"
    BY <1>2
  <2> HIDE DEF q
  <2>4. /\ \A n : Holds(Append(q, j), c, n) <=> Holds(q, c, n) \/ n = m
        /\ Once(Append(q, j)) /\ Own(Append(q, j), c) /\ Calls(Append(q, j))
    BY <2>1, <2>2, <2>3, AfterAppend
  <2>5. Replies(c)' = Append(q, j)
    BY <1>4 DEF q
  <2> QED BY <2>4, <2>5 DEF q
<1>8. /\ \A d, n : \A g \in Handlers : g # h => (Busy(g, d, n)' <=> Busy(g, d, n))
      /\ \A d, n : ~Busy(h, d, n)'
  BY <1>3 DEF Busy, NoTask
<1>9. \A d \in Conns, n \in 1..MaxSend : Spot(d, n)'
  <2> SUFFICES ASSUME NEW d \in Conns, NEW n \in 1..MaxSend PROVE Spot(d, n)'
    OBVIOUS
  <2>1. Spot(d, n)
    BY DEF Placed
  <2>2. CASE d # c
    BY <1>3, <1>5, <1>8, <2>1, <2>2 DEF Spot
  <2>3. CASE d = c /\ n # m
    BY <1>3, <1>7, <1>8, <2>1, <2>3 DEF Spot
  <2>4. CASE d = c /\ n = m
    BY <1>3, <1>6, <1>7, <1>8, <2>4 DEF Spot
  <2> QED BY <2>2, <2>3, <2>4
<1>10. Kept'
  <2>1. \A d \in Conns : Own(inbox[d], d)' /\ Own(Replies(d), d)' /\ Calls(Replies(d))'
    BY <1>3, <1>5, <1>7 DEF Placed, Kept
  <2>2. \A g \in Handlers : task'[g].phase = "reply" => task'[g].job.kind = "call"
    BY <1>3 DEF Placed, Kept, NoTask
  <2> QED BY <2>1, <2>2 DEF Kept
<1> QED BY <1>3, <1>5, <1>7, <1>9, <1>10 DEF Placed

LEMMA NextPlaced == TypeOK /\ Placed /\ [Next]_vars => Placed'
<1> SUFFICES ASSUME TypeOK, Placed, [Next]_vars PROVE Placed'
  OBVIOUS
<1>1. CASE UNCHANGED vars
  BY <1>1, PlacesSame DEF vars
<1>2. ASSUME NEW c \in Conns, Peer(c) PROVE Placed'
  <2>1. CASE SendPacket(c)
    BY <2>1, SendPlaced
  <2>2. CASE ~SendPacket(c)
    BY <1>2, <2>2, PlacesSame DEF Peer, Connect, HangUp, FallQuiet, peerVars
  <2> QED BY <2>1, <2>2
<1>3. ASSUME NEW c \in Conns, IOOn(c) PROVE Placed'
  <2>1. CASE Accept(c) \/ ReadBlocks(c) \/ BrokenPipe(c)
    BY <2>1, PlacesSame DEF Accept, ReadBlocks, BrokenPipe, peerVars
  <2>2. CASE ReadEnd(c)
    <3>1. /\ jobs' = Append(jobs, Farewell(c))
          /\ \A d \in Conns : inbox'[d] \in {inbox[d], <<>>}
          /\ UNCHANGED <<sent, task, wbuf, delivered>>
      BY <2>2 DEF ReadEnd, WaitFor, TypeOK
    <3> QED BY <3>1, WaitForPlaced
  <2> QED BY <1>3, <2>1, <2>2, ReadPlaced, WritePlaced DEF IOOn
<1>4. ASSUME IOLoop PROVE Placed'
  <2>1. CASE IdleTimeout
    <3>1. PICK u \in Fds : /\ Lowest(u, Expired(ioTodo))
                           /\ WaitFor(channels[u], {v \in ioTodo : u < v})
      BY <2>1 DEF IdleTimeout
    <3>2. channels[u] \in Conns
      BY <3>1 DEF Lowest, Expired, TypeOK
    <3>3. /\ jobs' = Append(jobs, Farewell(channels[u]))
          /\ UNCHANGED <<sent, inbox, task, wbuf, delivered>>
      BY <2>1, <3>1 DEF IdleTimeout, WaitFor, peerVars
    <3> QED BY <3>2, <3>3, WaitForPlaced
  <2>2. CASE ~IdleTimeout
    BY <1>4, <2>2, PlacesSame
       DEF IOLoop, RunPosted, PostedDone, IdleStart, IdleDone, Resume, peerVars
  <2> QED BY <2>1, <2>2
<1>5. ASSUME NEW h \in Handlers, Handle(h) PROVE Placed'
  <2>1. CASE RunFarewell(h) \/ RunBye(h)
    BY <2>1, TaskPlaced DEF RunFarewell, RunBye, Rest, TypeOK, peerVars
  <2>2. CASE RunCall(h)
    BY <2>2, TaskPlaced DEF RunCall, Rest, Turn, TypeOK, peerVars
  <2> QED BY <1>5, <2>1, <2>2, StartPlaced, ReplyPlaced DEF Handle
<1> QED BY <1>1, <1>2, <1>3, <1>4, <1>5 DEF Next, Running

(* A peer's replies answer its own calls, each at most once, whichever     *)
(* handler ran when and whoever has its descriptor now.                    *)
THEOREM AlwaysRepliesMatch == Spec => []RepliesMatch
<1>1. TypeOK /\ Placed => RepliesMatch
  <2> SUFFICES ASSUME TypeOK, Placed, NEW c \in Conns
               PROVE  /\ \A i \in DOMAIN Replies(c) :
                           /\ Replies(c)[i].chan = c
                           /\ Replies(c)[i].kind = "call"
                           /\ Replies(c)[i].n <= sent[c]
                      /\ \A i, j \in DOMAIN Replies(c) :
                           Replies(c)[i].n = Replies(c)[j].n => i = j
    BY DEF RepliesMatch
  <2>1. Replies(c) \in Seq(Packet)
    BY DEF TypeOK, Replies
  <2>2. \A i \in DOMAIN Replies(c) :
          /\ Replies(c)[i].chan = c /\ Replies(c)[i].kind = "call"
          /\ Replies(c)[i].n \in 1..MaxSend /\ Replies(c)[i].n # 0
    <3> TAKE i \in DOMAIN Replies(c)
    <3>1. Replies(c)[i] \in Packet
      BY <2>1
    <3>2. Replies(c)[i].n \in 1..MaxSend /\ Replies(c)[i].n # 0
      BY <3>1, ServerAssumption DEF Packet
    <3>3. Replies(c)[i].chan = c /\ Replies(c)[i].kind = "call"
      BY DEF Placed, Kept, Own, Calls
    <3> QED BY <3>2, <3>3
  <2>3. \A i \in DOMAIN Replies(c) : Replies(c)[i].n <= sent[c]
    <3> TAKE i \in DOMAIN Replies(c)
    <3>1. Holds(Replies(c), c, Replies(c)[i].n)
      BY <2>2 DEF Holds
    <3> QED BY <2>2, <3>1 DEF Placed, Spot
  <2>4. Once(Replies(c))
    BY DEF Placed
  <2> QED BY <2>2, <2>3, <2>4 DEF Once
<1>2. Init => TypeOK /\ Placed
  BY Initial, InitPlaced
<1>3. TypeOK /\ Placed /\ [Next]_vars => (TypeOK /\ Placed)'
  BY NextType, NextPlaced
<1> QED BY <1>1, <1>2, <1>3, PTL DEF Spec
-----------------------------------------------------------------------------
(* Whoever has a job, or a removal posted, has been accepted once.         *)
Accepted ==
  /\ \A i \in DOMAIN jobs : uid[jobs[i].chan] # NoFd
  /\ \A h \in Handlers : task[h].phase # "idle" => uid[task[h].job.chan] # NoFd
  /\ \A i \in DOMAIN loopq : uid[loopq[i]] # NoFd

(* Nobody loses his uid again. *)
LEMMA UidStays ==
  ASSUME TypeOK, [Next]_vars, NEW c \in Conns, uid[c] # NoFd
  PROVE  uid'[c] # NoFd
<1>1. ASSUME NEW d \in Conns, Accept(d) PROVE uid'[c] # NoFd
  BY <1>1, AcceptSteps
<1> QED BY <1>1, MapSteps DEF vars

(* Jobs, tasks and posted removals are of connections. *)
LEMMA OfConns ==
  ASSUME TypeOK
  PROVE  /\ \A i \in DOMAIN jobs : jobs[i] \in Job /\ jobs[i].chan \in Conns
         /\ \A h \in Handlers : task[h].phase # "idle" =>
              task[h].job \in Job /\ task[h].job.chan \in Conns
         /\ \A i \in DOMAIN loopq : loopq[i] \in Conns
<1>1. \A j \in Job : j.chan \in Conns
  BY FarewellType DEF Job, Packet
<1>2. ASSUME NEW i \in DOMAIN jobs PROVE jobs[i] \in Job
  BY DEF TypeOK
<1>3. ASSUME NEW i \in DOMAIN loopq PROVE loopq[i] \in Conns
  BY DEF TypeOK
<1>4. ASSUME NEW h \in Handlers, task[h].phase # "idle" PROVE task[h].job \in Job
  <2>1. task[h] \in TaskType
    BY DEF TypeOK
  <2> QED BY <1>4, <2>1, PacketIsJob DEF TaskType, NoTask
<1> QED BY <1>1, <1>2, <1>3, <1>4

(* Where the elements of a queue come from. *)
LEMMA OfTail ==
  ASSUME NEW S, NEW q \in Seq(S), q # <<>>
  PROVE  /\ \A i \in DOMAIN Tail(q) : \E k \in DOMAIN q : Tail(q)[i] = q[k]
         /\ \E k \in DOMAIN q : Head(q) = q[k]
<1>1. /\ DOMAIN q = 1 .. Len(q) /\ Len(q) \in Nat /\ Len(q) >= 1
      /\ DOMAIN Tail(q) = 1 .. Len(q) - 1
      /\ \A i \in 1 .. Len(q) - 1 : Tail(q)[i] = q[i + 1]
      /\ Head(q) = q[1]
  OBVIOUS
<1>2. \A i \in 1 .. Len(q) - 1 : i + 1 \in 1 .. Len(q)
  BY <1>1
<1> QED BY <1>1, <1>2

LEMMA OfConcat ==
  ASSUME NEW q \in Seq(Job), NEW r \in Seq(Job)
  PROVE  \A i \in DOMAIN (q \o r) : \/ \E k \in DOMAIN q : (q \o r)[i] = q[k]
                                    \/ \E k \in DOMAIN r : (q \o r)[i] = r[k]
<1>1. /\ DOMAIN q = 1 .. Len(q) /\ Len(q) \in Nat
      /\ DOMAIN r = 1 .. Len(r) /\ Len(r) \in Nat
      /\ DOMAIN (q \o r) = 1 .. Len(q) + Len(r)
      /\ \A i \in 1 .. Len(q) : (q \o r)[i] = q[i]
      /\ \A i \in 1 .. Len(q) + Len(r) : i > Len(q) => (q \o r)[i] = r[i - Len(q)]
  OBVIOUS
<1>2. \A i \in 1 .. Len(q) + Len(r) : i > Len(q) => i - Len(q) \in 1 .. Len(r)
  BY <1>1
<1>3. \A i \in 1 .. Len(q) + Len(r) : i \in 1 .. Len(q) \/ i > Len(q)
  BY <1>1
<1> QED BY <1>1, <1>2, <1>3

(* A job for a connection in the map is queued, nothing else changes.      *)
LEMMA FarewellAccepted ==
  ASSUME TypeOK, Accepted, NEW c \in Conns, uid[c] # NoFd, NEW todo, WaitFor(c, todo),
         UNCHANGED <<uid, task, loopq>>
  PROVE  Accepted'
<1>1. jobs' = Append(jobs, Farewell(c)) /\ jobs \in Seq(Job) /\ Farewell(c) \in Job
  BY FarewellType DEF WaitFor, TypeOK
<1>2. \A i \in DOMAIN jobs' : jobs'[i] = Farewell(c) \/ \E k \in DOMAIN jobs : jobs'[i] = jobs[k]
  BY <1>1
<1>3. \A i \in DOMAIN jobs' : uid[jobs'[i].chan] # NoFd
  BY <1>2, FarewellType DEF Accepted
<1> QED BY <1>3 DEF Accepted

LEMMA NextAccepted == FiledInv /\ Placed /\ Accepted /\ [Next]_vars => Accepted'
<1> SUFFICES ASSUME FiledInv, Placed, Accepted, [Next]_vars PROVE Accepted'
  OBVIOUS
<1>0. TypeOK
  BY DEF FiledInv
<1>1. ASSUME UNCHANGED <<jobs, task, loopq>> PROVE Accepted'
  BY <1>0, <1>1, UidStays, OfConns DEF Accepted
<1>2. ASSUME NEW c \in Conns, Peer(c) PROVE Accepted'
  BY <1>1, <1>2 DEF Peer, Connect, SendPacket, HangUp, FallQuiet, loopVars
<1>3. ASSUME NEW c \in Conns, IOOn(c) PROVE Accepted'
  <2>1. CASE Read(c)
    <3>1. jobs' = jobs \o inbox[c] /\ UNCHANGED <<uid, task, loopq>> /\ Open(c)
      BY <2>1 DEF Read, loopVars, Readable
    <3>2. uid[c] # NoFd
      BY <3>1 DEF FiledInv, OwnUid, Open
    <3>3. jobs \in Seq(Job) /\ inbox[c] \in Seq(Job)
      BY <1>0, PacketIsJob DEF TypeOK
    <3>4. \A i \in DOMAIN jobs' :
            \/ \E k \in DOMAIN jobs : jobs'[i] = jobs[k]
            \/ \E k \in DOMAIN inbox[c] : jobs'[i] = inbox[c][k]
      <4> DEFINE r == inbox[c]
                 q == jobs \o r
      <4>1. r \in Seq(Job) /\ jobs' = q
        BY <3>1, <3>3
      <4> HIDE DEF r
      <4>2. \A i \in DOMAIN q : \/ \E k \in DOMAIN jobs : q[i] = jobs[k]
                               \/ \E k \in DOMAIN r : q[i] = r[k]
        BY <3>3, <4>1, OfConcat
      <4> HIDE DEF q
      <4>3. \A i \in DOMAIN jobs' : \/ \E k \in DOMAIN jobs : jobs'[i] = jobs[k]
                                   \/ \E k \in DOMAIN r : jobs'[i] = r[k]
        BY <4>1, <4>2
      <4> QED BY <4>3 DEF r
    <3>5. \A k \in DOMAIN inbox[c] : inbox[c][k].chan = c
      BY DEF Placed, Kept, Own
    <3>6. \A i \in DOMAIN jobs' : uid[jobs'[i].chan] # NoFd
      BY <3>2, <3>4, <3>5 DEF Accepted
    <3> QED BY <3>1, <3>6 DEF Accepted
  <2>2. CASE ReadEnd(c)
    <3>1. WaitFor(c, {}) /\ UNCHANGED <<uid, task, loopq>>
      BY <2>2 DEF ReadEnd, loopVars
    <3>2. uid[c] # NoFd
      <4>1. CASE Open(c)
        BY <4>1 DEF FiledInv, OwnUid, Open
      <4>2. CASE ioAt = "read" /\ ioChan = c
        BY <4>2, ServerAssumption DEF FiledInv, WaitedListed
      <4> QED BY <2>2, <4>1, <4>2 DEF ReadEnd, Readable
    <3> QED BY <1>0, <3>1, <3>2, FarewellAccepted
  <2>3. CASE ~Read(c) /\ ~ReadEnd(c)
    BY <1>1, <1>3, <2>3 DEF IOOn, Accept, ReadBlocks, Write, BrokenPipe, loopVars
  <2> QED BY <2>1, <2>2, <2>3
<1>4. ASSUME IOLoop PROVE Accepted'
  <2>1. CASE RunPosted
    <3>1. loopq # <<>> /\ loopq' = Tail(loopq) /\ UNCHANGED <<uid, jobs, task>>
      BY <2>1 DEF RunPosted
    <3>2. \A i \in DOMAIN loopq' : \E k \in DOMAIN loopq : loopq'[i] = loopq[k]
      BY <1>0, <3>1, OfTail DEF TypeOK
    <3> QED BY <3>1, <3>2 DEF Accepted
  <2>2. CASE IdleTimeout
    <3>1. PICK u \in Fds : /\ Lowest(u, Expired(ioTodo))
                           /\ WaitFor(channels[u], {v \in ioTodo : u < v})
      BY <2>2 DEF IdleTimeout
    <3>2. channels[u] # None /\ UNCHANGED <<uid, task, loopq>>
      BY <2>2, <3>1 DEF Lowest, Expired, IdleTimeout, loopVars
    <3>3. channels[u] \in Conns /\ uid[channels[u]] = u /\ u # NoFd
      BY <1>0, <3>2, ServerAssumption DEF FiledInv, MapInv, MapHoldsOpen, TypeOK
    <3> QED BY <1>0, <3>1, <3>2, <3>3, FarewellAccepted
  <2>3. CASE ~RunPosted /\ ~IdleTimeout
    BY <1>1, <1>4, <2>3 DEF IOLoop, PostedDone, IdleStart, IdleDone, Resume, loopVars
  <2> QED BY <2>1, <2>2, <2>3
<1>5. ASSUME NEW h \in Handlers, Handle(h) PROVE Accepted'
  <2>0. \A g \in Handlers : g # h => task'[g] = task[g]
    BY <1>0, <1>5 DEF Handle, Start, RunFarewell, RunCall, Reply, RunBye, Turn, Rest, TypeOK
  <2>1. CASE Start(h)
    <3>1. /\ jobs # <<>> /\ jobs' = Tail(jobs) /\ task'[h].job = Head(jobs)
          /\ UNCHANGED <<uid, loopq>>
      BY <1>0, <2>1 DEF Start, Turn, loopVars, TypeOK
    <3>2. /\ \A i \in DOMAIN jobs' : \E k \in DOMAIN jobs : jobs'[i] = jobs[k]
          /\ \E k \in DOMAIN jobs : Head(jobs) = jobs[k]
      BY <1>0, <3>1, OfTail DEF TypeOK
    <3> QED BY <2>0, <3>1, <3>2 DEF Accepted
  <2>2. CASE RunBye(h)
    <3> DEFINE c == task[h].job.chan
    <3>1. /\ c \in Conns /\ uid[c] # NoFd /\ UNCHANGED <<uid, jobs>>
          /\ task'[h].phase = "idle"
      BY <1>0, <2>2, OfConns DEF RunBye, Accepted, Rest, NoTask, TypeOK
    <3>2. loopq' \in {loopq, Append(loopq, c)} /\ loopq \in Seq(Conns)
      BY <1>0, <2>2 DEF RunBye, TypeOK
    <3> HIDE DEF c
    <3>3. \A i \in DOMAIN loopq' : loopq'[i] = c \/ \E k \in DOMAIN loopq : loopq'[i] = loopq[k]
      BY <3>1, <3>2
    <3> QED BY <2>0, <3>1, <3>3 DEF Accepted
  <2>3. CASE ~Start(h) /\ ~RunBye(h)
    <3>1. UNCHANGED <<uid, jobs, loopq>>
      BY <1>5, <2>3 DEF Handle, RunFarewell, RunCall, Reply, loopVars
    <3>2. task'[h].phase = "idle" \/ (task[h].phase # "idle" /\ task'[h].job = task[h].job)
      BY <1>0, <1>5, <2>3
         DEF Handle, RunFarewell, RunCall, Reply, Turn, Rest, NoTask, TypeOK
    <3> QED BY <2>0, <3>1, <3>2 DEF Accepted
  <2> QED BY <2>1, <2>2, <2>3
<1> QED BY <1>1, <1>2, <1>3, <1>4, <1>5 DEF Next, Running, vars

LEMMA AlwaysAccepted == Spec => [](FiledInv /\ Placed /\ Accepted)
<1>1. Init => Placed /\ Accepted
  BY InitPlaced DEF Init, Accepted, NoTask
<1>2. FiledInv /\ Placed /\ [Next]_vars => Placed'
  BY NextPlaced DEF FiledInv
<1> QED BY <1>1, <1>2, AlwaysFiled, NextAccepted, PTL DEF Spec

(* A process none of whose connections has ended, by hang-up or by being   *)
(* closed, does not die: a reply meets a channel that was closed, or a     *)
(* write a peer that has gone, or nothing happens to it.                   *)
THEOREM AlwaysDiesOfEndsOnly == Spec => []DiesOfEndsOnly
<1>1. Init => DiesOfEndsOnly
  BY DEF Init, DiesOfEndsOnly
<1>2. FiledInv /\ Accepted /\ DiesOfEndsOnly /\ [Next]_vars => DiesOfEndsOnly'
  <2> SUFFICES ASSUME FiledInv, Accepted, DiesOfEndsOnly, [Next]_vars PROVE DiesOfEndsOnly'
    OBVIOUS
  <2>1. CASE UNCHANGED vars
    BY <2>1 DEF vars, DiesOfEndsOnly, Gone, Open
  <2>2. ASSUME UNCHANGED crashed, Next PROVE DiesOfEndsOnly'
    BY <2>2 DEF Next, Running, DiesOfEndsOnly
  <2>3. ASSUME NEW c \in Conns, BrokenPipe(c) PROVE DiesOfEndsOnly'
    BY <2>3 DEF BrokenPipe, peerVars, DiesOfEndsOnly
  <2>4. ASSUME NEW h \in Handlers, Reply(h), Next PROVE DiesOfEndsOnly'
    <3>0. task[h].job.chan \in Conns /\ uid[task[h].job.chan] # NoFd
      BY <2>4, OfConns DEF Reply, Accepted, FiledInv
    <3>1. PICK c \in Conns :
            c = task[h].job.chan /\ uid[c] # NoFd /\ UNCHANGED <<uid, sock>>
      BY <2>4, <3>0 DEF Reply, loopVars
    <3>2. Open(c) => UNCHANGED crashed
      BY <2>4, <3>1 DEF Reply
    <3>3. ~Open(c) => Gone(c)'
      BY <3>1 DEF Gone, Open
    <3> QED BY <2>2, <2>4, <3>1, <3>2, <3>3 DEF DiesOfEndsOnly
  <2> QED
    BY <2>1, <2>2, <2>3, <2>4
       DEF Next, Running, Peer, Connect, SendPacket, HangUp, FallQuiet, IOOn, Accept, Read,
           ReadBlocks, ReadEnd, Write, IOLoop, RunPosted, PostedDone, IdleStart, IdleTimeout,
           IdleDone, Resume, Handle, Start, RunFarewell, RunCall, RunBye
<1> QED BY <1>1, <1>2, AlwaysAccepted, PTL DEF Spec

(* The loop neither waits in vain nor dies while all connections last, for *)
(* any numbers of them and of handlers.                                    *)
THEOREM AlwaysLoopStands == Spec => []LoopStands
BY AlwaysWaitHasJob, AlwaysDiesOfEndsOnly, PTL DEF LoopStands
-----------------------------------------------------------------------------
(* CallsKept, of the connections the map has and of those that wait to be  *)
(* accepted: a connection that neither holds for was closed or lost, and   *)
(* never comes back.                                                       *)
InCare(c) == Listed(c) \/ uid[c] = NoFd

Somewhere(c, n) ==
  \/ Holds(inbox[c], c, n) \/ Holds(jobs, c, n) \/ Holds(Replies(c), c, n)
  \/ \E h \in Handlers : Busy(h, c, n)
  \/ \E i \in DOMAIN loopq : loopq[i] = c

Quick(c) == InCare(c) => (wbuf[c] # <<>> => c \in signalled)

Cared(c) ==
  InCare(c) /\ peer[c] = "connected" => \A n \in 1..sent[c] : Somewhere(c, n)

NothingYet == \A c \in Conns : peer[c] = "none" => sent[c] = 0

CareInv == NothingYet /\ \A c \in Conns : Quick(c) /\ Cared(c)

ServedInv == FiledInv /\ Placed /\ Accepted

LEMMA CareShrinks ==
  ASSUME FiledInv, [Next]_vars, NEW c \in Conns, InCare(c)'
  PROVE  InCare(c)
<1>1. CASE UNCHANGED <<channels, uid, sock>>
  BY <1>1 DEF InCare, Listed
<1>2. ASSUME NEW d \in Conns, Accept(d) PROVE InCare(c)
  BY <1>2, AcceptSteps, ServerAssumption DEF InCare, Listed, FiledInv
<1>3. ASSUME NEW d \in Conns, Removed(d), UNCHANGED uid PROVE InCare(c)
  BY <1>3, RemovedSteps, ServerAssumption DEF InCare, Listed, FiledInv
<1> QED BY <1>1, <1>2, <1>3, MapSteps DEF FiledInv, vars

(* Who is closed is out of care. *)
LEMMA RemovedOutOfCare ==
  ASSUME FiledInv, NEW c \in Conns, Removed(c), UNCHANGED uid, uid[c] # NoFd
  PROVE  ~InCare(c)'
<1>1. ASSUME NEW v \in Fds, channels'[v] = c PROVE FALSE
  <2>1. c # None
    BY ServerAssumption
  <2>2. v # uid[c] /\ channels[v] = c
    BY <1>1, <2>1, RemovedSteps DEF FiledInv
  <2>3. uid[c] = v
    BY <2>1, <2>2 DEF FiledInv, MapInv, MapHoldsOpen
  <2> QED BY <2>2, <2>3
<1> QED BY <1>1 DEF InCare, Listed

LEMMA InCareFound ==
  ASSUME FiledInv, NEW c \in Conns, InCare(c), uid[c] # NoFd
  PROVE  Open(c) /\ Found(c)
BY ListedFound DEF InCare

(* A buffered reply's channel is signalled. *)
LEMMA NextQuick ==
  ASSUME ServedInv, [Next]_vars, NEW c \in Conns, Quick(c)
  PROVE  Quick(c)'
<1>0. TypeOK
  BY DEF ServedInv, FiledInv
<1> SUFFICES ASSUME InCare(c)', wbuf'[c] # <<>> PROVE c \in signalled'
  BY DEF Quick
<1>1. InCare(c)
  BY CareShrinks DEF ServedInv
<1>2. CASE UNCHANGED <<wbuf, signalled>>
  BY <1>1, <1>2 DEF Quick
<1>3. ASSUME NEW d \in Conns, Write(d) PROVE c \in signalled'
  <2>0. d \in signalled
    BY <1>3 DEF Write
  <2>1. Open(d) /\ uid[d] # NoFd
    BY <2>0 DEF ServedInv, FiledInv, MapInv, OwnSocket, OwnUid, Open
  <2>2. CASE d = c
    <3>1. Found(c)
      BY <1>1, <2>1, <2>2, InCareFound DEF ServedInv
    <3>2. wbuf'[c] = <<>>
      BY <1>0, <1>3, <2>2, <3>1 DEF Write, Flush, TypeOK
    <3> QED BY <3>2
  <2>3. CASE d # c
    <3>1. wbuf'[c] = wbuf[c]
      BY <1>0, <1>3, <2>3 DEF Write, Flush, TypeOK
    <3>2. signalled' = signalled \ {d}
      BY <1>0, <1>3, RemovedSteps DEF Write
    <3> QED BY <1>1, <2>3, <3>1, <3>2 DEF Quick
  <2> QED BY <2>2, <2>3
<1>4. ASSUME NEW d \in Conns, Removed(d), UNCHANGED <<uid, wbuf>>, uid[d] # NoFd
      PROVE  c \in signalled'
  <2>1. d # c
    BY <1>4, RemovedOutOfCare DEF ServedInv
  <2>2. signalled' = signalled \ {d}
    BY <1>0, <1>4, RemovedSteps
  <2> QED BY <1>1, <1>4, <2>1, <2>2 DEF Quick
<1>5. CASE RunPosted
  <2>1. Head(loopq) \in Conns /\ uid[Head(loopq)] # NoFd
    <3>1. \E k \in DOMAIN loopq : Head(loopq) = loopq[k]
      BY <1>0, <1>5, OfTail DEF RunPosted, TypeOK
    <3> QED BY <1>0, <3>1, OfConns DEF ServedInv, Accepted
  <2> QED BY <1>4, <1>5, <2>1 DEF RunPosted
<1>6. CASE Resume
  <2>1. ioChan \in Conns
    BY <1>0, <1>6 DEF Resume, TypeOK
  <2>2. uid[ioChan] # NoFd
    BY <1>6, ServerAssumption DEF Resume, ServedInv, FiledInv, WaitedListed
  <2> QED BY <1>4, <1>6, <2>1, <2>2 DEF Resume
<1>7. ASSUME NEW h \in Handlers, Reply(h) PROVE c \in signalled'
  <2>1. PICK d \in Conns : d = task[h].job.chan /\ uid[d] # NoFd
    BY <1>0, <1>7, OfConns DEF Reply, ServedInv, Accepted
  <2>2. CASE d = c
    <3>1. Open(c)
      BY <1>1, <2>1, <2>2, InCareFound DEF ServedInv
    <3> QED BY <1>7, <2>1, <2>2, <3>1 DEF Reply
  <2>3. CASE d # c
    <3>1. wbuf'[c] = wbuf[c] /\ signalled \subseteq signalled'
      BY <1>0, <1>7, <2>1, <2>3 DEF Reply, TypeOK
    <3> QED BY <1>1, <3>1 DEF Quick
  <2> QED BY <2>2, <2>3
<1> QED
  BY <1>2, <1>3, <1>5, <1>6, <1>7
     DEF Next, Running, vars, Peer, Connect, SendPacket, HangUp, FallQuiet, IOOn, Accept,
         Read, ReadBlocks, ReadEnd, BrokenPipe, IOLoop, PostedDone, IdleStart, IdleTimeout,
         IdleDone, Handle, Start, RunFarewell, RunCall, RunBye
-----------------------------------------------------------------------------
(* A call that is somewhere goes somewhere.  First what the queues keep.    *)
LEMMA TailKeeps ==
  ASSUME NEW S, NEW q \in Seq(S), q # <<>>
  PROVE  /\ \A c, n : Holds(q, c, n) =>
              Holds(Tail(q), c, n) \/ (Head(q).chan = c /\ Head(q).n = n)
         /\ \A x : (\E i \in DOMAIN q : q[i] = x) =>
              (\E i \in DOMAIN Tail(q) : Tail(q)[i] = x) \/ Head(q) = x
<1>1. /\ DOMAIN q = 1 .. Len(q) /\ Len(q) \in Nat /\ Len(q) >= 1
      /\ DOMAIN Tail(q) = 1 .. Len(q) - 1
      /\ \A i \in 1 .. Len(q) - 1 : Tail(q)[i] = q[i + 1]
      /\ Head(q) = q[1]
  OBVIOUS
<1>2. \A i \in 1 .. Len(q) : i = 1 \/ (i - 1 \in 1 .. Len(q) - 1 /\ (i - 1) + 1 = i)
  BY <1>1
<1>3. \A i \in DOMAIN q : q[i] = Head(q) \/ \E k \in DOMAIN Tail(q) : Tail(q)[k] = q[i]
  BY <1>1, <1>2
<1> QED BY <1>3 DEF Holds

LEMMA WholeSubSeq ==
  ASSUME NEW S, NEW q \in Seq(S)
  PROVE  SubSeq(q, 1, Len(q)) = q
OBVIOUS

LEMMA EndsKept ==
  ASSUME NEW c \in Conns, NEW n, Somewhere(c, n),
         Holds(inbox[c], c, n) => Holds(inbox'[c], c, n),
         Holds(jobs, c, n) => Holds(jobs', c, n),
         UNCHANGED <<wbuf, delivered, task>>,
         (\E i \in DOMAIN loopq : loopq[i] = c) => \E i \in DOMAIN loopq' : loopq'[i] = c
  PROVE  Somewhere(c, n)'
<1>1. Replies(c)' = Replies(c)
  BY DEF Replies
<1>2. \A h \in Handlers : Busy(h, c, n) <=> Busy(h, c, n)'
  BY DEF Busy
<1> QED BY <1>1, <1>2 DEF Somewhere

LEMMA PeerSomewhere ==
  ASSUME TypeOK, NEW c \in Conns, NEW n, Somewhere(c, n), NEW d \in Conns, Peer(d)
  PROVE  Somewhere(c, n)'
<1>1. CASE SendPacket(d)
  <2>1. PICK k \in Kinds :
          inbox' = [inbox EXCEPT ![d] =
                      Append(@, [kind |-> k, chan |-> d, n |-> sent[d] + 1])]
    BY <1>1 DEF SendPacket
  <2> DEFINE p == [kind |-> k, chan |-> d, n |-> sent[d] + 1]
  <2>2. /\ inbox'[c] = inbox[c] \/ inbox'[c] = Append(inbox[c], p)
        /\ inbox[c] \in Seq(Packet)
    BY <2>1 DEF TypeOK
  <2>3. p \in Packet
    BY <1>1, ServerAssumption DEF Packet, SendPacket, TypeOK
  <2> HIDE DEF p
  <2> DEFINE q == inbox[c]
  <2>4. q \in Seq(Packet)
    BY <2>2
  <2> HIDE DEF q
  <2>5. Holds(q, c, n) => Holds(Append(q, p), c, n)
    BY <2>3, <2>4, AfterAppend
  <2>6. Holds(inbox[c], c, n) => Holds(inbox'[c], c, n)
    BY <2>2, <2>5 DEF q
  <2>7. UNCHANGED <<jobs, wbuf, delivered, task, loopq>>
    BY <1>1 DEF SendPacket, loopVars
  <2> QED BY <2>6, <2>7, EndsKept
<1>2. CASE ~SendPacket(d)
  <2>1. UNCHANGED <<inbox, jobs, wbuf, delivered, task, loopq>>
    BY <1>2 DEF Peer, Connect, HangUp, FallQuiet, loopVars, peerVars
  <2> QED BY <2>1, EndsKept
<1> QED BY <1>1, <1>2

(* A farewell joins the queue. *)
LEMMA WaitForSomewhere ==
  ASSUME TypeOK, NEW c \in Conns, NEW n, Somewhere(c, n), NEW d \in Conns,
         jobs' = Append(jobs, Farewell(d)), inbox'[c] = inbox[c],
         UNCHANGED <<wbuf, delivered, task, loopq>>
  PROVE  Somewhere(c, n)'
<1>1. Farewell(d) \in Job /\ jobs \in Seq(Job)
  BY FarewellType DEF TypeOK
<1>2. Holds(jobs, c, n) => Holds(jobs', c, n)
  BY <1>1, AfterAppend
<1> QED BY <1>2, EndsKept

LEMMA IOOnSomewhere ==
  ASSUME ServedInv, NEW c \in Conns, NEW n, Somewhere(c, n), peer[c] = "connected",
         NEW d \in Conns, IOOn(d), InCare(c)'
  PROVE  Somewhere(c, n)'
<1>0. TypeOK
  BY DEF ServedInv, FiledInv
<1>1. CASE Read(d)
  <2>1. /\ inbox'[c] = IF d = c THEN <<>> ELSE inbox[c]
        /\ jobs' = jobs \o inbox[d] /\ jobs \in Seq(Job) /\ inbox[d] \in Seq(Job)
        /\ UNCHANGED <<wbuf, delivered, task, loopq>>
    BY <1>0, <1>1, PacketIsJob DEF Read, TypeOK, loopVars
  <2>2. Holds(jobs', c, n) <=> Holds(jobs, c, n) \/ Holds(inbox[d], c, n)
    BY <2>1, AfterConcat
  <2>3. Replies(c)' = Replies(c)
    BY <2>1 DEF Replies
  <2>4. \A h \in Handlers : Busy(h, c, n) <=> Busy(h, c, n)'
    BY <2>1 DEF Busy
  <2> QED BY <2>1, <2>2, <2>3, <2>4 DEF Somewhere
<1>2. CASE ReadEnd(d)
  <2>1. peer[d] = "gone"
    BY <1>2 DEF ReadEnd
  <2>2. /\ jobs' = Append(jobs, Farewell(d)) /\ inbox'[c] = inbox[c]
        /\ UNCHANGED <<wbuf, delivered, task, loopq>>
    BY <1>0, <1>2, <2>1 DEF ReadEnd, WaitFor, loopVars, TypeOK
  <2> QED BY <1>0, <2>2, WaitForSomewhere
<1>3. CASE Write(d)
  <2>1. UNCHANGED <<uid, inbox, jobs, task, loopq>>
    BY <1>3 DEF Write, peerVars
  <2>2. CASE d = c /\ Found(c)
    <3>1. PICK k \in 0..Len(wbuf[c]) :
            /\ Flush(c, k)
            /\ IF k < Len(wbuf[c])
               THEN Removed(c)
               ELSE signalled' = signalled \ {c} /\ UNCHANGED <<channels, sock>>
      BY <1>3, <2>2 DEF Write
    <3>2. uid[c] # NoFd
      BY <1>3, <2>2 DEF Write, ServedInv, FiledInv, MapInv, OwnSocket, OwnUid, Open
    <3>3. ~(k < Len(wbuf[c]))
      BY <2>1, <3>1, <3>2, RemovedOutOfCare DEF ServedInv
    <3>4. wbuf[c] \in Seq(Packet) /\ delivered[c] \in Seq(Packet)
      BY <1>0 DEF TypeOK
    <3>5. k = Len(wbuf[c])
      BY <3>3, <3>4
    <3>6. wbuf'[c] = <<>> /\ delivered'[c] = delivered[c] \o wbuf[c]
      BY <1>0, <3>1, <3>4, <3>5, WholeSubSeq DEF Flush, TypeOK
    <3>7. Replies(c) \in Seq(Packet) /\ Replies(c)' = Replies(c) \o <<>>
      BY <3>4, <3>6 DEF Replies
    <3>8. \A h \in Handlers : Busy(h, c, n) <=> Busy(h, c, n)'
      BY <2>1 DEF Busy
    <3>9. \A q \in Seq(Packet) : q \o <<>> = q
      OBVIOUS
    <3>10. Replies(c)' = Replies(c)
      BY <3>7, <3>9
    <3> QED BY <2>1, <3>8, <3>10 DEF Somewhere
  <2>3. CASE ~(d = c /\ Found(c))
    <3>1. wbuf'[c] = wbuf[c] /\ delivered'[c] = delivered[c]
      BY <1>0, <1>3, <2>3 DEF Write, Flush, TypeOK
    <3>2. Replies(c)' = Replies(c)
      BY <3>1 DEF Replies
    <3>3. \A h \in Handlers : Busy(h, c, n) <=> Busy(h, c, n)'
      BY <2>1 DEF Busy
    <3> QED BY <2>1, <3>2, <3>3 DEF Somewhere
  <2> QED BY <2>2, <2>3
<1>4. CASE Accept(d) \/ ReadBlocks(d) \/ BrokenPipe(d)
  <2>1. UNCHANGED <<inbox, jobs, wbuf, delivered, task, loopq>>
    BY <1>4 DEF Accept, ReadBlocks, BrokenPipe, peerVars, loopVars
  <2> QED BY <2>1, EndsKept
<1> QED BY <1>1, <1>2, <1>3, <1>4 DEF IOOn

LEMMA IOLoopSomewhere ==
  ASSUME ServedInv, NEW c \in Conns, NEW n, Somewhere(c, n), IOLoop, InCare(c)'
  PROVE  Somewhere(c, n)'
<1>0. TypeOK
  BY DEF ServedInv, FiledInv
<1>1. CASE RunPosted
  <2>1. /\ loopq \in Seq(Conns) /\ loopq # <<>> /\ loopq' = Tail(loopq)
        /\ Removed(Head(loopq)) /\ Head(loopq) \in Conns
        /\ UNCHANGED <<uid, inbox, jobs, wbuf, delivered, task>>
    BY <1>0, <1>1 DEF RunPosted, TypeOK, peerVars
  <2>2. uid[Head(loopq)] # NoFd
    <3>1. \E k \in DOMAIN loopq : Head(loopq) = loopq[k]
      BY <2>1, OfTail
    <3> QED BY <3>1 DEF ServedInv, Accepted
  <2>3. Head(loopq) # c
    BY <2>1, <2>2, RemovedOutOfCare DEF ServedInv
  <2>4. (\E i \in DOMAIN loopq : loopq[i] = c) => \E i \in DOMAIN loopq' : loopq'[i] = c
    BY <2>1, <2>3, TailKeeps
  <2> QED BY <2>1, <2>4, EndsKept
<1>2. CASE IdleTimeout
  <2>1. PICK u \in Fds : /\ Lowest(u, Expired(ioTodo))
                         /\ WaitFor(channels[u], {v \in ioTodo : u < v})
    BY <1>2 DEF IdleTimeout
  <2>2. channels[u] \in Conns
    BY <1>0, <2>1 DEF Lowest, Expired, TypeOK
  <2>3. /\ jobs' = Append(jobs, Farewell(channels[u]))
        /\ UNCHANGED <<inbox, wbuf, delivered, task, loopq>>
    BY <1>2, <2>1 DEF IdleTimeout, WaitFor, peerVars, loopVars
  <2> QED BY <1>0, <2>2, <2>3, WaitForSomewhere
<1>3. CASE ~RunPosted /\ ~IdleTimeout
  <2>1. UNCHANGED <<inbox, jobs, wbuf, delivered, task, loopq>>
    BY <1>3 DEF IOLoop, PostedDone, IdleStart, IdleDone, Resume, loopVars, peerVars
  <2> QED BY <2>1, EndsKept
<1> QED BY <1>1, <1>2, <1>3

(* A handler passes its call on, unless it found the connection dead.      *)
LEMMA HandleSomewhere ==
  ASSUME ServedInv, NEW c \in Conns, NEW n \in Nat, n # 0, Somewhere(c, n), InCare(c),
         NEW h \in Handlers, Handle(h)
  PROVE  Somewhere(c, n)'
<1>0. TypeOK
  BY DEF ServedInv, FiledInv
<1>1. /\ \A g \in Handlers : g # h => task'[g] = task[g]
      /\ \A g \in Handlers : g # h /\ Busy(g, c, n) => Busy(g, c, n)'
      /\ UNCHANGED <<inbox, delivered>>
  <2>1. \A g \in Handlers : g # h => task'[g] = task[g]
    BY <1>0 DEF Handle, Start, RunFarewell, RunCall, Reply, RunBye, Turn, Rest, TypeOK
  <2>2. UNCHANGED <<inbox, delivered>>
    BY DEF Handle, Start, RunFarewell, RunCall, Reply, RunBye, peerVars
  <2> QED BY <2>1, <2>2 DEF Busy
<1>2. (Busy(h, c, n) => Listed(c))
  BY <1>0, OfConns DEF Busy, ServedInv, Accepted, InCare
<1>3. CASE Start(h)
  <2>1. /\ jobs \in Seq(Job) /\ jobs # <<>> /\ jobs' = Tail(jobs)
        /\ task[h].phase = "idle" /\ task'[h] = [phase |-> "run", job |-> Head(jobs)]
        /\ UNCHANGED <<wbuf, loopq>>
    BY <1>0, <1>3 DEF Start, Turn, TypeOK, loopVars
  <2>2. Replies(c)' = Replies(c)
    BY <1>1, <2>1 DEF Replies
  <2>3. Holds(jobs, c, n) => Holds(jobs', c, n) \/ (Head(jobs).chan = c /\ Head(jobs).n = n)
    BY <2>1, TailKeeps
  <2>4. Holds(jobs, c, n) => Holds(jobs', c, n) \/ Busy(h, c, n)'
    BY <2>1, <2>3 DEF Busy
  <2>5. ~Busy(h, c, n)
    BY <2>1 DEF Busy
  <2> QED BY <1>1, <2>1, <2>2, <2>4, <2>5 DEF Somewhere
<1>4. CASE RunFarewell(h)
  <2>1. ~Busy(h, c, n)
    <3>1. task[h].phase = "run" /\ task[h].job \in Job /\ task[h].job.kind = "close"
      BY <1>0, <1>4, OfConns DEF RunFarewell
    <3>2. task[h].job \notin Packet
      BY <3>1, ServerAssumption DEF Packet
    <3>3. task[h].job.n = 0
      BY <3>1, <3>2 DEF Job, Farewell
    <3> QED BY <3>3 DEF Busy
  <2>2. UNCHANGED <<jobs, wbuf, loopq>>
    BY <1>4 DEF RunFarewell, loopVars
  <2>3. Replies(c)' = Replies(c)
    BY <1>1, <2>2 DEF Replies
  <2> QED BY <1>1, <2>1, <2>2, <2>3 DEF Somewhere
<1>5. CASE RunCall(h)
  <2>1. UNCHANGED <<jobs, wbuf, loopq>>
    BY <1>5 DEF RunCall, loopVars
  <2>2. Replies(c)' = Replies(c)
    BY <1>1, <2>1 DEF Replies
  <2>3. Busy(h, c, n) => Busy(h, c, n)'
    <3>1. Busy(h, c, n) => Alive(task[h].job.chan)
      BY <1>2 DEF Busy, Alive
    <3> QED BY <1>0, <1>5, <3>1 DEF RunCall, Turn, Busy, TypeOK
  <2> QED BY <1>1, <2>1, <2>2, <2>3 DEF Somewhere
<1>6. CASE Reply(h)
  <2>0. task[h].job \in Packet
    BY <1>0, <1>6, TaskOf DEF Reply
  <2>1. PICK j \in Packet, d \in Conns : j = task[h].job /\ d = j.chan
    BY <2>0 DEF Packet
  <2>2. /\ wbuf'[c] = IF d = c THEN Append(wbuf[c], j) ELSE wbuf[c]
        /\ UNCHANGED <<jobs, loopq>>
    BY <1>0, <1>6, <2>1 DEF Reply, TypeOK, loopVars
  <2>3. delivered[c] \in Seq(Packet) /\ wbuf[c] \in Seq(Packet)
    BY <1>0 DEF TypeOK
  <2>4. Replies(c) \in Seq(Packet)
    BY <2>3 DEF Replies
  <2>5. Replies(c)' = IF d = c THEN Append(Replies(c), j) ELSE Replies(c)
    <3> DEFINE a == delivered[c]
               b == wbuf[c]
    <3>1. a \in Seq(Packet) /\ b \in Seq(Packet)
      BY <2>3
    <3>2. /\ Replies(c) = a \o b
          /\ Replies(c)' = IF d = c THEN a \o Append(b, j) ELSE a \o b
      BY <1>1, <2>2 DEF Replies
    <3> HIDE DEF a, b
    <3>3. a \o Append(b, j) = Append(a \o b, j)
      BY <2>1, <3>1, ConcatAppend
    <3> QED BY <3>2, <3>3
  <2>6. /\ Holds(Replies(c), c, n) => Holds(Append(Replies(c), j), c, n)
        /\ j.chan = c /\ j.n = n => Holds(Append(Replies(c), j), c, n)
    BY <2>4, AfterAppend
  <2>7. Busy(h, c, n) => j.chan = c /\ j.n = n
    BY <2>1 DEF Busy
  <2>8. /\ Holds(Replies(c), c, n) => Holds(Replies(c)', c, n)
        /\ Busy(h, c, n) => Holds(Replies(c)', c, n)
    BY <2>1, <2>5, <2>6, <2>7
  <2> QED BY <1>1, <2>2, <2>8 DEF Somewhere
<1>7. CASE RunBye(h)
  <2>1. UNCHANGED <<jobs, wbuf>>
    BY <1>7 DEF RunBye
  <2>2. Replies(c)' = Replies(c)
    BY <1>1, <2>1 DEF Replies
  <2>3. PICK d \in Conns : d = task[h].job.chan
    BY <1>0, <1>7, OfConns DEF RunBye
  <2>4. loopq' = (IF Alive(d) THEN Append(loopq, d) ELSE loopq) /\ loopq \in Seq(Conns)
    BY <1>0, <1>7, <2>3 DEF RunBye, TypeOK
  <2>5. (\E i \in DOMAIN loopq : loopq[i] = c) => \E i \in DOMAIN loopq' : loopq'[i] = c
    BY <2>4
  <2>6. Busy(h, c, n) => \E i \in DOMAIN loopq' : loopq'[i] = c
    <3>1. Busy(h, c, n) => d = c /\ Alive(d)
      BY <1>2, <2>3 DEF Busy, Alive
    <3> QED BY <2>4, <3>1
  <2> QED BY <1>1, <2>1, <2>2, <2>5, <2>6 DEF Somewhere
<1> QED BY <1>3, <1>4, <1>5, <1>6, <1>7 DEF Handle

LEMMA NextNothingYet == TypeOK /\ NothingYet /\ [Next]_vars => NothingYet'
<1> SUFFICES ASSUME TypeOK, NothingYet, [Next]_vars PROVE NothingYet'
  OBVIOUS
<1>1. CASE UNCHANGED <<peer, sent>>
  BY <1>1 DEF NothingYet
<1>2. ASSUME NEW c \in Conns, Connect(c) \/ SendPacket(c) \/ HangUp(c) PROVE NothingYet'
  BY <1>2 DEF NothingYet, Connect, SendPacket, HangUp, TypeOK
<1> QED
  BY <1>1, <1>2
     DEF Next, Running, vars, peerVars, Peer, FallQuiet, IOOn, Accept, Read, ReadBlocks, ReadEnd, Write,
         BrokenPipe, IOLoop, RunPosted, PostedDone, IdleStart, IdleTimeout, IdleDone,
         Resume, Handle, Start, RunFarewell, RunCall, Reply, RunBye

LEMMA NextCared ==
  ASSUME ServedInv, NothingYet, [Next]_vars, NEW c \in Conns, Cared(c)
  PROVE  Cared(c)'
<1>0. TypeOK
  BY DEF ServedInv, FiledInv
<1> SUFFICES ASSUME InCare(c)', peer'[c] = "connected", NEW n \in 1..sent'[c]
             PROVE  Somewhere(c, n)'
  BY DEF Cared
<1>1. InCare(c)
  BY CareShrinks DEF ServedInv
<1>2. CASE peer[c] = "connected" /\ n \in 1..sent[c]
  <2>1. Somewhere(c, n) /\ n \in Nat /\ n # 0
    BY <1>1, <1>2 DEF Cared
  <2>2. CASE UNCHANGED vars
    BY <2>1, <2>2, EndsKept DEF vars
  <2> QED
    BY <1>0, <1>1, <1>2, <2>1, <2>2, PeerSomewhere, IOOnSomewhere, IOLoopSomewhere,
       HandleSomewhere DEF Next, Running
<1>3. CASE ~(peer[c] = "connected" /\ n \in 1..sent[c])
  <2>1. ASSUME NEW d \in Conns, SendPacket(d) PROVE Somewhere(c, n)'
    <3>1. PICK k \in Kinds :
            inbox' = [inbox EXCEPT ![d] =
                        Append(@, [kind |-> k, chan |-> d, n |-> sent[d] + 1])]
      BY <2>1 DEF SendPacket
    <3>2. d = c /\ n = sent[c] + 1
      <4>1. UNCHANGED peer /\ sent' = [sent EXCEPT ![d] = @ + 1]
        BY <2>1 DEF SendPacket
      <4>2. sent[c] \in Nat /\ n \notin 1..sent[c]
        BY <1>0, <1>3, <4>1, ServerAssumption DEF TypeOK
      <4>3. d = c
        BY <1>0, <4>1, <4>2 DEF TypeOK
      <4> QED BY <1>0, <4>1, <4>2, <4>3 DEF TypeOK
    <3> DEFINE p == [kind |-> k, chan |-> c, n |-> sent[c] + 1]
    <3>3. inbox'[c] = Append(inbox[c], p) /\ inbox[c] \in Seq(Packet)
      BY <1>0, <3>1, <3>2 DEF TypeOK
    <3>4. p \in Packet /\ p.chan = c /\ p.n = n
      BY <1>0, <2>1, <3>2, ServerAssumption DEF Packet, SendPacket, TypeOK
    <3> HIDE DEF p
    <3>5. Holds(inbox'[c], c, n)
      BY <3>3, <3>4, AfterAppend
    <3> QED BY <3>5 DEF Somewhere
  <2>2. ASSUME NEW d \in Conns, Connect(d) PROVE FALSE
    <3>1. UNCHANGED sent /\ peer[d] = "none"
      BY <2>2 DEF Connect, peerVars
    <3>2. d = c
      BY <1>0, <1>3, <2>2, <3>1 DEF Connect, TypeOK
    <3>3. sent[c] = 0
      BY <3>1, <3>2 DEF NothingYet
    <3> QED BY <3>1, <3>3
  <2>3. ASSUME NEW d \in Conns, HangUp(d) PROVE FALSE
    BY <1>0, <1>3, <2>3 DEF HangUp, TypeOK
  <2>4. CASE UNCHANGED <<peer, sent>>
    BY <1>3, <2>4
  <2> QED
    BY <2>1, <2>2, <2>3, <2>4
       DEF Next, Running, vars, peerVars, Peer, FallQuiet, IOOn, Accept, Read, ReadBlocks, ReadEnd, Write,
           BrokenPipe, IOLoop, RunPosted, PostedDone, IdleStart, IdleTimeout, IdleDone,
           Resume, Handle, Start, RunFarewell, RunCall, Reply, RunBye
<1> QED BY <1>2, <1>3

(* No call is lost on its way: while its connection is in the map and its  *)
(* peer there, it is in one of the places between the socket and the reply *)
(* or the removal is posted; and a buffered reply is signalled.  With      *)
(* RepliesMatch this is all of CallsServed, for any connections, handlers  *)
(* and packets.                                                            *)
THEOREM AlwaysCallsServed == Spec => []CallsServed
<1>1. Init => CareInv
  BY DEF Init, CareInv, NothingYet, Quick, Cared
<1>2. ServedInv /\ CareInv /\ [Next]_vars => CareInv'
  <2> SUFFICES ASSUME ServedInv, CareInv, [Next]_vars PROVE CareInv'
    OBVIOUS
  <2>1. NothingYet'
    BY NextNothingYet DEF ServedInv, FiledInv, CareInv
  <2>2. \A c \in Conns : Quick(c)' /\ Cared(c)'
    BY NextQuick, NextCared DEF CareInv
  <2> QED BY <2>1, <2>2 DEF CareInv
<1>3. CareInv => CallsKept
  BY DEF CareInv, CallsKept, Quick, Cared, InCare, Somewhere
<1>4. Spec => []ServedInv
  BY AlwaysAccepted, PTL DEF ServedInv
<1> QED BY <1>1, <1>2, <1>3, <1>4, AlwaysRepliesMatch, PTL DEF Spec, CallsServed
=============================================================================

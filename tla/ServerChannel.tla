--------------------------- MODULE ServerChannel ----------------------------
(***************************************************************************)
(* The TCP connections of one server IO loop (net/server/MyServant.cc,     *)
(* MyChannel.cc, MyContext.cc, EventLoop.cc, net/ev/MyLoop.h), the handler *)
(* threads that serve them, and the peers.                                 *)
(*                                                                         *)
(* The IO thread runs one libev callback at a time; inside a callback it   *)
(* may wait for a job it gave to the handler pool.  A handler's job is the *)
(* steps between its reads of shared state.  The pool is used as Executor  *)
(* describes it: jobs are started in the order they were queued.  Framing  *)
(* is abstracted: a packet arrives whole.                                  *)
(*                                                                         *)
(* The kernel is modelled from how src/ uses it: accept returns the lowest *)
(* free descriptor, a socket is readable while it has data or its peer has *)
(* hung up, and a write after the hang-up may kill the process (nothing in *)
(* src/ ignores SIGPIPE).  The listener does not block; an accepted socket *)
(* does on Linux, and does not where accept() hands that on, as on the     *)
(* BSDs and macOS.  libev is modelled likewise: the idle watcher runs only *)
(* when no other watcher has an event pending.                             *)
(***************************************************************************)
EXTENDS Naturals, Sequences, FiniteSets

CONSTANTS
  Conns,     \* connections, each made once by its peer
  Fds,       \* descriptors the kernel hands out
  Handlers,  \* handler threads
  Kinds,     \* "call": answered; "bye": the handler closes the connection
  MaxSend,   \* bound: packets a peer sends on a connection
  None       \* no channel

NoFd == 0

ASSUME ServerAssumption ==
  /\ Fds \subseteq Nat \ {NoFd}
  /\ Kinds \subseteq {"call", "bye"}
  /\ MaxSend \in Nat
  /\ None \notin Conns

VARIABLES
  channels,   \* EventLoop::channels, by uid
  uid,        \* MyChannel::uid, the descriptor it was accepted on
  sock,       \* MyChannel::socket's descriptor; its watchers live as long
  signalled,  \* channels whose writeWatcher was signalled
  wbuf,       \* MyChannel::writeBuf
  quiet,      \* channels whose lastReceiveTime is config.timeout old
  loopq,      \* channels to remove, posted to the loop's queue_
  ioAt,       \* where the IO thread is
  ioChan,     \* the channel whose job it waits for
  ioTodo,     \* the uids onIdle has still to check
  answered,   \* whether the future it waits for is ready
  jobs,       \* handlerExecutor's queue
  task,       \* each handler's job
  peer,       \* "none", "connected" or "gone"
  sent,       \* packets the peer has sent
  inbox,      \* packets received by the kernel and not handled
  delivered,  \* replies the peer has received
  crashed,    \* the process has died
  blocking    \* whether accepted sockets block

loopVars == <<channels, uid, sock, loopq>>
ioVars == <<ioAt, ioChan, ioTodo>>
peerVars == <<peer, sent, inbox>>
vars == <<channels, uid, sock, signalled, wbuf, quiet, loopq, ioAt, ioChan,
          ioTodo, answered, jobs, task, peer, sent, inbox, delivered, crashed,
          blocking>>

Packet == [kind : Kinds, chan : Conns, n : 1..MaxSend]
(* onReadError's and onTimeout's jobs. *)
Farewell(c) == [kind |-> "close", chan |-> c, n |-> 0]
Job == Packet \cup {Farewell(c) : c \in Conns}
NoTask == [phase |-> "idle", job |-> None]

Init ==
  /\ channels = [u \in Fds |-> None]
  /\ uid = [c \in Conns |-> NoFd]
  /\ sock = [c \in Conns |-> NoFd]
  /\ signalled = {}
  /\ wbuf = [c \in Conns |-> <<>>]
  /\ quiet = {}
  /\ loopq = <<>>
  /\ ioAt = "poll" /\ ioChan = None /\ ioTodo = {}
  /\ answered = FALSE
  /\ jobs = <<>>
  /\ task = [h \in Handlers |-> NoTask]
  /\ peer = [c \in Conns |-> "none"]
  /\ sent = [c \in Conns |-> 0]
  /\ inbox = [c \in Conns |-> <<>>]
  /\ delivered = [c \in Conns |-> <<>>]
  /\ crashed = FALSE
  /\ blocking \in BOOLEAN

Open(c) == sock[c] # NoFd
Listed(c) == \E u \in Fds : channels[u] = c

(* What makes MyContext's weak_ptr::lock() succeed: the map, a posted      *)
(* removal, a handler about to reply or the waiting IO thread holds it.    *)
Alive(c) ==
  \/ Listed(c)
  \/ \E i \in DOMAIN loopq : loopq[i] = c
  \/ \E h \in Handlers : task[h].phase = "reply" /\ task[h].job.chan = c
  \/ ioAt = "wait" /\ ioChan = c
-----------------------------------------------------------------------------
(* The peers and the clock. *)
Connect(c) ==
  /\ peer[c] = "none"
  /\ peer' = [peer EXCEPT ![c] = "connected"]
  /\ UNCHANGED <<loopVars, signalled, wbuf, quiet, ioVars, answered, jobs,
                 task, sent, inbox, delivered, crashed>>

SendPacket(c) ==
  /\ peer[c] = "connected"
  /\ sent[c] < MaxSend
  /\ sent' = [sent EXCEPT ![c] = @ + 1]
  /\ \E k \in Kinds :
       inbox' = [inbox EXCEPT ![c] =
                   Append(@, [kind |-> k, chan |-> c, n |-> sent[c] + 1])]
  /\ UNCHANGED <<loopVars, signalled, wbuf, quiet, ioVars, answered, jobs,
                 task, peer, delivered, crashed>>

HangUp(c) ==
  /\ peer[c] = "connected"
  /\ peer' = [peer EXCEPT ![c] = "gone"]
  /\ UNCHANGED <<loopVars, signalled, wbuf, quiet, ioVars, answered, jobs,
                 task, sent, inbox, delivered, crashed>>

FallQuiet(c) ==
  /\ Open(c)
  /\ quiet' = quiet \cup {c}
  /\ UNCHANGED <<loopVars, signalled, wbuf, ioVars, answered, jobs, task,
                 peerVars, delivered, crashed>>
-----------------------------------------------------------------------------
(* The IO thread. *)
FreeFds == Fds \ {sock[c] : c \in Conns}
Lowest(u, S) == u \in S /\ \A v \in S : u <= v

Backlog == {c \in Conns : peer[c] # "none" /\ uid[c] = NoFd}
CanAccept == Backlog # {} /\ FreeFds # {}
Readable(c) == Open(c) /\ (inbox[c] # <<>> \/ peer[c] = "gone")
(* findChannel(watcher->getUid()) in the callbacks of c's watchers. *)
Found(c) == channels[uid[c]] = c

(* onAccept, createChannel, addChannel. *)
Accept(c) ==
  /\ ioAt = "poll"
  /\ c \in Backlog
  /\ \E u \in FreeFds :
       /\ Lowest(u, FreeFds)
       /\ uid' = [uid EXCEPT ![c] = u]
       /\ sock' = [sock EXCEPT ![c] = u]
       /\ channels' = [channels EXCEPT ![u] = c]
  /\ UNCHANGED <<signalled, wbuf, quiet, loopq, ioVars, answered, jobs, task,
                 peerVars, delivered, crashed>>

(* doRead and handlePackets: everything received becomes jobs, once read() *)
(* says that there is no more.                                             *)
Read(c) ==
  /\ ioAt = "poll" /\ ~blocking
  /\ Readable(c) /\ Found(c) /\ peer[c] = "connected"
  /\ jobs' = jobs \o inbox[c]
  /\ inbox' = [inbox EXCEPT ![c] = <<>>]
  /\ quiet' = quiet \ {c}
  /\ UNCHANGED <<loopVars, signalled, wbuf, ioVars, answered, task, peer,
                 sent, delivered, crashed>>

(* It never does on a socket that blocks: onRead goes on until the peer    *)
(* hangs up, and hands on nothing.                                         *)
ReadBlocks(c) ==
  /\ ioAt = "poll" /\ blocking
  /\ Readable(c) /\ Found(c) /\ peer[c] = "connected"
  /\ ioAt' = "read" /\ ioChan' = c
  /\ UNCHANGED <<loopVars, signalled, wbuf, quiet, ioTodo, answered, jobs, task,
                 peerVars, delivered, crashed>>

(* Mutant: the callback of a hung-up connection forgets exec(). *)
WaitNoJob(c, todo) ==
  /\ ioAt' = "wait" /\ ioChan' = c /\ ioTodo' = todo
  /\ answered' = FALSE
  /\ jobs' = jobs

(* exec(handleClose or handleTimeout); future.get(). *)
WaitFor(c, todo) ==
  /\ ioAt' = "wait" /\ ioChan' = c /\ ioTodo' = todo
  /\ answered' = FALSE
  /\ jobs' = Append(jobs, Farewell(c))

(* onRead ends with read() = 0, which hides what it read before: the data  *)
(* stays in readBuf for good; then onReadError waits for handleClose.      *)
ReadEnd(c) ==
  /\ \/ ioAt = "poll" /\ Readable(c) /\ Found(c)
     \/ ioAt = "read" /\ ioChan = c
  /\ peer[c] = "gone"
  /\ inbox' = [inbox EXCEPT ![c] = <<>>]
  /\ quiet' = quiet \ {c}
  /\ WaitFor(c, {})
  /\ UNCHANGED <<loopVars, signalled, wbuf, task, peer, sent, delivered, crashed>>

(* Mutant: the signal of the destroyed writeWatcher stays pending. *)
CloseKeepsSignal(c) ==
  /\ sock' = [sock EXCEPT ![c] = NoFd]
  /\ UNCHANGED signalled

(* MyTcpChannel::close(): the socket and the watchers are deleted.         *)
Close(c) ==
  /\ sock' = [sock EXCEPT ![c] = NoFd]
  /\ signalled' = signalled \ {c}

(* Mutant: nothing is closed. *)
RemovedFromMapOnly(c) ==
  /\ channels' = [channels EXCEPT ![uid[c]] = None]
  /\ UNCHANGED <<sock, signalled>>

(* EventLoop::removeChannel and onIdle: erase() drops whatever the map     *)
(* holds under c's uid.                                                    *)
Removed(c) ==
  /\ Close(c)
  /\ channels' = [channels EXCEPT ![uid[c]] = None]

(* MyTcpChannel::onWrite: k packets go out, the buffer is emptied.         *)
Flush(c, k) ==
  /\ wbuf' = [wbuf EXCEPT ![c] = <<>>]
  /\ delivered' =
       IF peer[c] = "gone" THEN delivered
       ELSE [delivered EXCEPT ![c] = @ \o SubSeq(wbuf[c], 1, k)]

(* MyServant::onWrite: a short write removes the channel; a channel that   *)
(* is not in the map sends nothing.                                        *)
Write(c) ==
  /\ ioAt = "poll"
  /\ c \in signalled
  /\ IF Found(c)
     THEN \E k \in 0..Len(wbuf[c]) :
            /\ Flush(c, k)
            /\ IF k < Len(wbuf[c])
               THEN Removed(c)
               ELSE signalled' = signalled \ {c} /\ UNCHANGED <<channels, sock>>
     ELSE signalled' = signalled \ {c} /\ UNCHANGED <<channels, sock, wbuf, delivered>>
  /\ UNCHANGED <<uid, quiet, loopq, ioVars, answered, jobs, task, peerVars, crashed>>

(* SIGPIPE. *)
BrokenPipe(c) ==
  /\ ioAt = "poll"
  /\ c \in signalled /\ Found(c) /\ peer[c] = "gone" /\ wbuf[c] # <<>>
  /\ crashed' = TRUE
  /\ UNCHANGED <<loopVars, signalled, wbuf, quiet, ioVars, answered, jobs,
                 task, peerVars, delivered>>

(* queue_watcher_'s callback runs the posted removals until none is left. *)
RunPosted ==
  /\ ioAt \in {"poll", "tasks"}
  /\ loopq # <<>>
  /\ loopq' = Tail(loopq)
  /\ Removed(Head(loopq))
  /\ ioAt' = "tasks"
  /\ UNCHANGED <<uid, wbuf, quiet, ioChan, ioTodo, answered, jobs, task,
                 peerVars, delivered, crashed>>

PostedDone ==
  /\ ioAt = "tasks"
  /\ loopq = <<>>
  /\ ioAt' = "poll"
  /\ UNCHANGED <<loopVars, signalled, wbuf, quiet, ioChan, ioTodo, answered,
                 jobs, task, peerVars, delivered, crashed>>

Pending == CanAccept \/ loopq # <<>> \/ signalled # {} \/ \E c \in Conns : Readable(c)
Expired(S) == {u \in S : channels[u] # None /\ channels[u] \in quiet}

(* idle_watcher_ runs onIdle, which walks the map in the order of the uids.*)
IdleStart ==
  /\ ioAt = "poll" /\ ~Pending
  /\ Expired(Fds) # {}
  /\ ioAt' = "idle" /\ ioTodo' = Fds
  /\ UNCHANGED <<loopVars, signalled, wbuf, quiet, ioChan, answered, jobs,
                 task, peerVars, delivered, crashed>>

(* onTimeout of the next channel that is too old. *)
IdleTimeout ==
  /\ ioAt = "idle"
  /\ \E u \in Fds : /\ Lowest(u, Expired(ioTodo))
                    /\ WaitFor(channels[u], {v \in ioTodo : u < v})
  /\ UNCHANGED <<loopVars, signalled, wbuf, quiet, task, peerVars, delivered, crashed>>

IdleDone ==
  /\ ioAt = "idle"
  /\ Expired(ioTodo) = {}
  /\ ioAt' = "poll" /\ ioTodo' = {}
  /\ UNCHANGED <<loopVars, signalled, wbuf, quiet, ioChan, answered, jobs,
                 task, peerVars, delivered, crashed>>

(* future.get() returns: onReadError or onIdle removes the channel. *)
Resume ==
  /\ ioAt = "wait" /\ answered
  /\ Removed(ioChan)
  /\ ioAt' = IF ioTodo = {} THEN "poll" ELSE "idle"
  /\ ioChan' = None
  /\ answered' = FALSE
  /\ UNCHANGED <<uid, wbuf, quiet, loopq, ioTodo, jobs, task, peerVars,
                 delivered, crashed>>
-----------------------------------------------------------------------------
(* The handler threads. *)
Turn(h, phase, job) == task' = [task EXCEPT ![h] = [phase |-> phase, job |-> job]]
Rest(h) == task' = [task EXCEPT ![h] = NoTask]

Start(h) ==
  /\ task[h].phase = "idle" /\ jobs # <<>>
  /\ Turn(h, "run", Head(jobs))
  /\ jobs' = Tail(jobs)
  /\ UNCHANGED <<loopVars, signalled, wbuf, quiet, ioVars, answered, peerVars,
                 delivered, crashed>>

(* handleClose or handleTimeout has run: the future is ready. *)
RunFarewell(h) ==
  /\ task[h].phase = "run" /\ task[h].job.kind = "close"
  /\ answered' = TRUE
  /\ Rest(h)
  /\ UNCHANGED <<loopVars, signalled, wbuf, quiet, ioVars, jobs, peerVars,
                 delivered, crashed>>

(* handlePacket dispatches a call; sendPayload's lock() finds the channel. *)
RunCall(h) ==
  /\ task[h].phase = "run" /\ task[h].job.kind = "call"
  /\ IF Alive(task[h].job.chan) THEN Turn(h, "reply", task[h].job) ELSE Rest(h)
  /\ UNCHANGED <<loopVars, signalled, wbuf, quiet, ioVars, answered, jobs,
                 peerVars, delivered, crashed>>

(* Mutant: the reply goes to the channel that has the uid now. *)
ReplyByUid(h) ==
  LET d == channels[uid[task[h].job.chan]]
  IN /\ task[h].phase = "reply"
     /\ IF d # None
        THEN /\ wbuf' = [wbuf EXCEPT ![d] = Append(@, task[h].job)]
             /\ signalled' = signalled \cup {d}
        ELSE UNCHANGED <<wbuf, signalled>>
     /\ Rest(h)
     /\ UNCHANGED <<loopVars, quiet, ioVars, answered, jobs, peerVars,
                    delivered, crashed>>

(* Mutant: sendResponse fills the buffer and signals nobody. *)
ReplySilently(h) ==
  LET c == task[h].job.chan
  IN /\ task[h].phase = "reply"
     /\ wbuf' = [wbuf EXCEPT ![c] = Append(@, task[h].job)]
     /\ Rest(h)
     /\ UNCHANGED <<loopVars, signalled, quiet, ioVars, answered, jobs,
                    peerVars, delivered, crashed>>

(* sendResponse.  When close() came first writeWatcher is null. *)
Reply(h) ==
  LET c == task[h].job.chan
  IN /\ task[h].phase = "reply"
     /\ wbuf' = [wbuf EXCEPT ![c] = Append(@, task[h].job)]
     /\ IF Open(c)
        THEN signalled' = signalled \cup {c} /\ UNCHANGED crashed
        ELSE crashed' = TRUE /\ UNCHANGED signalled
     /\ Rest(h)
     /\ UNCHANGED <<loopVars, quiet, ioVars, answered, jobs, peerVars, delivered>>

(* A quit, or a packet dispatchPacket refuses: context->close() posts the  *)
(* removal of the channel if it is alive.                                  *)
RunBye(h) ==
  LET c == task[h].job.chan
  IN /\ task[h].phase = "run" /\ task[h].job.kind = "bye"
     /\ loopq' = IF Alive(c) THEN Append(loopq, c) ELSE loopq
     /\ Rest(h)
     /\ UNCHANGED <<channels, uid, sock, signalled, wbuf, quiet, ioVars,
                    answered, jobs, peerVars, delivered, crashed>>
-----------------------------------------------------------------------------
Peer(c) == Connect(c) \/ SendPacket(c) \/ HangUp(c) \/ FallQuiet(c)

IOOn(c) ==
  Accept(c) \/ Read(c) \/ ReadBlocks(c) \/ ReadEnd(c) \/ Write(c) \/ BrokenPipe(c)
IOLoop == RunPosted \/ PostedDone \/ IdleStart \/ IdleTimeout \/ IdleDone \/ Resume

Handle(h) == Start(h) \/ RunFarewell(h) \/ RunCall(h) \/ Reply(h) \/ RunBye(h)

(* As long as the process lives; its sockets remain what they are. *)
Running == ~crashed /\ UNCHANGED blocking

Next ==
  /\ Running
  /\ \/ \E c \in Conns : Peer(c) \/ IOOn(c)
     \/ IOLoop
     \/ \E h \in Handlers : Handle(h)

(* Handlers run; libev serves every watcher with an event pending in each  *)
(* turn of the loop, so each gets its turn even when another is always     *)
(* ready.  Nothing is assumed of the peers or the clock.                   *)
Fairness ==
  /\ \A h \in Handlers : WF_vars(Running /\ Handle(h))
  /\ \A c \in Conns : WF_vars(Running /\ IOOn(c))
  /\ WF_vars(Running /\ IOLoop)

Spec == Init /\ [][Next]_vars /\ Fairness
-----------------------------------------------------------------------------
TaskType ==
  [phase : {"run"}, job : Job] \cup [phase : {"reply"}, job : Packet] \cup {NoTask}

(* Types. *)
TypeOK ==
  /\ channels \in [Fds -> Conns \cup {None}]
  /\ uid \in [Conns -> Fds \cup {NoFd}]
  /\ sock \in [Conns -> Fds \cup {NoFd}]
  /\ signalled \subseteq Conns
  /\ wbuf \in [Conns -> Seq(Packet)]
  /\ quiet \subseteq Conns
  /\ loopq \in Seq(Conns)
  /\ ioAt \in {"poll", "tasks", "idle", "wait", "read"}
  /\ ioChan \in Conns \cup {None}
  /\ (ioChan = None) <=> (ioAt \notin {"wait", "read"})
  /\ ioTodo \subseteq Fds
  /\ answered \in BOOLEAN
  /\ jobs \in Seq(Job)
  /\ task \in [Handlers -> TaskType]
  /\ peer \in [Conns -> {"none", "connected", "gone"}]
  /\ sent \in [Conns -> 0..MaxSend]
  /\ inbox \in [Conns -> Seq(Packet)]
  /\ delivered \in [Conns -> Seq(Packet)]
  /\ crashed \in BOOLEAN /\ blocking \in BOOLEAN

(* A map entry is a channel that still owns the descriptor it is filed     *)
(* under: a callback that finds a channel by its uid never works on a      *)
(* closed one, although descriptors, and so uids, are used again.          *)
MapHoldsOpen ==
  \A u \in Fds : channels[u] # None => /\ sock[channels[u]] = u
                                       /\ uid[channels[u]] = u

(* No descriptor belongs to two channels, and one that is signalled to     *)
(* write is open.                                                          *)
OwnSocket ==
  /\ \A c, d \in Conns : Open(c) /\ sock[c] = sock[d] => c = d
  /\ \A c \in signalled : Open(c)

(* An open channel falls out of the map only where its descriptor was used *)
(* before or since: whoever has a descriptor for himself is never lost.    *)
LostToTwin ==
  \A c \in Conns : Open(c) /\ ~Listed(c) => \E d \in Conns \ {c} : uid[d] = uid[c]

(* The map and the sockets stay one to one through every order of accept,  *)
(* close and removal, but for channels that share a descriptor.            *)
ChannelsSound == MapHoldsOpen /\ OwnSocket /\ LostToTwin

(* The map loses an open channel in one way only, the removal that a       *)
(* handler posted (EventLoop::removeChannel by uid): no hang-up, timeout   *)
(* or short write takes out a channel that stays open.                     *)
OnlyPostedUnlists ==
  [][\A c \in Conns : Listed(c) /\ Open(c)' => Listed(c)' \/ RunPosted]_vars

Replies(c) == delivered[c] \o wbuf[c]

(* What a peer gets, or has buffered for it, answers calls it made on this *)
(* connection, each at most once, whatever connection has its descriptor.  *)
RepliesMatch ==
  \A c \in Conns :
    /\ \A i \in DOMAIN Replies(c) :
         /\ Replies(c)[i].chan = c
         /\ Replies(c)[i].kind = "call"
         /\ Replies(c)[i].n <= sent[c]
    /\ \A i, j \in DOMAIN Replies(c) : Replies(c)[i].n = Replies(c)[j].n => i = j

Holds(q, c, n) == \E i \in DOMAIN q : q[i].chan = c /\ q[i].n = n
Busy(h, c, n) ==
  task[h].phase # "idle" /\ task[h].job.chan = c /\ task[h].job.n = n

(* No call is lost on its way: what was sent on a connection that the map  *)
(* has and whose peer is there is unread, queued, with a handler, answered *)
(* or led to a removal that is posted; and a reply in the buffer has been  *)
(* signalled, so that somebody will send it.                               *)
CallsKept ==
  \A c \in Conns : Listed(c) =>
    /\ peer[c] = "connected" => \A n \in 1..sent[c] :
         \/ Holds(inbox[c], c, n) \/ Holds(jobs, c, n) \/ Holds(Replies(c), c, n)
         \/ \E h \in Handlers : Busy(h, c, n)
         \/ \E i \in DOMAIN loopq : loopq[i] = c
    /\ wbuf[c] # <<>> => c \in signalled

(* A call is neither lost nor answered twice nor answered to somebody else.*)
CallsServed == RepliesMatch /\ CallsKept

(* The IO thread never waits in vain: while future.get() blocks, the job   *)
(* it waits for is queued, being run, or done.                             *)
WaitHasJob ==
  ioAt = "wait" =>
    \/ answered
    \/ \E i \in DOMAIN jobs : jobs[i] = Farewell(ioChan)
    \/ \E h \in Handlers : task[h].phase = "run" /\ task[h].job = Farewell(ioChan)

(* EventLoop::channels is the map of the connections (EventLoop.h): every  *)
(* open channel is in it.                                                  *)
OpenIsListed == \A c \in Conns : Open(c) => Listed(c)

(* The IO thread sits in read() on a socket that blocks. *)
HeldUp == ioAt = "read" /\ peer[ioChan] = "connected"

(* A callback that waits for a handler returns, and the loop serves other  *)
(* connections again; from read() it returns when the peer hangs up.       *)
IOReturns == ioAt # "poll" ~> ioAt = "poll" \/ crashed \/ HeldUp

Gone(c) == uid[c] # NoFd /\ ~Open(c)

(* A process none of whose connections has ended, by hang-up or by being   *)
(* closed, does not die, however replies and removals overlap.             *)
DiesOfEndsOnly == crashed => \E c \in Conns : peer[c] = "gone" \/ Gone(c)

(* The loop neither waits in vain nor dies while all connections last.     *)
LoopStands == WaitHasJob /\ DiesOfEndsOnly

(* Nothing more is promised after the death of the process, while a peer   *)
(* holds the loop up, nor for an open connection that is not in the map    *)
(* and whose descriptor was another one's before: OpenIsListed shows how   *)
(* it comes to that.                                                       *)
Orphan(c) == Open(c) /\ ~Listed(c) /\ \E d \in Conns \ {c} : uid[d] = uid[c]
Excused(c) == crashed \/ HeldUp \/ Orphan(c)

(* When a peer has hung up, its socket is closed (no descriptor leaks).    *)
HangUpCloses ==
  \A c \in Conns : (uid[c] # NoFd /\ peer[c] = "gone" ~> Gone(c) \/ Excused(c))

(* Nobody reads from a connection that is not in the map: as long as it    *)
(* has data, there is always an event, and libev is never idle.            *)
Starved == \E d \in Conns : Orphan(d) /\ Readable(d)

(* A connection on which nothing is received for config.timeout is closed  *)
(* unless it speaks again first, or the loop is kept from being idle.      *)
QuietCloses ==
  \A c \in Conns :
    (Open(c) /\ c \in quiet
       ~> Gone(c) \/ c \notin quiet \/ Excused(c) \/ Starved)

(* A connection its handler asks to close is closed, also when both are    *)
(* asked for before the loop looks (MyContext::close, the posted removal). *)
ByeCloses ==
  \A c \in Conns :
    (\E h \in Handlers : task[h].phase = "run" /\ task[h].job.kind = "bye"
                         /\ task[h].job.chan = c)
      ~> Gone(c) \/ Excused(c)

(* No end of a connection is overlooked, whichever of the three comes      *)
(* first, also when several come before the loop looks; and what excuses   *)
(* one from it, the loss of an open channel, comes of posted removals.     *)
EndedCloses == HangUpCloses /\ QuietCloses /\ ByeCloses /\ OnlyPostedUnlists

(* Every call on an accepted connection is answered, unless the connection *)
(* is closed.                                                              *)
Answered ==
  \A c \in Conns : \A n \in 1..MaxSend :
    uid[c] # NoFd /\ sent[c] >= n ~>
      \/ \E i \in DOMAIN delivered[c] : delivered[c][i].n = n
      \/ Gone(c)
      \/ Excused(c)

(* The loop is never held up for good: it comes back from every future it  *)
(* waits on, and a call whose connection stays is answered.                *)
LoopServes == IOReturns /\ Answered
=============================================================================

----------------------------- MODULE UdpServant -----------------------------
(***************************************************************************)
(* A UDP servant with one loop (MyUdpServant, MyUdpChannel, EventLoop): one*)
(* socket for all peers, and a channel object for each peer, made when a   *)
(* datagram of a peer without one is read, filed under a hash of the       *)
(* peer's address, and removed by a handler's context->close(), an idle    *)
(* timeout or a broken write buffer.  A peer may come to have several      *)
(* channel objects one after the other, and they share their uid.          *)
(*                                                                         *)
(* The network is whatever arrives: lost, repeated and reordered requests  *)
(* are arrivals that do not happen, or happen again.  Each is one whole    *)
(* packet, or empty.  Of the handler pool's queue the first NumHandlers    *)
(* jobs that have a thread are running, and may end in any order.          *)
(* Taken from its use in src/: addresses have different hashes.            *)
(***************************************************************************)
EXTENDS Naturals, Sequences, FiniteSets, SequencesExt

CONSTANTS
  Peers,
  NumChans,     \* bound: channel objects made
  NumHandlers,  \* handler threads
  MaxArrivals,  \* bound: datagrams that reach the socket
  None

Chans == 1 .. NumChans

(* A null pointer is neither a peer nor a channel. *)
UdpConstants ==
  /\ NumChans \in Nat /\ MaxArrivals \in Nat
  /\ None \notin Peers /\ None \notin Chans

VARIABLES
  listed,       \* EventLoop::channels, by peer
  of,           \* the peer a channel object was made for
  open,         \* channels whose writeWatcher lives
  signalled,    \* of these, the ones that were signalled
  wbuf,         \* MyUdpChannel::writeBuf: replies behind their lengths
  quiet,        \* channels whose lastReceiveTime is config.timeout old
  loopq,        \* channels to remove, posted to the loop's queue_
  waitingFor,   \* the channel whose handler the loop waits for
  todo,         \* the peers onIdle has still to check
  inbox,        \* datagrams in the socket
  arrivals,
  jobs,         \* the handler pool's queue
  replying,     \* jobs that have locked their channel to reply
  sentTo,       \* replies the kernel has taken, by the peer they are sent to
  crashed

chanVars == <<listed, of, open>>
idleVars == <<waitingFor, todo>>
udpVars == <<listed, of, open, signalled, wbuf, quiet, loopq, waitingFor, todo,
          inbox, arrivals, jobs, replying, sentTo, crashed>>

Job(kind, c, n) == [kind |-> kind, chan |-> c, n |-> n]
Job0 == [kind : {"call", "bye", "farewell"}, chan : Chans, n : 0 .. MaxArrivals]

(* startServant: the socket and its read watcher. *)
UdpInit ==
  /\ listed = [p \in Peers |-> None]
  /\ of = [c \in Chans |-> None]
  /\ open = {} /\ signalled = {} /\ quiet = {}
  /\ wbuf = [c \in Chans |-> <<>>]
  /\ loopq = <<>>
  /\ waitingFor = None /\ todo = {}
  /\ inbox = <<>> /\ arrivals = 0
  /\ jobs = <<>> /\ replying = {}
  /\ sentTo = [p \in Peers |-> <<>>]
  /\ crashed = FALSE

Listed(c) == \E p \in Peers : listed[p] = c
(* The loop is in none of its callbacks. *)
Polling == waitingFor = None /\ todo = {}

(* What comes behind an empty datagram is left out: it is never read.      *)
Arrive(p) ==
  /\ arrivals < MaxArrivals
  /\ \A i \in DOMAIN inbox : inbox[i].kind # "empty"
  /\ arrivals' = arrivals + 1
  /\ \E k \in {"call", "bye", "empty"} :
       inbox' = Append(inbox, [peer |-> p, kind |-> k, n |-> arrivals + 1])
  /\ UNCHANGED <<chanVars, signalled, wbuf, quiet, loopq, idleVars, jobs,
                 replying, sentTo, crashed>>

FallQuiet(c) ==
  /\ c \in open
  /\ quiet' = quiet \cup {c}
  /\ UNCHANGED <<chanVars, signalled, wbuf, loopq, idleVars, inbox, arrivals,
                 jobs, replying, sentTo, crashed>>
-----------------------------------------------------------------------------
(* The loop. *)

(* createChannel: a new object with a write watcher is put into the map. *)
CreateChannel(c, p) ==
  /\ of[c] = None /\ \A d \in 1 .. c - 1 : of[d] # None
  /\ of' = [of EXCEPT ![c] = p]
  /\ open' = open \cup {c}
  /\ listed' = [listed EXCEPT ![p] = c]

(* MyUdpChannel::onRead and handlePackets: the datagram becomes a job.     *)
ReadInto(c, d) ==
  /\ jobs' = Append(jobs, Job(d.kind, c, d.n))
  /\ quiet' = quiet \ {c}

(* onRead peeks at the next datagram.  An empty one is taken for an error  *)
(* and left where it is, so the socket is readable for good and whatever   *)
(* comes behind it is never read.                                          *)
Readable == Polling /\ inbox # <<>> /\ Head(inbox).kind # "empty"

FindOrCreate(c, p) ==
  \/ listed[p] = c /\ UNCHANGED chanVars
  \/ listed[p] = None /\ CreateChannel(c, p)

(* onRead: find or create the sender's channel, and read.                  *)
Receive ==
  /\ Readable
  /\ LET d == Head(inbox)
     IN \E c \in Chans : FindOrCreate(c, d.peer) /\ ReadInto(c, d)
  /\ inbox' = Tail(inbox)
  /\ UNCHANGED <<signalled, wbuf, loopq, idleVars, arrivals, replying, sentTo,
                 crashed>>

(* recvfrom() fails after the peek (a bad checksum, no memory): the        *)
(* datagram is lost or stays; with EAGAIN that is all, otherwise           *)
(* onReadError() has handleClose() run, and waits for it.                  *)
ReadFails ==
  /\ Readable
  /\ \E c \in Chans :
       /\ FindOrCreate(c, Head(inbox).peer)
       /\ \/ UNCHANGED <<waitingFor, jobs>>
          \/ waitingFor' = c /\ jobs' = Append(jobs, Job("farewell", c, 0))
  /\ inbox' \in {inbox, Tail(inbox)}
  /\ UNCHANGED <<signalled, wbuf, quiet, loopq, todo, arrivals, replying, sentTo,
                 crashed>>

(* sendto() takes some of the replies, in their order. *)
Sending(c) ==
  \E k \in 0 .. Len(wbuf[c]) : \E at \in [1 .. k -> DOMAIN wbuf[c]] :
    /\ \A i, j \in 1 .. k : i < j => at[i] < at[j]
    /\ sentTo' = [sentTo EXCEPT ![of[c]] =
                   @ \o [i \in 1 .. k |-> wbuf[c][at[i]]]]

(* Mutant: the buffer is sent and kept. *)
FlushKeeps(c) == Sending(c) /\ wbuf' = wbuf

(* MyUdpChannel::onWrite: a reply sendto() does not take is dropped, and   *)
(* the next is tried.                                                      *)
Flush(c) == Sending(c) /\ wbuf' = [wbuf EXCEPT ![c] = <<>>]

(* MyServant::onWrite: the watcher's uid finds whichever channel is filed  *)
(* under it now.                                                           *)
Write(c) ==
  /\ Polling /\ c \in signalled
  /\ signalled' = signalled \ {c}
  /\ IF listed[of[c]] # None
     THEN Flush(listed[of[c]])
     ELSE UNCHANGED <<wbuf, sentTo>>
  /\ UNCHANGED <<chanVars, quiet, loopq, idleVars, inbox, arrivals, jobs,
                 replying, crashed>>

(* Mutant: the channel is closed and stays in the map. *)
DroppedNotErased(c) == open' = open \ {c} /\ listed' = listed

(* removeChannel: close() destroys the watchers, not the shared socket,    *)
(* and erase() drops whatever is filed under the uid.                      *)
Dropped(c) ==
  /\ open' = open \ {c}
  /\ listed' = [listed EXCEPT ![of[c]] = None]

Removed(c) == Dropped(c) /\ signalled' = signalled \ {c}

(* MyServant::onWrite finds a length that the buffer does not hold (growing*)
(* the buffer loses bytes, see SKBuffer) and removes the channel.  Nobody  *)
(* looks at what is left in it again.                                      *)
WriteFails(c) ==
  LET x == listed[of[c]]
  IN /\ Polling /\ c \in signalled
     /\ x # None /\ wbuf[x] # <<>>
     /\ Flush(x)
     /\ Dropped(x) /\ signalled' = signalled \ {c, x}
     /\ UNCHANGED <<of, quiet, loopq, idleVars, inbox, arrivals, jobs, replying,
                    crashed>>

(* The queue watcher's callback. *)
RunPosted ==
  /\ Polling /\ loopq # <<>>
  /\ Removed(Head(loopq))
  /\ loopq' = Tail(loopq)
  /\ UNCHANGED <<of, wbuf, quiet, idleVars, inbox, arrivals, jobs, replying,
                 sentTo, crashed>>

(* onIdle goes through the map when nothing else is pending. *)
Expired(S) == {p \in S : listed[p] # None /\ listed[p] \in quiet}

Idle ==
  /\ Polling /\ inbox = <<>> /\ signalled = {} /\ loopq = <<>>
  /\ Expired(Peers) # {}
  /\ todo' = Expired(Peers)
  /\ UNCHANGED <<chanVars, signalled, wbuf, quiet, loopq, waitingFor, inbox,
                 arrivals, jobs, replying, sentTo, crashed>>

(* checkTimeout: handleTimeout is run by a handler, and waited for. *)
TimeOut(p) ==
  /\ waitingFor = None /\ p \in Expired(todo)
  /\ waitingFor' = listed[p]
  /\ jobs' = Append(jobs, Job("farewell", listed[p], 0))
  /\ UNCHANGED <<chanVars, signalled, wbuf, quiet, loopq, todo, inbox, arrivals,
                 replying, sentTo, crashed>>
-----------------------------------------------------------------------------
(* The handlers. *)
Farewells(c) == \E i \in DOMAIN jobs : jobs[i] = Job("farewell", c, 0)

(* The future is ready: the loop closes the channel and goes on. *)
Resume ==
  /\ waitingFor # None /\ ~Farewells(waitingFor)
  /\ Removed(waitingFor)
  /\ waitingFor' = None
  /\ todo' = todo \ {of[waitingFor]}
  /\ UNCHANGED <<of, wbuf, quiet, loopq, inbox, arrivals, jobs, replying,
                 sentTo, crashed>>

(* What makes a context's weak_ptr::lock() succeed. *)
Alive(c) ==
  \/ Listed(c) \/ waitingFor = c
  \/ \E i \in DOMAIN loopq : loopq[i] = c
  \/ \E j \in replying : j.chan = c

(* A running job ends, or gets to its reply: a call locks its channel, a   *)
(* bye posts the removal of its channel (MyContext::close), a farewell     *)
(* fulfils its future.                                                     *)
Handle ==
  /\ \E i \in DOMAIN jobs :
       /\ i + Cardinality(replying) <= NumHandlers
       /\ jobs' = RemoveAt(jobs, i)
       /\ LET j == jobs[i]
          IN /\ replying' = IF j.kind = "call" /\ Alive(j.chan)
                            THEN replying \cup {j} ELSE replying
             /\ loopq' = IF j.kind = "bye" /\ Alive(j.chan)
                         THEN Append(loopq, j.chan) ELSE loopq
  /\ UNCHANGED <<chanVars, signalled, wbuf, quiet, idleVars, inbox, arrivals,
                 sentTo, crashed>>

(* Mutant: the reply is buffered and nobody is signalled. *)
ReplySilently(j) ==
  /\ replying' = replying \ {j}
  /\ wbuf' = [wbuf EXCEPT ![j.chan] = Append(@, j)]
  /\ UNCHANGED <<chanVars, signalled, quiet, loopq, idleVars, inbox, arrivals,
                 jobs, sentTo, crashed>>

(* sendResponse; writeWatcher is null once close() has run. *)
Reply(j) ==
  /\ replying' = replying \ {j}
  /\ wbuf' = [wbuf EXCEPT ![j.chan] = Append(@, j)]
  /\ signalled' = signalled \cup ({j.chan} \cap open)
  /\ crashed' = (j.chan \notin open)
  /\ UNCHANGED <<chanVars, quiet, loopq, idleVars, inbox, arrivals, jobs, sentTo>>
-----------------------------------------------------------------------------
Loop ==
  \/ Receive \/ ReadFails \/ RunPosted \/ Idle \/ Resume
  \/ \E p \in Peers : TimeOut(p)

UdpNext ==
  /\ ~crashed
  /\ \/ \E p \in Peers : Arrive(p)
     \/ \E c \in Chans : FallQuiet(c) \/ Write(c) \/ WriteFails(c)
     \/ Loop \/ Handle
     \/ \E j \in replying : Reply(j)

UdpSpec == UdpInit /\ [][UdpNext]_udpVars
-----------------------------------------------------------------------------
UdpTypeOK ==
  /\ listed \in [Peers -> Chans \cup {None}]
  /\ of \in [Chans -> Peers \cup {None}]
  /\ open \subseteq Chans /\ signalled \subseteq open /\ quiet \subseteq Chans
  /\ wbuf \in [Chans -> Seq(Job0)]
  /\ loopq \in Seq(Chans)
  /\ waitingFor \in Chans \cup {None} /\ todo \subseteq Peers
  /\ inbox \in Seq([peer : Peers, kind : {"call", "bye", "empty"}, n : 1 .. MaxArrivals])
  /\ arrivals \in 0 .. MaxArrivals
  /\ jobs \in Seq(Job0) /\ replying \subseteq Job0
  /\ sentTo \in [Peers -> Seq(Job0)]
  /\ crashed \in BOOLEAN

(* A peer is served by one channel: what the map holds for a peer is an    *)
(* open channel of that peer, and an open channel is in the map unless the *)
(* removal of an older channel of its peer came late and took it out.      *)
OneServes ==
  /\ \A p \in Peers : listed[p] # None => listed[p] \in open /\ of[listed[p]] = p
  /\ \A c \in open : Listed(c) \/ \E d \in 1 .. c - 1 : of[d] = of[c]

(* However handlers overtake each other and channels come and go, a reply  *)
(* goes to the peer whose call it answers, at most once.                   *)
RepliesOnce ==
  \A p \in Peers :
    /\ \A i \in DOMAIN sentTo[p] : of[sentTo[p][i].chan] = p
    /\ \A i, j \in DOMAIN sentTo[p] : sentTo[p][i].n = sentTo[p][j].n => i = j

(* A reply in the write buffer of a peer's channel has somebody signalled  *)
(* to send it, whichever channels of the peer were signalled or closed     *)
(* before.                                                                 *)
BufferSignalled ==
  \A c \in Chans : Listed(c) /\ wbuf[c] # <<>> => c \in signalled
=============================================================================

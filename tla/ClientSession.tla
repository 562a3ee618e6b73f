---------------------------- MODULE ClientSession ---------------------------
(***************************************************************************)
(* The calls made on one client connection (net/client/MySession.h,        *)
(* MyProxy.h, MyProxy.cc, MyClient.cc): calling threads that build and     *)
(* send sessions, the loop thread that writes, reads responses and runs    *)
(* session timers, and the handler pool that runs the callbacks.           *)
(* The connection's own life (connect, disconnect, reconnect) is left out: *)
(* a request or a response that it loses is one that never arrives.  A     *)
(* request id is the client's uid and the second of the call; with one     *)
(* client the second is the id.                                            *)
(***************************************************************************)
EXTENDS Naturals, Sequences, FiniteSets, SequencesExt

CONSTANTS
  Async,       \* sessions sent with execute()
  Sync,        \* sessions sent with executeAndWait()
  None,
  Handlers,    \* size of handlerExecutor
  Timeout,     \* config.timeout, seconds
  LastSecond,  \* bound: the last second in which a call starts
  Datagrams    \* a UDP client: a response may arrive more than once

Calls == Async \cup Sync

ASSUME SessionAssumption ==
  /\ None \notin Calls \cup Nat
  /\ Async \cap Sync = {}
  /\ Handlers \in Nat \ {0}
  /\ Timeout \in Nat \ {0}
  /\ LastSecond \in Nat
  /\ Datagrams \in BOOLEAN

VARIABLES
  now,       \* MyTimeProvider::now()
  pc,        \* how far each session's caller is
  id,        \* requestId
  requests,  \* MyClient::requests
  posted,    \* writes queued for the loop
  wire,      \* requests on their way to the server
  replies,   \* responses on their way back
  jobs,      \* handlerExecutor: queued and running jobs, oldest first
  left,      \* seconds left on a session's timer or on its caller's wait
  outcome,   \* what was done with each session, in order
  removed,   \* the loop's clients map has dropped the client
  mixed,     \* libev may have mixed up the loop's timers
  torn       \* the run has ended in undefined behaviour

vars == <<now, pc, id, requests, posted, wire, replies, jobs, left, outcome,
          removed, mixed, torn>>

Seconds == 0..LastSecond

Init ==
  /\ now = 0
  /\ pc = [c \in Calls |-> "start"]
  /\ id = [c \in Calls |-> None]
  /\ requests = [i \in Seconds |-> None]
  /\ posted = <<>> /\ wire = {} /\ replies = {} /\ jobs = <<>>
  /\ left = [c \in Calls |-> None]
  /\ outcome = [c \in Calls |-> <<>>]
  /\ removed = FALSE /\ mixed = FALSE /\ torn = FALSE

(* Who holds the shared_ptr of the client: the loop's map, queued writes,  *)
(* and the calls inside buildSession, execute or executeAndWait.           *)
ClientAlive ==
  \/ ~removed
  \/ posted # <<>>
  \/ \E c \in Calls : pc[c] \in {"adding", "sent", "waiting"}

(* Who holds the shared_ptr of a session: the client's requests, a queued  *)
(* or running job, and its caller until execute returns.                   *)
SessionAlive(c) ==
  \/ ClientAlive /\ \E i \in Seconds : requests[i] = c
  \/ \E k \in DOMAIN jobs : jobs[k].session = c
  \/ pc[c] \in {"adding", "built", "sent", "waiting"}

Goto(c, from, to) == pc[c] = from /\ pc' = [pc EXCEPT ![c] = to]

(* The requests map has no lock: with another thread inside addSession the *)
(* outcome is undefined, and the run may end here.                         *)
UseRequests(others) ==
  torn' \in (IF \E c \in others : pc[c] = "adding" THEN BOOLEAN ELSE {FALSE})

Finish(c, what, of) ==
  outcome' = [outcome EXCEPT ![c] = Append(@, [what |-> what, of |-> of])]
-----------------------------------------------------------------------------
(* The callers. *)

(* buildSession() up to the new session and its id. *)
Build(c) ==
  /\ ~torn /\ ClientAlive /\ now <= LastSecond
  /\ Goto(c, "start", "adding")
  /\ id' = [id EXCEPT ![c] = now]
  /\ UNCHANGED <<now, requests, posted, wire, replies, jobs, left, outcome,
                 removed, mixed, torn>>

(* buildSession() without a client: execute() finds it gone. *)
BuildClosed(c) ==
  /\ ~torn /\ ~ClientAlive
  /\ Goto(c, "start", "closed")
  /\ UNCHANGED <<now, id, requests, posted, wire, replies, jobs, left,
                 outcome, removed, mixed, torn>>

(* addSession() *)
Add(c) ==
  /\ ~torn
  /\ Goto(c, "adding", "built")
  /\ requests' = [requests EXCEPT ![id[c]] = c]
  /\ UseRequests(Calls \ {c})
  /\ UNCHANGED <<now, id, posted, wire, replies, jobs, left, outcome, removed, mixed>>

Closed(c) ==
  /\ ~torn /\ ~ClientAlive
  /\ Goto(c, "built", "closed")
  /\ UNCHANGED <<now, id, requests, posted, wire, replies, jobs, left,
                 outcome, removed, mixed, torn>>

(* execute(): the write is handed to the loop ... *)
Send(c) ==
  /\ ~torn /\ ClientAlive /\ c \in Async
  /\ Goto(c, "built", "sent")
  /\ posted' = Append(posted, c)
  /\ UNCHANGED <<now, id, requests, wire, replies, jobs, left, outcome,
                 removed, mixed, torn>>

(* ... then the timer is started, whatever happened to the session, and    *)
(* beside the loop's thread, which may be using the timers.                *)
Arm(c) ==
  /\ ~torn
  /\ Goto(c, "sent", "done")
  /\ left' = [left EXCEPT ![c] = Timeout]
  /\ mixed' \in {mixed, TRUE}
  /\ UNCHANGED <<now, id, requests, posted, wire, replies, jobs, outcome,
                 removed, torn>>

(* Mutant: get() in place of wait_for(). *)
SendAndWaitForEver(c) ==
  /\ ~torn /\ ClientAlive /\ c \in Sync
  /\ Goto(c, "built", "waiting")
  /\ posted' = Append(posted, c)
  /\ UNCHANGED <<now, id, requests, wire, replies, jobs, left, outcome,
                 removed, mixed, torn>>

(* executeAndWait(): the write is handed over and the wait begins. *)
SendAndWait(c) ==
  /\ ~torn /\ ClientAlive /\ c \in Sync
  /\ Goto(c, "built", "waiting")
  /\ posted' = Append(posted, c)
  /\ left' = [left EXCEPT ![c] = Timeout]
  /\ UNCHANGED <<now, id, requests, wire, replies, jobs, outcome, removed, mixed,
                 torn>>

PromiseSet(c) == \E k \in DOMAIN outcome[c] : outcome[c][k].what = "then"

Got(c) ==
  /\ ~torn /\ PromiseSet(c)
  /\ Goto(c, "waiting", "got")
  /\ left' = [left EXCEPT ![c] = None]
  /\ UNCHANGED <<now, id, requests, posted, wire, replies, jobs, outcome,
                 removed, mixed, torn>>

(* The wait is over; the session stays in requests. *)
GiveUp(c) ==
  /\ ~torn /\ ~PromiseSet(c) /\ left[c] = 0
  /\ Goto(c, "waiting", "gave up")
  /\ left' = [left EXCEPT ![c] = None]
  /\ UNCHANGED <<now, id, requests, posted, wire, replies, jobs, outcome,
                 removed, mixed, torn>>
-----------------------------------------------------------------------------
(* The server and the clock. *)

Answer(c, ok) ==
  /\ ~torn /\ c \in wire
  /\ wire' = wire \ {c}
  /\ replies' = replies \cup {[of |-> c, ok |-> ok]}
  /\ UNCHANGED <<now, pc, id, requests, posted, jobs, left, outcome, removed, mixed,
                 torn>>

Tick ==
  /\ ~torn
  /\ now <= LastSecond \/ \E c \in Calls : left[c] \notin {None, 0}
  /\ now' = IF now <= LastSecond THEN now + 1 ELSE now
  /\ left' = [c \in Calls |-> IF left[c] \in {None, 0} THEN left[c]
                                                     ELSE left[c] - 1]
  /\ UNCHANGED <<pc, id, requests, posted, wire, replies, jobs, outcome,
                 removed, mixed, torn>>
-----------------------------------------------------------------------------
(* The loop thread. *)

(* sendPayload()'s task *)
Write ==
  /\ ~torn /\ posted # <<>>
  /\ posted' = Tail(posted)
  /\ wire' = wire \cup {Head(posted)}
  /\ UNCHANGED <<now, pc, id, requests, replies, jobs, left, outcome, removed, mixed,
                 torn>>

Consume(r) ==
  replies' \in {replies \ {r}} \cup (IF Datagrams THEN {replies} ELSE {})

(* Mutant: handlePacket takes the oldest request instead of the right one. *)
ReceiveOldest(r) ==
  /\ ~torn /\ ~removed /\ r \in replies
  /\ \E i \in Seconds :
       /\ requests[i] # None
       /\ \A j \in Seconds : j < i => requests[j] = None
       /\ requests' = [requests EXCEPT ![i] = None]
       /\ jobs' = Append(jobs, [session |-> requests[i], of |-> r.of,
                                ok |-> r.ok])
  /\ Consume(r)
  /\ UseRequests(Calls)
  /\ UNCHANGED <<now, pc, id, posted, wire, left, outcome, removed, mixed>>

(* Mutant: handlePacket leaves the session in requests. *)
ReceiveKeeps(r) ==
  /\ ~torn /\ ~removed /\ r \in replies
  /\ requests[id[r.of]] # None
  /\ Consume(r)
  /\ jobs' = Append(jobs, [session |-> requests[id[r.of]], of |-> r.of,
                           ok |-> r.ok])
  /\ UseRequests(Calls)
  /\ UNCHANGED <<now, pc, id, requests, posted, wire, left, outcome, removed, mixed>>

(* handlePacket(): the session leaves requests before the payload is read. *)
ReceiveKnown(r) ==
  /\ ~torn /\ ~removed /\ r \in replies
  /\ requests[id[r.of]] # None
  /\ Consume(r)
  /\ requests' = [requests EXCEPT ![id[r.of]] = None]
  /\ jobs' = Append(jobs, [session |-> requests[id[r.of]], of |-> r.of,
                           ok |-> r.ok])
  /\ UseRequests(Calls)
  /\ UNCHANGED <<now, pc, id, posted, wire, left, outcome, removed, mixed>>

ReceiveUnknown(r) ==
  /\ ~torn /\ ~removed /\ r \in replies
  /\ requests[id[r.of]] = None
  /\ Consume(r)
  /\ UseRequests(Calls)
  /\ UNCHANGED <<now, pc, id, requests, posted, wire, jobs, left, outcome,
                 removed, mixed>>

(* Mutant: the timer only removes. *)
FireSilently(c) ==
  /\ ~torn /\ c \in Async /\ left[c] = 0
  /\ left' = [left EXCEPT ![c] = None]
  /\ IF ClientAlive
     THEN requests' = [requests EXCEPT ![id[c]] = None] /\ UseRequests(Calls)
     ELSE UNCHANGED <<requests, torn>>
  /\ UNCHANGED <<now, pc, id, posted, wire, replies, jobs, outcome, removed, mixed>>

(* whenSessionTimeout()'s timer: the callback if the session still exists, *)
(* then whatever is filed under the id is removed.                         *)
Fire(c) ==
  /\ ~torn /\ c \in Async /\ left[c] = 0
  /\ left' = [left EXCEPT ![c] = None]
  /\ IF SessionAlive(c) THEN Finish(c, "timeout", c) ELSE UNCHANGED outcome
  /\ IF ClientAlive
     THEN requests' = [requests EXCEPT ![id[c]] = None] /\ UseRequests(Calls)
     ELSE UNCHANGED <<requests, torn>>
  /\ UNCHANGED <<now, pc, id, posted, wire, replies, jobs, removed, mixed>>

(* Timers that were mixed up may be gone, or invoked when they do not      *)
(* exist: the run ends there.                                              *)
MixUp ==
  /\ ~torn /\ mixed
  /\ \/ \E Lost \in SUBSET Async :
          left' = [c \in Calls |-> IF c \in Lost THEN None ELSE left[c]]
        /\ UNCHANGED torn
     \/ torn' = TRUE /\ UNCHANGED left
  /\ UNCHANGED <<now, pc, id, requests, posted, wire, replies, jobs, outcome,
                 removed, mixed>>

(* The client leaves the loop's map: a disconnect without autoReconnect,   *)
(* or a new configuration without its host.                                *)
RemoveClient ==
  /\ ~torn /\ ~removed
  /\ removed' = TRUE
  /\ UNCHANGED <<now, pc, id, requests, posted, wire, replies, jobs, left,
                 outcome, mixed, torn>>
-----------------------------------------------------------------------------
(* doSuccessAction.  Before execute() the caller may not have attached     *)
(* then() yet, and before executeAndWait() isAsync is still TRUE: a        *)
(* response to another call with the same id can come that early.          *)
Completion(j) ==
  IF ~j.ok THEN {"undecoded"}
  ELSE IF pc[j.session] # "built" THEN {"then"}
  ELSE IF j.session \in Async THEN {"then", "early"} ELSE {"early"}

(* A handler thread ends one of the running jobs. *)
RunJob(k) ==
  /\ ~torn /\ k \in DOMAIN jobs /\ k <= Handlers
  /\ jobs' = RemoveAt(jobs, k)
  /\ \E what \in Completion(jobs[k]) : Finish(jobs[k].session, what, jobs[k].of)
  /\ UNCHANGED <<now, pc, id, requests, posted, wire, replies, left, removed, mixed,
                 torn>>

Call(c) ==
  \/ Build(c) \/ BuildClosed(c) \/ Add(c) \/ Closed(c)
  \/ Send(c) \/ Arm(c) \/ SendAndWait(c) \/ Got(c) \/ GiveUp(c)

Receive(r) == ReceiveKnown(r) \/ ReceiveUnknown(r)

Next ==
  \/ \E c \in Calls : Call(c) \/ Fire(c) \/ \E ok \in BOOLEAN : Answer(c, ok)
  \/ \E r \in replies : Receive(r)
  \/ \E k \in 1..Handlers : RunJob(k)
  \/ Write \/ Tick \/ MixUp \/ RemoveClient

(* Callers return from what they are in, the loop serves its queue, its    *)
(* sockets and its timers, handlers end their jobs, time passes.  Nothing  *)
(* is assumed of the server or of who removes the client.                  *)
Fairness ==
  /\ \A c \in Calls :
       WF_vars(Call(c) /\ pc[c] # "start") /\ WF_vars(Fire(c))
  /\ \A c \in Calls, ok \in BOOLEAN : WF_vars(Receive([of |-> c, ok |-> ok]))
  /\ WF_vars(RunJob(1)) /\ WF_vars(Write) /\ WF_vars(Tick)

Spec == Init /\ [][Next]_vars /\ Fairness
-----------------------------------------------------------------------------
Outcomes ==
  [what : {"then", "early", "timeout", "undecoded"}, of : Calls]

(* The types of the variables; the bound on now is the model's. *)
TypeOK ==
  /\ now \in 0..(LastSecond + 1)
  /\ pc \in [Calls -> {"start", "adding", "built", "sent", "waiting", "done",
                       "got", "gave up", "closed"}]
  /\ id \in [Calls -> Seconds \cup {None}]
  /\ requests \in [Seconds -> Calls \cup {None}]
  /\ posted \in Seq(Calls) /\ wire \subseteq Calls
  /\ replies \subseteq [of : Calls, ok : BOOLEAN]
  /\ jobs \in Seq([session : Calls, of : Calls, ok : BOOLEAN])
  /\ left \in [Calls -> (0..Timeout) \cup {None}]
  /\ outcome \in [Calls -> Seq(Outcomes)]
  /\ removed \in BOOLEAN /\ mixed \in BOOLEAN /\ torn \in BOOLEAN

Shared(c) == \E d \in Calls \ {c} : id[d] = id[c]

Added(c) == pc[c] \notin {"start", "adding"} /\ id[c] # None

Recorded(c) ==
  \/ requests[id[c]] = c
  \/ \E k \in DOMAIN jobs : jobs[k].session = c
  \/ outcome[c] # <<>>

Times(c, what) ==
  Cardinality({k \in DOMAIN outcome[c] : outcome[c][k].what \in what})

(* A call that is alone in its second is completed with the response to    *)
(* itself (findSession by request id).                                     *)
OwnResponse ==
  \A c \in Calls : \A k \in DOMAIN outcome[c] :
    outcome[c][k].of = c \/ Shared(c)

(* A session is completed by a response once at most, however often        *)
(* responses arrive and whatever ids are shared: a second set_value on its *)
(* promise would throw (removeSession before the job is queued).           *)
CompletedOnce ==
  \A c \in Calls : Times(c, {"then", "early", "undecoded"}) <= 1

(* A call that is alone in its second stays findable until its response    *)
(* has come or its timeout was reported: no timer or response of another   *)
(* session removes it (whenSessionTimeout, handlePacket).                  *)
NoneForgotten == \A c \in Calls : Added(c) /\ ~Shared(c) => Recorded(c)

(* Nobody waits for nothing: whoever is inside executeAndWait has its time *)
(* limit running; and a call that is alone in its second, was sent with    *)
(* execute() and has not ended has its timer running or its response       *)
(* queued, as long as the client is there and no timer was started beside  *)
(* the loop's use of them.                                                 *)
Awaited ==
  /\ \A c \in Calls : pc[c] = "waiting" => left[c] # None
  /\ \A c \in Async :
       pc[c] = "done" /\ ~Shared(c) /\ ClientAlive /\ ~mixed =>
         \/ outcome[c] # <<>>
         \/ \E k \in DOMAIN jobs : jobs[k].session = c
         \/ left[c] # None

(* Calls are remembered, and something is there to end each. *)
CallsTended == NoneForgotten /\ Awaited

(* An asynchronous session in requests has its timer started or about to   *)
(* be, and will be removed, unless the timers were mixed up (execute; a    *)
(* caller that gives up leaves its session in requests for good, so        *)
(* nothing is said of those).                                              *)
NoLeak ==
  \A i \in Seconds : requests[i] \in Async =>
    LET c == requests[i] IN
    pc[c] \in {"built", "sent"} \/ left[c] # None \/ ~ClientAlive \/ mixed

(* The promise of the comment at MyClient::requests, "all requests already *)
(* sent": a session that was added is there until its response or timeout, *)
(* also when another call is made in the same second.                      *)
AllRecorded == \A c \in Calls : Added(c) => Recorded(c)

(* executeAndWait() returns, answered or not. *)
WaitEnds == \A c \in Sync : pc[c] = "waiting" ~> pc[c] # "waiting" \/ torn

(* A call that is alone in its second and was sent with execute() ends in  *)
(* then, timeout, or a response nobody can decode, unless the client is    *)
(* removed or the loop's timers are mixed up.                              *)
Settled ==
  \A c \in Async :
    pc[c] = "done" ~>
      outcome[c] # <<>> \/ Shared(c) \/ removed \/ mixed \/ torn

(* Nobody is kept waiting for a response that does not come. *)
CallsEnd == WaitEnds /\ Settled
=============================================================================

------------------------ MODULE ClientSessionProofs -------------------------
(***************************************************************************)
(* Proofs about ClientSession, for any number of calls, handlers, seconds  *)
(* and for both transports.                                                *)
(***************************************************************************)
EXTENDS ClientSession, FiniteSetTheorems, TLAPS

Jobs == [session : Calls, of : Calls, ok : BOOLEAN]

LEMMA SequenceTypes ==
  ASSUME TypeOK
  PROVE posted \in Seq(Calls) /\ jobs \in Seq(Jobs)
BY DEF TypeOK, Jobs

(* SessionAssumption keeps None apart from every number. *)
LEMMA NoneIsNoSecond == \A i \in Nat : i # None
BY SessionAssumption

(* RemoveAt drops one element and keeps the order of the others. *)
LEMMA Removal ==
  ASSUME NEW S, NEW q \in Seq(S), NEW k \in DOMAIN q
  PROVE /\ RemoveAt(q, k) \in Seq(S)
        /\ Len(RemoveAt(q, k)) = Len(q) - 1
        /\ \A m \in 1..(Len(q) - 1) :
             RemoveAt(q, k)[m] = q[IF m < k THEN m ELSE m + 1]
<1> DEFINE front == SubSeq(q, 1, k - 1)
           back == SubSeq(q, k + 1, Len(q))
<1>1. k \in 1..Len(q) /\ Len(q) \in Nat
  OBVIOUS
<1>2. front \in Seq(S) /\ Len(front) = k - 1
      /\ \A m \in 1..(k - 1) : front[m] = q[m]
  BY <1>1
<1>3. back \in Seq(S) /\ Len(back) = Len(q) - k
      /\ \A m \in 1..(Len(q) - k) : back[m] = q[m + k]
  BY <1>1
<1>4. RemoveAt(q, k) = front \o back
  BY DEF RemoveAt
<1> HIDE DEF front, back
<1>5. front \o back \in Seq(S) /\ Len(front \o back) = Len(q) - 1
  BY <1>1, <1>2, <1>3
<1>6. ASSUME NEW m \in 1..(Len(q) - 1)
      PROVE (front \o back)[m] = q[IF m < k THEN m ELSE m + 1]
  <2>1. CASE m < k
    BY <2>1, <1>1, <1>2, <1>3
  <2>2. CASE ~(m < k)
    <3>1. (front \o back)[m] = back[m - (k - 1)]
      BY SMTT(30), <2>2, <1>1, <1>2, <1>3
    <3>2. m - (k - 1) \in 1..(Len(q) - k) /\ (m - (k - 1)) + k = m + 1
      BY <2>2, <1>1
    <3> QED BY <2>2, <3>1, <3>2, <1>3
  <2> QED BY <2>1, <2>2
<1> QED BY <1>4, <1>5, <1>6

(* What is left of a queue of jobs when one is done. *)
LEMMA JobsLeft ==
  ASSUME TypeOK, NEW k \in DOMAIN jobs, jobs' = RemoveAt(jobs, k)
  PROVE /\ jobs' \in Seq(Jobs)
        /\ \A m1, m2 \in DOMAIN jobs' :
             \E n1, n2 \in DOMAIN jobs \ {k} :
               /\ jobs'[m1] = jobs[n1] /\ jobs'[m2] = jobs[n2]
               /\ m1 # m2 => n1 # n2
        /\ \A n \in DOMAIN jobs \ {k} :
             \E m \in DOMAIN jobs' : jobs'[m] = jobs[n]
<1>1. jobs \in Seq(Jobs)
  BY DEF TypeOK, Jobs
<1>2. /\ jobs' \in Seq(Jobs) /\ Len(jobs') = Len(jobs) - 1
      /\ \A m \in 1..(Len(jobs) - 1) :
           jobs'[m] = jobs[IF m < k THEN m ELSE m + 1]
  BY <1>1, Removal
<1>3. DOMAIN jobs = 1..Len(jobs) /\ Len(jobs) \in Nat /\ k \in 1..Len(jobs)
  BY <1>1
<1>4. DOMAIN jobs' = 1..(Len(jobs) - 1)
  BY <1>2
<1>5. ASSUME NEW m1 \in DOMAIN jobs', NEW m2 \in DOMAIN jobs'
      PROVE \E n1, n2 \in DOMAIN jobs \ {k} :
              /\ jobs'[m1] = jobs[n1] /\ jobs'[m2] = jobs[n2]
              /\ m1 # m2 => n1 # n2
  <2> DEFINE n(m) == IF m < k THEN m ELSE m + 1
  <2>1. /\ n(m1) \in DOMAIN jobs \ {k} /\ n(m2) \in DOMAIN jobs \ {k}
        /\ m1 # m2 => n(m1) # n(m2)
    BY <1>3, <1>4
  <2>2. jobs'[m1] = jobs[n(m1)] /\ jobs'[m2] = jobs[n(m2)]
    BY <1>2, <1>4
  <2> QED BY <2>1, <2>2
<1>6. ASSUME NEW n \in DOMAIN jobs \ {k}
      PROVE \E m \in DOMAIN jobs' : jobs'[m] = jobs[n]
  <2> DEFINE m == IF n < k THEN n ELSE n - 1
  <2>1. m \in DOMAIN jobs'
    BY <1>3, <1>4
  <2>2. (IF m < k THEN m ELSE m + 1) = n
    BY <1>3
  <2> QED BY <2>1, <2>2, <1>2, <1>4
<1> QED BY <1>2, <1>5, <1>6

LEMMA AppendedOutcome ==
  ASSUME TypeOK, NEW c \in Calls, NEW of \in Calls,
         NEW what \in {"then", "early", "timeout", "undecoded"},
         Finish(c, what, of)
  PROVE /\ outcome' \in [Calls -> Seq(Outcomes)]
        /\ DOMAIN outcome'[c] = DOMAIN outcome[c] \cup {Len(outcome[c]) + 1}
        /\ outcome'[c][Len(outcome[c]) + 1] = [what |-> what, of |-> of]
        /\ \A k \in DOMAIN outcome[c] : outcome'[c][k] = outcome[c][k]
        /\ \A d \in Calls \ {c} : outcome'[d] = outcome[d]
<1>1. outcome[c] \in Seq(Outcomes)
  BY DEF TypeOK
<1>2. [what |-> what, of |-> of] \in Outcomes
  BY DEF Outcomes
<1>3. outcome'[c] = Append(outcome[c], [what |-> what, of |-> of])
  BY DEF Finish, TypeOK
<1>4. outcome' \in [Calls -> Seq(Outcomes)]
  <2>1. Append(outcome[c], [what |-> what, of |-> of]) \in Seq(Outcomes)
    BY <1>1, <1>2
  <2>2. outcome \in [Calls -> Seq(Outcomes)]
    BY DEF TypeOK
  <2> QED BY <2>1, <2>2 DEF Finish
<1>5. \A d \in Calls \ {c} : outcome'[d] = outcome[d]
  BY DEF Finish, TypeOK
<1> QED BY <1>1, <1>2, <1>3, <1>4, <1>5

LEMMA TornType ==
  ASSUME NEW S, UseRequests(S)
  PROVE torn' \in BOOLEAN
BY DEF UseRequests
-----------------------------------------------------------------------------
LEMMA InitType == Init => TypeOK
<1> SUFFICES ASSUME Init PROVE TypeOK
  OBVIOUS
<1>1. <<>> \in Seq(Calls) /\ <<>> \in Seq(Jobs) /\ <<>> \in Seq(Outcomes)
  OBVIOUS
<1>2. 0 \in 0..(LastSecond + 1)
  BY SessionAssumption
<1> QED BY <1>1, <1>2 DEF Init, TypeOK, Jobs

(* The callers. *)
LEMMA CallType ==
  ASSUME TypeOK, NEW c \in Calls, Call(c)
  PROVE TypeOK'
<1>0. Timeout \in 0..Timeout
  BY SessionAssumption
<1>1. CASE Build(c)
  <2>1. now \in 0..(LastSecond + 1) /\ now <= LastSecond
    BY <1>1 DEF Build, TypeOK
  <2>2. now \in Seconds
    BY <2>1, SessionAssumption DEF Seconds
  <2> QED BY <1>1, <2>2 DEF Build, Goto, TypeOK
<1>2. CASE BuildClosed(c)
  BY <1>2 DEF BuildClosed, Goto, TypeOK
<1>3. CASE Add(c)
  BY <1>3, TornType DEF Add, Goto, TypeOK
<1>4. CASE Closed(c)
  BY <1>4 DEF Closed, Goto, TypeOK
<1>5. CASE Send(c)
  <2>1. posted' \in Seq(Calls)
    BY <1>5, SequenceTypes DEF Send
  <2> QED BY <1>5, <2>1 DEF Send, Goto, TypeOK
<1>6. CASE Arm(c)
  BY <1>0, <1>6 DEF Arm, Goto, TypeOK
<1>7. CASE SendAndWait(c)
  <2>1. posted' \in Seq(Calls)
    BY <1>7, SequenceTypes DEF SendAndWait
  <2>2. left' \in [Calls -> (0..Timeout) \cup {None}]
    BY <1>0, <1>7 DEF SendAndWait, TypeOK
  <2> QED BY <1>7, <2>1, <2>2 DEF SendAndWait, Goto, TypeOK
<1>8. CASE Got(c)
  BY <1>8 DEF Got, Goto, TypeOK
<1>9. CASE GiveUp(c)
  BY <1>9 DEF GiveUp, Goto, TypeOK
<1> QED BY <1>1, <1>2, <1>3, <1>4, <1>5, <1>6, <1>7, <1>8, <1>9 DEF Call

LEMMA ConsumeType ==
  ASSUME TypeOK, NEW r \in replies, Consume(r)
  PROVE /\ replies' \subseteq replies
        /\ r.of \in Calls /\ r.ok \in BOOLEAN
BY DEF TypeOK, Consume

LEMMA ReceiveType ==
  ASSUME TypeOK, NEW r \in replies, id[r.of] # None, Receive(r)
  PROVE TypeOK'
<1>0. Consume(r)
  BY DEF Receive, ReceiveKnown, ReceiveUnknown
<1>1. replies' \subseteq [of : Calls, ok : BOOLEAN]
      /\ r.of \in Calls /\ r.ok \in BOOLEAN
  BY <1>0, ConsumeType DEF TypeOK
<1>2. CASE ReceiveKnown(r)
  <2>1. requests[id[r.of]] \in Calls
    BY <1>1, <1>2 DEF ReceiveKnown, TypeOK
  <2>2. [session |-> requests[id[r.of]], of |-> r.of, ok |-> r.ok] \in Jobs
    BY <1>1, <2>1 DEF Jobs
  <2>3. jobs' \in Seq(Jobs)
    BY <1>2, <2>2, SequenceTypes DEF ReceiveKnown
  <2>4. requests' \in [Seconds -> Calls \cup {None}] /\ torn' \in BOOLEAN
    BY <1>2, TornType DEF ReceiveKnown, TypeOK
  <2> QED BY <1>1, <1>2, <2>3, <2>4 DEF ReceiveKnown, TypeOK, Jobs
<1>3. CASE ReceiveUnknown(r)
  BY <1>1, <1>3, TornType DEF ReceiveUnknown, TypeOK
<1> QED BY <1>2, <1>3 DEF Receive

LEMMA FireType ==
  ASSUME TypeOK, NEW c \in Calls, Fire(c)
  PROVE TypeOK'
<1>1. outcome' \in [Calls -> Seq(Outcomes)]
  <2>1. CASE Finish(c, "timeout", c)
    BY <2>1, AppendedOutcome
  <2>2. CASE UNCHANGED outcome
    BY <2>2 DEF TypeOK
  <2> QED BY <2>1, <2>2 DEF Fire
<1>2. requests' \in [Seconds -> Calls \cup {None}] /\ torn' \in BOOLEAN
  BY TornType DEF Fire, TypeOK
<1>3. left' \in [Calls -> (0..Timeout) \cup {None}]
  BY DEF Fire, TypeOK
<1> QED BY <1>1, <1>2, <1>3 DEF Fire, TypeOK

LEMMA RunJobType ==
  ASSUME TypeOK, NEW k \in 1..Handlers, RunJob(k)
  PROVE TypeOK'
<1>1. k \in DOMAIN jobs /\ jobs' = RemoveAt(jobs, k)
  BY DEF RunJob
<1>2. jobs' \in Seq(Jobs)
  BY <1>1, JobsLeft
<1>3. jobs[k] \in Jobs
  BY <1>1, SequenceTypes
<1>4. PICK what \in Completion(jobs[k]) : Finish(jobs[k].session, what, jobs[k].of)
  BY DEF RunJob
<1>5. what \in {"then", "early", "timeout", "undecoded"}
  BY <1>4 DEF Completion
<1>6. outcome' \in [Calls -> Seq(Outcomes)]
  BY <1>3, <1>4, <1>5, AppendedOutcome DEF Jobs
<1> QED BY <1>2, <1>6 DEF RunJob, TypeOK, Jobs

LEMMA ClockType ==
  ASSUME TypeOK, Tick
  PROVE TypeOK'
<1>1. now' \in 0..(LastSecond + 1)
  <2>1. now \in 0..(LastSecond + 1) /\ LastSecond \in Nat
    BY SessionAssumption DEF TypeOK
  <2>2. now' = IF now <= LastSecond THEN now + 1 ELSE now
    BY DEF Tick
  <2> QED BY <2>1, <2>2
<1>2. ASSUME NEW c \in Calls, left[c] \notin {None, 0}
      PROVE left[c] - 1 \in 0..Timeout
  <2>1. left[c] \in 0..Timeout /\ left[c] # 0
    BY <1>2 DEF TypeOK
  <2> QED BY <2>1, SessionAssumption
<1>3. left' \in [Calls -> (0..Timeout) \cup {None}]
  BY <1>2 DEF Tick, TypeOK
<1> QED BY <1>1, <1>3 DEF Tick, TypeOK
-----------------------------------------------------------------------------
(* The inductive invariant. *)

(* A session has an id from buildSession on. *)
Ids ==
  \A c \in Calls :
    /\ pc[c] = "start" => id[c] = None
    /\ pc[c] \notin {"start", "closed"} => id[c] # None

(* execute and executeAndWait are called on sessions of their kind, and    *)
(* execute starts the timer last.                                          *)
Kinds ==
  \A c \in Calls :
    /\ pc[c] \in {"sent", "done"} => c \in Async
    /\ pc[c] \in {"waiting", "got", "gave up"} => c \in Sync
    /\ left[c] # None => pc[c] \in {"waiting", "done"}

(* Requests and responses under way belong to sessions that were added. *)
OnWay ==
  /\ \A k \in DOMAIN posted : Added(posted[k])
  /\ \A c \in wire : Added(c)
  /\ \A r \in replies : Added(r.of)

(* Sessions in requests are filed under their own ids. *)
Filed ==
  \A i \in Seconds : requests[i] # None =>
    Added(requests[i]) /\ id[requests[i]] = i

(* A response is matched with a session that has its id. *)
JobsFit ==
  \A k \in DOMAIN jobs :
    /\ Added(jobs[k].session) /\ Added(jobs[k].of)
    /\ id[jobs[k].of] = id[jobs[k].session]

OutcomesFit ==
  \A c \in Calls : \A k \in DOMAIN outcome[c] :
    Added(c) /\ Added(outcome[c][k].of) /\ id[outcome[c][k].of] = id[c]

Base == TypeOK /\ Ids /\ Kinds /\ OnWay /\ Filed /\ JobsFit /\ OutcomesFit

LEMMA InitBase == Init => Base
<1> SUFFICES ASSUME Init PROVE Base
  OBVIOUS
<1>1. TypeOK
  BY InitType
<1>2. Ids /\ Kinds /\ Filed
  BY DEF Init, Ids, Kinds, Filed
<1>3. OnWay /\ JobsFit /\ OutcomesFit
  BY DEF Init, OnWay, JobsFit, OutcomesFit
<1> QED BY <1>1, <1>2, <1>3 DEF Base

(* What a step may do to the map, the jobs and the outcomes. *)
LEMMA Effects ==
  ASSUME Next
  PROVE \/ UNCHANGED <<requests, jobs, outcome>>
        \/ \E c \in Calls : Add(c)
        \/ \E r \in replies : ReceiveKnown(r)
        \/ \E c \in Calls : Fire(c)
        \/ \E k \in 1..Handlers : RunJob(k)
<1>1. ASSUME NEW c \in Calls, Call(c), ~Add(c)
      PROVE UNCHANGED <<requests, jobs, outcome>>
  BY <1>1 DEF Call, Build, BuildClosed, Closed, Send, Arm, SendAndWait, Got,
              GiveUp
<1>2. ASSUME NEW c \in Calls, NEW ok \in BOOLEAN, Answer(c, ok)
      PROVE UNCHANGED <<requests, jobs, outcome>>
  BY <1>2 DEF Answer
<1>3. ASSUME NEW r \in replies, Receive(r), ~ReceiveKnown(r)
      PROVE UNCHANGED <<requests, jobs, outcome>>
  BY <1>3 DEF Receive, ReceiveUnknown
<1>4. ASSUME Write \/ Tick \/ MixUp \/ RemoveClient
      PROVE UNCHANGED <<requests, jobs, outcome>>
  BY <1>4 DEF Write, Tick, MixUp, RemoveClient
<1> QED BY <1>1, <1>2, <1>3, <1>4 DEF Next

(* Ids do not change once a session was added. *)
LEMMA Stable ==
  ASSUME Base, Next, NEW c \in Calls, Added(c)
  PROVE Added(c)' /\ id'[c] = id[c]
<1>0. pc \in [Calls -> {"start", "adding", "built", "sent", "waiting", "done",
                       "got", "gave up", "closed"}]
      /\ id \in [Calls -> Seconds \cup {None}]
  BY DEF Base, TypeOK
<1>1. ASSUME NEW d \in Calls, Call(d)
      PROVE Added(c)' /\ id'[c] = id[c]
  <2>1. CASE d = c
    BY <1>0, <1>1, <2>1 DEF Added, Call, Build, BuildClosed, Add, Closed, Send,
          Arm, SendAndWait, Got, GiveUp, Goto
  <2>2. CASE d # c
    BY <1>0, <1>1, <2>2 DEF Added, Call, Build, BuildClosed, Add, Closed, Send,
          Arm, SendAndWait, Got, GiveUp, Goto
  <2> QED BY <2>1, <2>2
<1>2. CASE ~\E d \in Calls : Call(d)
  <2>1. UNCHANGED <<pc, id>>
    BY <1>2 DEF Next, Fire, Answer, Receive, ReceiveKnown, ReceiveUnknown,
                RunJob, Write, Tick, MixUp, RemoveClient
  <2> QED BY <2>1 DEF Added
<1> QED BY <1>1, <1>2
-----------------------------------------------------------------------------
LEMMA NextType ==
  ASSUME Base, Next
  PROVE TypeOK'
<1>0. TypeOK
  BY DEF Base
<1>1. ASSUME NEW c \in Calls, Call(c) PROVE TypeOK'
  BY <1>0, <1>1, CallType
<1>2. ASSUME NEW c \in Calls, Fire(c) PROVE TypeOK'
  BY <1>0, <1>2, FireType
<1>3. ASSUME NEW c \in Calls, NEW ok \in BOOLEAN, Answer(c, ok) PROVE TypeOK'
  <2>1. replies' \subseteq [of : Calls, ok : BOOLEAN] /\ wire' \subseteq Calls
    <3>1. /\ replies \subseteq [of : Calls, ok : BOOLEAN]
          /\ wire \subseteq Calls
      BY <1>0 DEF TypeOK
    <3>2. [of |-> c, ok |-> ok] \in [of : Calls, ok : BOOLEAN]
      OBVIOUS
    <3> QED BY <1>3, <3>1, <3>2 DEF Answer
  <2> QED BY <1>0, <1>3, <2>1 DEF Answer, TypeOK
<1>4. ASSUME NEW r \in replies, Receive(r) PROVE TypeOK'
  <2>1. id[r.of] # None
    BY DEF Base, OnWay, Added
  <2> QED BY <1>0, <1>4, <2>1, ReceiveType
<1>5. ASSUME NEW k \in 1..Handlers, RunJob(k) PROVE TypeOK'
  BY <1>0, <1>5, RunJobType
<1>6. CASE Write
  <2>1. Head(posted) \in Calls /\ Tail(posted) \in Seq(Calls)
    BY <1>0, <1>6, SequenceTypes DEF Write
  <2> QED BY <1>0, <1>6, <2>1 DEF Write, TypeOK
<1>7. CASE Tick
  BY <1>0, <1>7, ClockType
<1>8. CASE RemoveClient
  BY <1>0, <1>8 DEF RemoveClient, TypeOK
<1>9. CASE MixUp
  <2>1. left' \in [Calls -> (0..Timeout) \cup {None}] /\ torn' \in BOOLEAN
    BY <1>0, <1>9 DEF MixUp, TypeOK
  <2> QED BY <1>0, <1>9, <2>1 DEF MixUp, TypeOK
<1> QED BY <1>1, <1>2, <1>3, <1>4, <1>5, <1>6, <1>7, <1>8, <1>9 DEF Next

LEMMA NextIds ==
  ASSUME Base, Next
  PROVE Ids'
<1>0. Ids /\ TypeOK /\ pc \in [Calls -> {"start", "adding", "built", "sent",
        "waiting", "done", "got", "gave up", "closed"}]
      /\ id \in [Calls -> Seconds \cup {None}]
  BY DEF Base, TypeOK
<1>1. ASSUME NEW c \in Calls, Build(c) PROVE Ids'
  <2>1. now # None
    <3>1. now \in 0..(LastSecond + 1)
      BY <1>0 DEF TypeOK
    <3>2. now \in Nat
      BY <3>1
    <3> QED BY <3>2, NoneIsNoSecond
  <2> QED BY <1>0, <1>1, <2>1 DEF Build, Goto, Ids
<1>2. ASSUME NEW c \in Calls, Call(c), ~Build(c) PROVE Ids'
  BY <1>0, <1>2 DEF Ids, Call, BuildClosed, Add, Closed, Send, Arm,
          SendAndWait, Got, GiveUp, Goto
<1>3. CASE ~\E c \in Calls : Call(c)
  <2>1. UNCHANGED <<pc, id>>
    BY <1>3 DEF Next, Fire, Answer, Receive, ReceiveKnown, ReceiveUnknown,
                RunJob, Write, Tick, MixUp, RemoveClient
  <2> QED BY <1>0, <2>1 DEF Ids
<1> QED BY <1>1, <1>2, <1>3

LEMMA NextKinds ==
  ASSUME Base, Next
  PROVE Kinds'
<1>0. Kinds /\ pc \in [Calls -> {"start", "adding", "built", "sent",
        "waiting", "done", "got", "gave up", "closed"}]
      /\ left \in [Calls -> (0..Timeout) \cup {None}]
  BY DEF Base, TypeOK
<1>1. ASSUME NEW c \in Calls, Call(c) PROVE Kinds'
  BY <1>0, <1>1 DEF Kinds, Call, Build, BuildClosed, Add, Closed, Send, Arm,
          SendAndWait, Got, GiveUp, Goto
<1>2. CASE ~\E c \in Calls : Call(c)
  <2>1. UNCHANGED pc
    BY <1>2 DEF Next, Fire, Answer, Receive, ReceiveKnown, ReceiveUnknown,
                RunJob, Write, Tick, MixUp, RemoveClient
  <2>2. \A c \in Calls : left'[c] # None => left[c] # None
    BY <1>0, <1>2 DEF Next, Fire, Answer, Receive, ReceiveKnown,
            ReceiveUnknown, RunJob, Write, Tick, MixUp, RemoveClient
  <2> QED BY <1>0, <2>1, <2>2 DEF Kinds
<1> QED BY <1>1, <1>2

LEMMA NextOnWay ==
  ASSUME Base, Next
  PROVE OnWay'
<1>0. /\ \A k \in DOMAIN posted : posted[k] \in Calls /\ Added(posted[k])
      /\ posted \in Seq(Calls)
      /\ \A c \in wire : c \in Calls /\ Added(c)
      /\ \A r \in replies : r.of \in Calls /\ Added(r.of)
  <2>1. TypeOK /\ OnWay
    BY DEF Base
  <2>2. posted \in Seq(Calls)
    BY <2>1, SequenceTypes
  <2>3. \A k \in DOMAIN posted : posted[k] \in Calls
    BY <2>2
  <2>4. wire \subseteq Calls /\ replies \subseteq [of : Calls, ok : BOOLEAN]
    BY <2>1 DEF TypeOK
  <2> QED BY <2>1, <2>2, <2>3, <2>4 DEF OnWay
<1>1. \A c \in Calls : Added(c) => Added(c)'
  BY Stable
<1>2. ASSUME NEW c \in Calls, Send(c) \/ SendAndWait(c) PROVE OnWay'
  <2>1. Added(c)
    BY <1>2 DEF Send, SendAndWait, Goto, Added, Base, Ids
  <2>2. posted' = Append(posted, c) /\ UNCHANGED <<wire, replies>>
    BY <1>2 DEF Send, SendAndWait
  <2>3. \A k \in DOMAIN posted' :
          posted'[k] \in Calls /\ Added(posted'[k])
    BY <1>0, <2>1, <2>2
  <2> QED BY <1>0, <1>1, <2>2, <2>3 DEF OnWay
<1>3. CASE Write
  <2>1. Head(posted) \in Calls /\ Added(Head(posted))
    BY <1>0, <1>3 DEF Write
  <2>2. \A k \in DOMAIN Tail(posted) :
          Tail(posted)[k] \in Calls /\ Added(Tail(posted)[k])
    BY <1>0, <1>3 DEF Write
  <2> QED BY <1>0, <1>1, <1>3, <2>1, <2>2 DEF Write, OnWay
<1>4. ASSUME NEW c \in Calls, NEW ok \in BOOLEAN, Answer(c, ok) PROVE OnWay'
  BY <1>0, <1>1, <1>4 DEF Answer, OnWay
<1>5. ASSUME UNCHANGED <<posted, wire>>, replies' \subseteq replies
      PROVE OnWay'
  BY <1>0, <1>1, <1>5 DEF OnWay
<1>6. ASSUME NEW r \in replies, Receive(r)
      PROVE UNCHANGED <<posted, wire>> /\ replies' \subseteq replies
  BY <1>6 DEF Receive, ReceiveKnown, ReceiveUnknown, Consume
<1>7. ASSUME NEW c \in Calls, Call(c), ~Send(c), ~SendAndWait(c)
      PROVE UNCHANGED <<posted, wire, replies>>
  BY <1>7 DEF Call, Build, BuildClosed, Add, Closed, Arm, Got, GiveUp
<1>8. ASSUME NEW c \in Calls, Fire(c)
      PROVE UNCHANGED <<posted, wire, replies>>
  BY <1>8 DEF Fire
<1>9. ASSUME (\E k \in 1..Handlers : RunJob(k)) \/ Tick \/ MixUp \/ RemoveClient
      PROVE UNCHANGED <<posted, wire, replies>>
  BY <1>9 DEF RunJob, Tick, MixUp, RemoveClient
<1> QED BY <1>2, <1>3, <1>4, <1>5, <1>6, <1>7, <1>8, <1>9 DEF Next

LEMMA NextFiled ==
  ASSUME Base, Next
  PROVE Filed'
<1>0. /\ \A c \in Calls : Added(c) => Added(c)' /\ id'[c] = id[c]
      /\ \A i \in Seconds : requests[i] # None =>
           requests[i] \in Calls /\ Added(requests[i]) /\ id[requests[i]] = i
      /\ requests \in [Seconds -> Calls \cup {None}]
  BY Stable DEF Base, Filed, TypeOK
<1>1. CASE \A i \in Seconds : requests'[i] \in {None, requests[i]}
  BY <1>0, <1>1 DEF Filed
<1>2. ASSUME NEW c \in Calls, Add(c) PROVE Filed'
  <2>1. Added(c)' /\ id'[c] = id[c]
    BY <1>2 DEF Add, Goto, Added, Base, Ids, TypeOK
  <2>2. \A i \in Seconds : requests'[i] = IF i = id[c] THEN c ELSE requests[i]
    BY <1>0, <1>2 DEF Add
  <2> QED BY <1>0, <2>1, <2>2 DEF Filed
<1>3. ASSUME NEW r \in replies, ReceiveKnown(r)
      PROVE \A i \in Seconds : requests'[i] \in {None, requests[i]}
  BY <1>0, <1>3 DEF ReceiveKnown
<1>4. ASSUME NEW c \in Calls, Fire(c)
      PROVE \A i \in Seconds : requests'[i] \in {None, requests[i]}
  BY <1>0, <1>4 DEF Fire
<1>5. ASSUME NEW k \in 1..Handlers, RunJob(k) PROVE UNCHANGED requests
  BY <1>5 DEF RunJob
<1>6. CASE UNCHANGED requests
  BY <1>0, <1>6 DEF Filed
<1> QED BY <1>1, <1>2, <1>3, <1>4, <1>5, <1>6, Effects

LEMMA JobTypes ==
  ASSUME Base
  PROVE \A k \in DOMAIN jobs :
          /\ jobs[k].session \in Calls /\ jobs[k].of \in Calls
          /\ Added(jobs[k].session) /\ Added(jobs[k].of)
          /\ id[jobs[k].of] = id[jobs[k].session]
<1>1. \A k \in DOMAIN jobs : jobs[k] \in Jobs
  BY SequenceTypes DEF Base
<1> QED BY <1>1 DEF Base, JobsFit, Jobs

LEMMA NextJobsFit ==
  ASSUME Base, Next
  PROVE JobsFit'
<1>0. /\ \A c \in Calls : Added(c) => Added(c)' /\ id'[c] = id[c]
      /\ \A k \in DOMAIN jobs :
           /\ jobs[k].session \in Calls /\ jobs[k].of \in Calls
           /\ Added(jobs[k].session) /\ Added(jobs[k].of)
           /\ id[jobs[k].of] = id[jobs[k].session]
  BY Stable, JobTypes
<1>1. ASSUME NEW r \in replies, ReceiveKnown(r) PROVE JobsFit'
  <2> DEFINE s == requests[id[r.of]]
             j == [session |-> s, of |-> r.of, ok |-> r.ok]
  <2>1. r.of \in Calls /\ Added(r.of)
    BY DEF Base, TypeOK, OnWay
  <2>2. id[r.of] \in Seconds
    BY <2>1 DEF Added, Base, TypeOK
  <2>3. s \in Calls /\ Added(s) /\ id[s] = id[r.of]
    BY <1>1, <2>2 DEF ReceiveKnown, Base, TypeOK, Filed
  <2>4. jobs' = Append(jobs, j) /\ jobs \in Seq(Jobs)
    BY <1>1, SequenceTypes DEF ReceiveKnown, Base
  <2> HIDE DEF s
  <2>5. \A k \in DOMAIN jobs' :
          (k \in DOMAIN jobs /\ jobs'[k] = jobs[k]) \/ jobs'[k] = j
    BY <2>4
  <2> QED BY <1>0, <2>1, <2>3, <2>5 DEF JobsFit
<1>2. ASSUME NEW k \in 1..Handlers, RunJob(k) PROVE JobsFit'
  <2>1. \A m \in DOMAIN jobs' : \E n \in DOMAIN jobs : jobs'[m] = jobs[n]
    BY <1>2, JobsLeft DEF RunJob, Base
  <2> QED BY <1>0, <2>1 DEF JobsFit
<1>3. CASE UNCHANGED jobs
  BY <1>0, <1>3 DEF JobsFit
<1>4. ASSUME NEW c \in Calls, Add(c) \/ Fire(c) PROVE UNCHANGED jobs
  BY <1>4 DEF Add, Fire
<1> QED BY <1>1, <1>2, <1>3, <1>4, Effects

LEMMA OutcomeTypes ==
  ASSUME Base
  PROVE \A c \in Calls : \A k \in DOMAIN outcome[c] :
          /\ outcome[c][k].of \in Calls /\ Added(c) /\ Added(outcome[c][k].of)
          /\ id[outcome[c][k].of] = id[c]
<1>1. \A c \in Calls : outcome[c] \in Seq(Outcomes)
  BY DEF Base, TypeOK
<1>2. \A c \in Calls : \A k \in DOMAIN outcome[c] : outcome[c][k] \in Outcomes
  BY <1>1
<1> QED BY <1>2 DEF Base, OutcomesFit, Outcomes

(* Finishing an added session with a response to a call of the same id. *)
LEMMA FinishFits ==
  ASSUME Base, Next, NEW c \in Calls, NEW of \in Calls,
         NEW what \in {"then", "early", "timeout", "undecoded"},
         Finish(c, what, of), Added(c), Added(of), id[of] = id[c]
  PROVE OutcomesFit'
<1>1. \A d \in Calls : Added(d) => Added(d)' /\ id'[d] = id[d]
  BY Stable
<1>2. /\ DOMAIN outcome'[c] = DOMAIN outcome[c] \cup {Len(outcome[c]) + 1}
      /\ outcome'[c][Len(outcome[c]) + 1] = [what |-> what, of |-> of]
      /\ \A k \in DOMAIN outcome[c] : outcome'[c][k] = outcome[c][k]
      /\ \A d \in Calls \ {c} : outcome'[d] = outcome[d]
  <2>1. TypeOK
    BY DEF Base
  <2>2. DOMAIN outcome'[c] = DOMAIN outcome[c] \cup {Len(outcome[c]) + 1}
    BY <2>1, AppendedOutcome
  <2>3. outcome'[c][Len(outcome[c]) + 1] = [what |-> what, of |-> of]
    BY <2>1, AppendedOutcome
  <2>4. \A k \in DOMAIN outcome[c] : outcome'[c][k] = outcome[c][k]
    BY <2>1, AppendedOutcome
  <2>5. \A d \in Calls \ {c} : outcome'[d] = outcome[d]
    BY <2>1, AppendedOutcome
  <2> QED BY <2>2, <2>3, <2>4, <2>5
<1>3. ASSUME NEW d \in Calls, NEW k \in DOMAIN outcome'[d]
      PROVE \E x \in Calls :
              /\ outcome'[d][k].of = x
              /\ Added(d) /\ Added(x) /\ id[x] = id[d]
  <2>1. CASE d # c \/ k \in DOMAIN outcome[c]
    <3>1. outcome'[d][k] = outcome[d][k] /\ k \in DOMAIN outcome[d]
      BY <1>2, <2>1
    <3> QED BY <3>1, OutcomeTypes
  <2>2. CASE d = c /\ k = Len(outcome[c]) + 1
    BY <1>2, <2>2
  <2> QED BY <1>2, <2>1, <2>2
<1>4. ASSUME NEW d \in Calls, NEW x \in Calls, Added(d), Added(x), id[x] = id[d]
      PROVE Added(d)' /\ Added(x)' /\ id'[x] = id'[d]
  BY <1>1, <1>4
<1> QED BY <1>3, <1>4 DEF OutcomesFit

LEMMA NextOutcomesFit ==
  ASSUME Base, Next
  PROVE OutcomesFit'
<1>0. \A c \in Calls : Added(c) => Added(c)' /\ id'[c] = id[c]
  BY Stable
<1>1. CASE UNCHANGED outcome
  BY <1>0, <1>1, OutcomeTypes DEF OutcomesFit
<1>2. ASSUME NEW c \in Calls, Fire(c) PROVE OutcomesFit'
  <2>1. Added(c)
    <3>1. left[c] # None /\ c \in Async
      BY <1>2, NoneIsNoSecond DEF Fire
    <3> QED BY <3>1 DEF Base, Kinds, Ids, Added
  <2>2. CASE Finish(c, "timeout", c)
    BY <2>1, <2>2, FinishFits
  <2> QED BY <1>1, <1>2, <2>2 DEF Fire
<1>3. ASSUME NEW k \in 1..Handlers, RunJob(k) PROVE OutcomesFit'
  <2>1. k \in DOMAIN jobs
    BY <1>3 DEF RunJob
  <2>2. PICK what \in Completion(jobs[k]) :
          Finish(jobs[k].session, what, jobs[k].of)
    BY <1>3 DEF RunJob
  <2>3. what \in {"then", "early", "timeout", "undecoded"}
    BY <2>2 DEF Completion
  <2> QED BY <2>1, <2>2, <2>3, JobTypes, FinishFits
<1>4. ASSUME (\E c \in Calls : Add(c)) \/ (\E r \in replies : ReceiveKnown(r))
      PROVE UNCHANGED outcome
  BY <1>4 DEF Add, ReceiveKnown
<1> QED BY <1>1, <1>2, <1>3, <1>4, Effects

LEMMA NextBase ==
  ASSUME Base, [Next]_vars
  PROVE Base'
<1>1. CASE Next
  BY <1>1, NextType, NextIds, NextKinds, NextOnWay, NextFiled, NextJobsFit,
     NextOutcomesFit DEF Base
<1>2. CASE UNCHANGED vars
  <2>1. TypeOK'
    BY <1>2 DEF vars, Base, TypeOK
  <2>2. Ids' /\ Kinds' /\ OnWay' /\ Filed'
    BY <1>2 DEF vars, Base, Ids, Kinds, OnWay, Filed, Added
  <2>3. JobsFit' /\ OutcomesFit'
    BY <1>2 DEF vars, Base, JobsFit, OutcomesFit, Added
  <2> QED BY <2>1, <2>2, <2>3 DEF Base
<1> QED BY <1>1, <1>2

(* Every variable keeps its type. *)
THEOREM TypeCorrect == Spec => []TypeOK
<1>1. Base => TypeOK
  BY DEF Base
<1> QED BY <1>1, InitBase, NextBase, PTL DEF Spec

(* A call alone in its second is completed with its own response only,     *)
(* whatever is lost, late or repeated.                                     *)
THEOREM AlwaysOwnResponse == Spec => []OwnResponse
<1>1. ASSUME Base PROVE OwnResponse
  <2>1. \A c \in Calls : \A k \in DOMAIN outcome[c] :
          outcome[c][k].of \in Calls /\ id[outcome[c][k].of] = id[c]
    BY <1>1, OutcomeTypes
  <2> QED BY <2>1 DEF OwnResponse, Shared
<1> QED BY <1>1, InitBase, NextBase, PTL DEF Spec
-----------------------------------------------------------------------------
(* Only addSession adds. *)
LEMMA NewlyAdded ==
  ASSUME Base, Next, NEW c \in Calls, Added(c)', ~Added(c)
  PROVE Add(c)
<1>0. /\ pc \in [Calls -> {"start", "adding", "built", "sent", "waiting",
                           "done", "got", "gave up", "closed"}]
      /\ id \in [Calls -> Seconds \cup {None}]
      /\ pc[c] = "start" => id[c] = None
      /\ pc[c] \notin {"start", "closed"} => id[c] # None
  BY DEF Base, TypeOK, Ids
<1>1. ASSUME NEW d \in Calls, Call(d) PROVE d = c
  BY <1>0, <1>1 DEF Added, Call, Build, BuildClosed, Add, Closed, Send, Arm,
                    SendAndWait, Got, GiveUp, Goto
<1>2. CASE Call(c)
  BY <1>0, <1>2 DEF Added, Call, Build, BuildClosed, Add, Closed, Send, Arm,
                    SendAndWait, Got, GiveUp, Goto
<1>3. CASE ~\E d \in Calls : Call(d)
  <2>1. UNCHANGED <<pc, id>>
    BY <1>3 DEF Next, Fire, Answer, Receive, ReceiveKnown, ReceiveUnknown,
                RunJob, Write, Tick, MixUp, RemoveClient
  <2> QED BY <2>1 DEF Added
<1> QED BY <1>1, <1>2, <1>3

(* Two sessions with an id between them stay shared or unshared. *)
LEMMA SharedStable ==
  ASSUME Base, Next, NEW c \in Calls, Added(c), ~Shared(c)'
  PROVE ~Shared(c)
<1>1. ASSUME NEW d \in Calls \ {c}, id[d] = id[c] PROVE id'[d] = id'[c]
  <2>1. id[c] # None /\ id'[c] = id[c]
    BY Stable DEF Added
  <2>2. id'[d] = id[d]
    <3>1. pc[d] # "start"
      BY <1>1, <2>1 DEF Base, Ids
    <3>2. UNCHANGED id \/ \E e \in Calls : Build(e)
      BY DEF Next, Call, BuildClosed, Add, Closed, Send, Arm, SendAndWait, Got,
             GiveUp, Fire, Answer, Receive, ReceiveKnown, ReceiveUnknown,
             RunJob, Write, Tick, MixUp, RemoveClient
    <3>3. id \in [Calls -> Seconds \cup {None}]
      BY DEF Base, TypeOK
    <3> QED BY <3>1, <3>2, <3>3 DEF Build, Goto
  <2> QED BY <1>1, <2>1, <2>2
<1> QED BY <1>1 DEF Shared

(* A session that was findable stays so, or is alone no longer. *)
LEMMA RecordedStays ==
  ASSUME Base, Next, NEW c \in Calls, Added(c), ~Shared(c)', Recorded(c)
  PROVE Recorded(c)'
<1>0. /\ id'[c] = id[c] /\ id[c] \in Seconds
      /\ requests \in [Seconds -> Calls \cup {None}]
      /\ outcome \in [Calls -> Seq(Outcomes)]
  BY Stable DEF Added, Base, TypeOK
<1>1. ~Shared(c)
  BY SharedStable
<1>2. CASE UNCHANGED <<requests, jobs, outcome>>
  BY <1>0, <1>2 DEF Recorded
<1>3. ASSUME NEW d \in Calls, Add(d) PROVE Recorded(c)'
  <2>1. d # c
    BY <1>3 DEF Add, Goto, Added
  <2>2. id[d] # id[c]
    BY <1>1, <2>1 DEF Shared
  <2>3. requests'[id[c]] = requests[id[c]] /\ UNCHANGED <<jobs, outcome>>
    BY <1>0, <1>3, <2>2 DEF Add
  <2> QED BY <1>0, <2>3 DEF Recorded
<1>4. ASSUME NEW r \in replies, ReceiveKnown(r) PROVE Recorded(c)'
  <2> DEFINE s == requests[id[r.of]]
             j == [session |-> s, of |-> r.of, ok |-> r.ok]
  <2>1. /\ jobs' = Append(jobs, j) /\ jobs \in Seq(Jobs)
        /\ requests' = [requests EXCEPT ![id[r.of]] = None]
        /\ UNCHANGED outcome
    BY <1>4, SequenceTypes DEF ReceiveKnown, Base
  <2> HIDE DEF s
  <2>2. /\ \A k \in DOMAIN jobs : k \in DOMAIN jobs' /\ jobs'[k] = jobs[k]
        /\ Len(jobs) + 1 \in DOMAIN jobs' /\ jobs'[Len(jobs) + 1] = j
    BY <2>1
  <2>3. CASE requests[id[c]] = c /\ id[r.of] = id[c]
    <3>1. s = c
      BY <2>3 DEF s
    <3> QED BY <2>2, <3>1 DEF Recorded
  <2>4. CASE requests[id[c]] = c /\ id[r.of] # id[c]
    BY <1>0, <2>1, <2>4 DEF Recorded
  <2>5. CASE outcome[c] # <<>> \/ \E k \in DOMAIN jobs : jobs[k].session = c
    BY <2>1, <2>2, <2>5 DEF Recorded
  <2> QED BY <2>3, <2>4, <2>5 DEF Recorded
<1>5. ASSUME NEW d \in Calls, Fire(d) PROVE Recorded(c)'
  <2>1. CASE outcome[c] # <<>>
    <3>1. outcome'[c] # <<>>
      BY <1>0, <1>5, <2>1 DEF Fire, Finish
    <3> QED BY <3>1 DEF Recorded
  <2>2. CASE \E k \in DOMAIN jobs : jobs[k].session = c
    BY <1>5, <2>2 DEF Fire, Recorded
  <2>3. CASE requests[id[c]] = c /\ d # c
    <3>1. id[d] # id[c]
      BY <1>1, <2>3 DEF Shared
    <3>2. requests'[id[c]] = requests[id[c]]
      BY <1>0, <1>5, <3>1 DEF Fire
    <3> QED BY <1>0, <2>3, <3>2 DEF Recorded
  <2>4. CASE requests[id[c]] = c /\ d = c
    <3>1. CASE ClientAlive
      <4>1. SessionAlive(c)
        BY <1>0, <2>4, <3>1 DEF SessionAlive
      <4>2. outcome'[c] # <<>>
        BY <1>0, <1>5, <2>4, <4>1 DEF Fire, Finish
      <4> QED BY <4>2 DEF Recorded
    <3>2. CASE ~ClientAlive
      BY <1>0, <1>5, <2>4, <3>2 DEF Fire, Recorded
    <3> QED BY <3>1, <3>2
  <2> QED BY <2>1, <2>2, <2>3, <2>4 DEF Recorded
<1>6. ASSUME NEW k \in 1..Handlers, RunJob(k) PROVE Recorded(c)'
  <2>1. k \in DOMAIN jobs /\ jobs' = RemoveAt(jobs, k) /\ UNCHANGED requests
    BY <1>6 DEF RunJob
  <2>2. PICK what \in Completion(jobs[k]) :
          Finish(jobs[k].session, what, jobs[k].of)
    BY <1>6 DEF RunJob
  <2>3. CASE outcome[c] # <<>> \/ jobs[k].session = c
    <3>1. outcome'[c] # <<>>
      <4>1. CASE jobs[k].session = c
        <5>1. outcome'[c] = Append(outcome[c], [what |-> what, of |-> jobs[k].of])
          BY <1>0, <2>2, <4>1 DEF Finish
        <5> QED BY <1>0, <5>1
      <4>2. CASE outcome[c] # <<>> /\ jobs[k].session # c
        BY <1>0, <2>2, <4>2 DEF Finish
      <4> QED BY <2>3, <4>1, <4>2
    <3> QED BY <3>1 DEF Recorded
  <2>4. CASE requests[id[c]] = c
    BY <1>0, <2>1, <2>4 DEF Recorded
  <2>5. ASSUME NEW n \in DOMAIN jobs, jobs[n].session = c, n # k
        PROVE Recorded(c)'
    <3>1. \E m \in DOMAIN jobs' : jobs'[m] = jobs[n]
      BY <2>1, <2>5, JobsLeft DEF Base
    <3> QED BY <2>5, <3>1 DEF Recorded
  <2> QED BY <2>3, <2>4, <2>5 DEF Recorded
<1> QED BY <1>2, <1>3, <1>4, <1>5, <1>6, Effects

LEMMA NextNoneForgotten ==
  ASSUME Base, NoneForgotten, [Next]_vars
  PROVE NoneForgotten'
<1>1. CASE UNCHANGED vars
  BY <1>1 DEF vars, NoneForgotten, Added, Shared, Recorded
<1>2. ASSUME Next, NEW c \in Calls, Added(c)', ~Shared(c)'
      PROVE Recorded(c)'
  <2>1. CASE Added(c)
    BY <1>2, <2>1, SharedStable, RecordedStays DEF NoneForgotten
  <2>2. CASE ~Added(c)
    <3>1. Add(c)
      BY <1>2, <2>2, NewlyAdded
    <3>2. id[c] \in Seconds /\ requests \in [Seconds -> Calls \cup {None}]
      BY <3>1 DEF Add, Goto, Base, Ids, TypeOK
    <3> QED BY <3>1, <3>2 DEF Add, Recorded
  <2> QED BY <2>1, <2>2
<1> QED BY <1>1, <1>2 DEF NoneForgotten

(* A call alone in its second is findable until it is answered or times    *)
(* out, for any number of other calls.                                     *)
THEOREM AlwaysNoneForgotten == Spec => []NoneForgotten
<1>1. Init => Base /\ NoneForgotten
  BY InitBase DEF Init, NoneForgotten, Added
<1>2. Base /\ NoneForgotten /\ [Next]_vars => (Base /\ NoneForgotten)'
  BY NextBase, NextNoneForgotten
<1> QED BY <1>1, <1>2, PTL DEF Spec
-----------------------------------------------------------------------------
(* A client that is gone stays gone: only its holders make new holders.    *)
LEMMA GoneStays ==
  ASSUME Base, Next, ~ClientAlive
  PROVE ~ClientAlive'
<1>0. /\ removed /\ posted = <<>>
      /\ \A c \in Calls : pc[c] \notin {"adding", "sent", "waiting"}
      /\ pc \in [Calls -> {"start", "adding", "built", "sent", "waiting", "done",
                         "got", "gave up", "closed"}]
  BY DEF ClientAlive, Base, TypeOK
<1>1. ASSUME NEW c \in Calls, Call(c) PROVE BuildClosed(c) \/ Closed(c)
  BY <1>0, <1>1 DEF Call, Build, Add, Send, Arm, SendAndWait, Got, GiveUp, Goto
<1>2. ASSUME NEW c \in Calls, BuildClosed(c) \/ Closed(c)
      PROVE ~ClientAlive'
  BY <1>0, <1>2 DEF BuildClosed, Closed, Goto, ClientAlive
<1>3. CASE ~\E c \in Calls : Call(c)
  <2>1. UNCHANGED <<pc, removed, posted>>
    BY <1>0, <1>3 DEF Next, Fire, Answer, Receive, ReceiveKnown,
          ReceiveUnknown, RunJob, Write, Tick, MixUp, RemoveClient
  <2> QED BY <1>0, <2>1 DEF ClientAlive
<1> QED BY <1>1, <1>2, <1>3

(* Timers that were mixed up stay so. *)
LEMMA MixedStays ==
  ASSUME Next, mixed PROVE mixed'
<1>1. ASSUME NEW c \in Calls, Call(c) PROVE mixed'
  BY <1>1 DEF Call, Build, BuildClosed, Add, Closed, Send, Arm, SendAndWait,
              Got, GiveUp
<1>2. CASE ~\E c \in Calls : Call(c)
  BY <1>2 DEF Next, Fire, Answer, Receive, ReceiveKnown, ReceiveUnknown,
              RunJob, Write, Tick, MixUp, RemoveClient
<1> QED BY <1>1, <1>2

LEMMA NextNoLeak ==
  ASSUME Base, NoLeak, [Next]_vars
  PROVE NoLeak'
<1>1. CASE UNCHANGED vars
  BY <1>1 DEF vars, NoLeak, ClientAlive
<1>2. ASSUME Next, NEW i \in Seconds, NEW c \in Async, requests'[i] = c,
             ClientAlive', ~mixed'
      PROVE pc'[c] \in {"built", "sent"} \/ left'[c] # None
  <2>0. /\ ClientAlive /\ ~mixed /\ c \in Calls /\ c # None
        /\ pc \in [Calls -> {"start", "adding", "built", "sent", "waiting",
                           "done", "got", "gave up", "closed"}]
        /\ left \in [Calls -> (0..Timeout) \cup {None}]
        /\ requests \in [Seconds -> Calls \cup {None}]
    BY <1>2, GoneStays, MixedStays, SessionAssumption DEF Base, TypeOK, Calls
  <2>1. ASSUME NEW d \in Calls, Add(d), d = c PROVE pc'[c] = "built"
    BY <2>0, <2>1 DEF Add, Goto
  <2>2. CASE requests[i] = c
    <3>1. pc[c] \in {"built", "sent"} \/ left[c] # None
      BY <2>0, <2>2 DEF NoLeak
    <3>2. ASSUME NEW d \in Calls, Call(d)
          PROVE pc'[c] \in {"built", "sent"} \/ left'[c] # None
      <4>0. c \notin Sync
        BY <2>0, SessionAssumption
      <4>1. CASE d # c
        BY <2>0, <3>1, <3>2, <4>1 DEF Call, Build, BuildClosed, Add, Closed,
              Send, Arm, SendAndWait, Got, GiveUp, Goto
      <4>2. CASE d = c
        <5>1. left[c] # None => pc[c] = "done"
          BY <2>0, <4>0 DEF Base, Kinds
        <5>2. Timeout # None
          BY NoneIsNoSecond, SessionAssumption
        <5> QED BY <2>0, <3>1, <3>2, <4>0, <4>2, <5>1, <5>2 DEF Call, Build,
              BuildClosed, Add, Closed, Send, Arm, SendAndWait, Got, GiveUp,
              Goto
      <4> QED BY <4>1, <4>2
    <3>3. ASSUME NEW d \in Calls, Fire(d)
          PROVE pc'[c] \in {"built", "sent"} \/ left'[c] # None
      <4>1. CASE d # c
        BY <2>0, <3>1, <3>3, <4>1 DEF Fire
      <4>2. CASE d = c
        <5>1. id[c] = i
          BY <2>0, <2>2 DEF Base, Filed
        <5>2. requests'[i] = None
          BY <2>0, <3>3, <4>2, <5>1 DEF Fire
        <5> QED BY <1>2, <2>0, <5>2
      <4> QED BY <4>1, <4>2
    <3>4. CASE Tick
      <4>1. left[c] # None => left[c] \in 0..Timeout
        BY <2>0
      <4>2. left'[c] = IF left[c] \in {None, 0} THEN left[c] ELSE left[c] - 1
        BY <2>0, <3>4 DEF Tick
      <4>3. left[c] \notin {None, 0} => left[c] - 1 \in Nat
        BY <4>1
      <4>4. left[c] # None => left'[c] # None
        BY <4>2, <4>3, NoneIsNoSecond
      <4>5. UNCHANGED pc
        BY <3>4 DEF Tick
      <4> QED BY <3>1, <4>4, <4>5
    <3>5. CASE UNCHANGED <<pc, left>>
      BY <3>1, <3>5
    <3>6. ASSUME NEW d \in Calls, NEW ok \in BOOLEAN, Answer(d, ok)
          PROVE UNCHANGED <<pc, left>>
      BY <3>6 DEF Answer
    <3>7. ASSUME NEW r \in replies, Receive(r) PROVE UNCHANGED <<pc, left>>
      BY <3>7 DEF Receive, ReceiveKnown, ReceiveUnknown
    <3>8. ASSUME (\E k \in 1..Handlers : RunJob(k)) \/ Write \/ RemoveClient
          PROVE UNCHANGED <<pc, left>>
      BY <3>8 DEF RunJob, Write, RemoveClient
    <3>9. CASE MixUp
      BY <2>0, <3>9 DEF MixUp
    <3> QED BY <1>2, <3>2, <3>3, <3>4, <3>5, <3>6, <3>7, <3>8, <3>9 DEF Next
  <2>3. CASE requests[i] # c
    <3>1. ASSUME NEW d \in Calls, Add(d) PROVE d = c
      BY <1>2, <2>0, <2>3, <3>1 DEF Add
    <3>2. ASSUME NEW r \in replies, ReceiveKnown(r) PROVE FALSE
      BY <1>2, <2>0, <2>3, <3>2 DEF ReceiveKnown
    <3>3. ASSUME NEW d \in Calls, Fire(d) PROVE FALSE
      BY <1>2, <2>0, <2>3, <3>3 DEF Fire
    <3>4. ASSUME NEW k \in 1..Handlers, RunJob(k) PROVE FALSE
      BY <1>2, <2>3, <3>4 DEF RunJob
    <3>5. CASE UNCHANGED requests
      BY <2>3, <3>5, <1>2
    <3> QED BY <1>2, <2>1, <3>1, <3>2, <3>3, <3>4, <3>5, Effects
  <2> QED BY <2>2, <2>3
<1> QED BY <1>1, <1>2 DEF NoLeak

(* No asynchronous session stays in requests after its timer, unless the   *)
(* loop's timers were mixed up.                                            *)
THEOREM AlwaysNoLeak == Spec => []NoLeak
<1>1. Init => Base /\ NoLeak
  BY InitBase, SessionAssumption DEF Init, NoLeak, Calls
<1>2. Base /\ NoLeak /\ [Next]_vars => (Base /\ NoLeak)'
  BY NextBase, NextNoLeak
<1> QED BY <1>1, <1>2, PTL DEF Spec

(* Whoever waits has its time limit running. *)
WaitsAreTimed == \A c \in Calls : pc[c] = "waiting" => left[c] # None

(* The clock stops no timer. *)
LEMMA ClockKeepsTimers ==
  ASSUME Base, Tick, NEW c \in Calls, left[c] # None
  PROVE left'[c] # None
<1>1. left[c] \in 0..Timeout
  BY DEF Base, TypeOK
<1>2. left'[c] = IF left[c] \in {None, 0} THEN left[c] ELSE left[c] - 1
  BY DEF Tick
<1>3. left[c] # 0 => left[c] - 1 \in Nat
  BY <1>1
<1> QED BY <1>2, <1>3, NoneIsNoSecond

LEMMA NextWaitsAreTimed ==
  ASSUME Base, WaitsAreTimed, [Next]_vars
  PROVE WaitsAreTimed'
<1> SUFFICES ASSUME NEW c \in Calls, pc'[c] = "waiting" PROVE left'[c] # None
  BY DEF WaitsAreTimed
<1>0. /\ pc \in [Calls -> {"start", "adding", "built", "sent", "waiting",
                         "done", "got", "gave up", "closed"}]
      /\ left \in [Calls -> (0..Timeout) \cup {None}]
      /\ Timeout # None
  BY NoneIsNoSecond, SessionAssumption DEF Base, TypeOK
<1>1. pc[c] = "waiting" => left[c] # None
  BY DEF WaitsAreTimed
<1>2. CASE UNCHANGED vars
  BY <1>1, <1>2 DEF vars
<1>3. ASSUME NEW d \in Calls, Call(d) PROVE left'[c] # None
  <2>1. CASE d # c
    BY <1>0, <1>1, <1>3, <2>1 DEF Call, Build, BuildClosed, Add, Closed, Send,
          Arm, SendAndWait, Got, GiveUp, Goto
  <2>2. CASE d = c
    BY <1>0, <1>3, <2>2 DEF Call, Build, BuildClosed, Add, Closed, Send, Arm,
          SendAndWait, Got, GiveUp, Goto
  <2> QED BY <2>1, <2>2
<1>4. ASSUME NEW d \in Calls, Fire(d) PROVE left'[c] # None
  <2>1. UNCHANGED pc
    BY <1>4 DEF Fire
  <2>2. c \notin Async
    BY <2>1, SessionAssumption DEF Base, Kinds
  <2> QED BY <1>0, <1>1, <1>4, <2>1, <2>2 DEF Fire
<1>5. CASE Tick
  <2>1. UNCHANGED pc
    BY <1>5 DEF Tick
  <2> QED BY <1>1, <1>5, <2>1, ClockKeepsTimers
<1>6. CASE UNCHANGED <<pc, left>>
  BY <1>1, <1>6
<1>7. ASSUME NEW d \in Calls, NEW ok \in BOOLEAN, Answer(d, ok)
      PROVE UNCHANGED <<pc, left>>
  BY <1>7 DEF Answer
<1>8. ASSUME NEW r \in replies, Receive(r) PROVE UNCHANGED <<pc, left>>
  BY <1>8 DEF Receive, ReceiveKnown, ReceiveUnknown
<1>9. ASSUME (\E k \in 1..Handlers : RunJob(k)) \/ Write \/ RemoveClient
      PROVE UNCHANGED <<pc, left>>
  BY <1>9 DEF RunJob, Write, RemoveClient
<1>10. CASE MixUp
  <2>1. UNCHANGED pc
    BY <1>10 DEF MixUp
  <2>2. c \notin Async
    BY <2>1, SessionAssumption DEF Base, Kinds
  <2> QED BY <1>0, <1>1, <1>10, <2>1, <2>2 DEF MixUp
<1> QED BY <1>2, <1>3, <1>4, <1>5, <1>6, <1>7, <1>8, <1>9, <1>10 DEF Next

(* What is remembered in requests is also timed, so that a call that is    *)
(* alone in its second has something that will end it.                     *)
LEMMA TendedWhenRemembered ==
  ASSUME Base, WaitsAreTimed, NoneForgotten, NoLeak
  PROVE Awaited
<1>1. ASSUME NEW c \in Async, pc[c] = "done", ~Shared(c), ClientAlive, ~mixed
      PROVE \/ outcome[c] # <<>>
            \/ \E k \in DOMAIN jobs : jobs[k].session = c
            \/ left[c] # None
  <2>1. c \in Calls /\ id[c] # None /\ id[c] \in Seconds
    BY <1>1 DEF Calls, Base, Ids, TypeOK
  <2>2. Recorded(c)
    BY <1>1, <2>1 DEF NoneForgotten, Added
  <2>3. CASE requests[id[c]] = c
    BY <1>1, <2>1, <2>3 DEF NoLeak
  <2> QED BY <2>2, <2>3 DEF Recorded
<1>2. \A c \in Calls : pc[c] = "waiting" => left[c] # None
  BY DEF WaitsAreTimed
<1> QED BY <1>1, <1>2 DEF Awaited

(* Calls are remembered, and each has a time limit, a response, or a timer *)
(* (none of which was started beside the loop's use of them) to end it.    *)
THEOREM AlwaysCallsTended == Spec => []CallsTended
<1>1. Init => Base /\ WaitsAreTimed
  BY InitBase DEF Init, WaitsAreTimed
<1>2. Base /\ WaitsAreTimed /\ [Next]_vars => (Base /\ WaitsAreTimed)'
  BY NextBase, NextWaitsAreTimed
<1>3. Base /\ WaitsAreTimed /\ NoneForgotten /\ NoLeak => CallsTended
  BY TendedWhenRemembered DEF CallsTended
<1> QED BY <1>1, <1>2, <1>3, AlwaysNoneForgotten, AlwaysNoLeak, PTL DEF Spec
-----------------------------------------------------------------------------
(* A session is in requests, in one job, or completed, and never twice:    *)
(* this is what removing it before its job is queued is for.               *)

InRequests(c) == \E i \in Seconds : requests[i] = c

Completions(c) ==
  {k \in DOMAIN outcome[c] :
     outcome[c][k].what \in {"then", "early", "undecoded"}}

OneJob ==
  \A k, m \in DOMAIN jobs : jobs[k].session = jobs[m].session => k = m

InJobs(c) == \E k \in DOMAIN jobs : jobs[k].session = c

JobsAreLast ==
  \A c \in Calls : InJobs(c) => ~InRequests(c) /\ Completions(c) = {}

OneCompletion ==
  \A c \in Calls :
    /\ Completions(c) # {} => ~InRequests(c)
    /\ \A k, m \in Completions(c) : k = m

Once == OneJob /\ JobsAreLast /\ OneCompletion

(* Whatever else a step does, only addSession files a session. *)
LEMMA FiledAnew ==
  ASSUME Base, Next, NEW c \in Calls, InRequests(c)', ~Add(c)
  PROVE InRequests(c)
<1>0. requests \in [Seconds -> Calls \cup {None}] /\ c # None
  BY SessionAssumption DEF Base, TypeOK
<1>1. ASSUME NEW d \in Calls, Add(d) PROVE InRequests(c)
  BY <1>0, <1>1 DEF Add, InRequests
<1>2. ASSUME NEW r \in replies, ReceiveKnown(r) PROVE InRequests(c)
  BY <1>0, <1>2 DEF ReceiveKnown, InRequests
<1>3. ASSUME NEW d \in Calls, Fire(d) PROVE InRequests(c)
  BY <1>0, <1>3 DEF Fire, InRequests
<1>4. CASE UNCHANGED requests
  BY <1>4 DEF InRequests
<1>5. ASSUME NEW k \in 1..Handlers, RunJob(k) PROVE UNCHANGED requests
  BY <1>5 DEF RunJob
<1> QED BY <1>1, <1>2, <1>3, <1>4, <1>5, Effects

(* A session about to be filed has left no trace. *)
LEMMA AddIsFirst ==
  ASSUME Base, NEW c \in Calls, Add(c)
  PROVE ~InJobs(c) /\ Completions(c) = {}
<1>1. ~Added(c)
  BY DEF Add, Goto, Added
<1> QED BY <1>1, JobTypes, OutcomeTypes DEF Completions, InJobs

LEMMA FinishCompletions ==
  ASSUME Base, NEW c \in Calls, NEW of \in Calls,
         NEW what \in {"then", "early", "timeout", "undecoded"},
         Finish(c, what, of)
  PROVE /\ Completions(c)' = Completions(c) \cup
             (IF what = "timeout" THEN {} ELSE {Len(outcome[c]) + 1})
        /\ \A d \in Calls \ {c} : Completions(d)' = Completions(d)
<1>1. /\ DOMAIN outcome'[c] = DOMAIN outcome[c] \cup {Len(outcome[c]) + 1}
      /\ outcome'[c][Len(outcome[c]) + 1] = [what |-> what, of |-> of]
      /\ \A k \in DOMAIN outcome[c] : outcome'[c][k] = outcome[c][k]
      /\ \A d \in Calls \ {c} : outcome'[d] = outcome[d]
  <2>1. TypeOK
    BY DEF Base
  <2>2. DOMAIN outcome'[c] = DOMAIN outcome[c] \cup {Len(outcome[c]) + 1}
    BY <2>1, AppendedOutcome
  <2>3. outcome'[c][Len(outcome[c]) + 1] = [what |-> what, of |-> of]
    BY <2>1, AppendedOutcome
  <2>4. \A k \in DOMAIN outcome[c] : outcome'[c][k] = outcome[c][k]
    BY <2>1, AppendedOutcome
  <2>5. \A d \in Calls \ {c} : outcome'[d] = outcome[d]
    BY ZenonT(30), <2>1, AppendedOutcome
  <2> QED BY <2>2, <2>3, <2>4, <2>5
<1>2. Completions(c)' = Completions(c) \cup
        (IF what = "timeout" THEN {} ELSE {Len(outcome[c]) + 1})
  <2>1. CASE what = "timeout"
    <3>1. outcome'[c][Len(outcome[c]) + 1].what = "timeout"
      BY <1>1, <2>1
    <3> QED BY <1>1, <2>1, <3>1 DEF Completions
  <2>2. CASE what # "timeout"
    <3>1. outcome'[c][Len(outcome[c]) + 1].what
            \in {"then", "early", "undecoded"}
      BY <1>1, <2>2
    <3> QED BY <1>1, <2>2, <3>1 DEF Completions
  <2> QED BY <2>1, <2>2
<1>3. \A d \in Calls \ {c} : Completions(d)' = Completions(d)
  BY <1>1 DEF Completions
<1> QED BY <1>2, <1>3

LEMMA NextOnce ==
  ASSUME Base, Once, Next
  PROVE Once'
<1>0. /\ requests \in [Seconds -> Calls \cup {None}]
      /\ jobs \in Seq(Jobs)
      /\ \A k \in DOMAIN jobs : jobs[k].session \in Calls
      /\ None \notin Calls
  BY SequenceTypes, JobTypes, SessionAssumption DEF Base, TypeOK
<1>1. CASE UNCHANGED <<requests, jobs, outcome>>
  BY <1>1 DEF Once, OneJob, JobsAreLast, OneCompletion, InRequests,
              InJobs, Completions
<1>2. ASSUME NEW c \in Calls, Add(c) PROVE Once'
  <2>1. UNCHANGED <<jobs, outcome>>
    BY <1>2 DEF Add
  <2>2. \A d \in Calls \ {c} : InRequests(d)' => InRequests(d)
    <3>1. \A d \in Calls \ {c} : ~Add(d) \/ d = c
      BY <1>2 DEF Add, Goto, Base, TypeOK
    <3> QED BY <1>0, <1>2 DEF Add, InRequests
  <2>3. \A d \in Calls : Completions(d)' = Completions(d)
    BY <2>1 DEF Completions
  <2>4. \A d \in Calls : InJobs(d)' = InJobs(d)
    BY <2>1 DEF InJobs
  <2>5. ~InJobs(c) /\ Completions(c) = {}
    BY <1>2, AddIsFirst
  <2>6. OneJob'
    BY <2>1 DEF Once, OneJob
  <2>7. JobsAreLast' /\ OneCompletion'
    BY <2>2, <2>3, <2>4, <2>5 DEF Once, JobsAreLast, OneCompletion
  <2> QED BY <2>6, <2>7 DEF Once
<1>3. ASSUME NEW r \in replies, ReceiveKnown(r) PROVE Once'
  <2>1. id[r.of] \in Seconds
    BY DEF Base, TypeOK, OnWay, Added
  <2>2. PICK s \in Calls : s = requests[id[r.of]] /\ id[s] = id[r.of]
    BY <1>3, <2>1 DEF ReceiveKnown, Base, TypeOK, Filed
  <2> DEFINE j == [session |-> s, of |-> r.of, ok |-> r.ok]
  <2>3. InRequests(s)
    BY <2>1, <2>2 DEF InRequests
  <2>4. ~InRequests(s)'
    <3>1. requests' = [requests EXCEPT ![id[r.of]] = None]
      BY <1>3 DEF ReceiveKnown
    <3>2. \A i \in Seconds : requests[i] = s => i = id[r.of]
      BY <1>0, <2>2 DEF Base, Filed
    <3>3. \A i \in Seconds : requests'[i] =
            IF i = id[r.of] THEN None ELSE requests[i]
      BY <1>0, <2>1, <3>1
    <3>4. s # None
      BY <1>0, <2>2
    <3>5. \A i \in Seconds : requests'[i] # s
      BY <3>2, <3>3, <3>4
    <3> QED BY <3>5 DEF InRequests
  <2>5. /\ jobs' = Append(jobs, j) /\ UNCHANGED outcome
    BY <1>3, <2>2 DEF ReceiveKnown
  <2>6. /\ DOMAIN jobs' = DOMAIN jobs \cup {Len(jobs) + 1}
        /\ \A k \in DOMAIN jobs : jobs'[k] = jobs[k]
        /\ jobs'[Len(jobs) + 1].session = s
    BY <1>0, <2>5
  <2>7. \A d \in Calls : InRequests(d)' => InRequests(d)
    <3>1. \A d \in Calls : ~Add(d)
      BY <1>3, <2>4, <2>5, <1>0 DEF Add
    <3> QED BY <3>1, FiledAnew
  <2>8. \A d \in Calls : Completions(d)' = Completions(d)
    BY <2>5 DEF Completions
  <2>9. Completions(s) = {} /\ ~InJobs(s)
    BY <2>2, <2>3 DEF Once, JobsAreLast, OneCompletion
  <2>10. OneJob'
    BY <2>6, <2>9 DEF Once, OneJob, InJobs
  <2>13. \A d \in Calls : InJobs(d)' => InJobs(d) \/ d = s
    BY <2>6 DEF InJobs
  <2>11. JobsAreLast'
    BY <2>2, <2>4, <2>7, <2>8, <2>9, <2>13 DEF Once, JobsAreLast
  <2>12. OneCompletion'
    BY <2>7, <2>8 DEF Once, OneCompletion
  <2> QED BY <2>10, <2>11, <2>12 DEF Once
<1>4. ASSUME NEW c \in Calls, Fire(c) PROVE Once'
  <2>1. UNCHANGED jobs
    BY <1>4 DEF Fire
  <2>2. \A d \in Calls : Completions(d)' = Completions(d)
    <3>1. CASE Finish(c, "timeout", c)
      BY <3>1, FinishCompletions
    <3>2. CASE UNCHANGED outcome
      BY <3>2 DEF Completions
    <3> QED BY <1>4, <3>1, <3>2 DEF Fire
  <2>3. \A d \in Calls : InRequests(d)' => InRequests(d)
    BY <1>0, <1>4 DEF Fire, InRequests
  <2>4. \A d \in Calls : InJobs(d)' = InJobs(d)
    BY <2>1 DEF InJobs
  <2>5. OneJob'
    BY <2>1 DEF Once, OneJob
  <2>6. JobsAreLast' /\ OneCompletion'
    BY <2>2, <2>3, <2>4 DEF Once, JobsAreLast, OneCompletion
  <2> QED BY <2>5, <2>6 DEF Once
<1>5. ASSUME NEW k \in 1..Handlers, RunJob(k) PROVE Once'
  <2>1. k \in DOMAIN jobs /\ jobs' = RemoveAt(jobs, k) /\ UNCHANGED requests
    BY <1>5 DEF RunJob
  <2>2. PICK s \in Calls, of \in Calls :
          s = jobs[k].session /\ of = jobs[k].of
    BY <2>1, JobTypes
  <2>3. PICK what \in {"then", "early", "timeout", "undecoded"} :
          Finish(s, what, of)
    BY <1>5, <2>2 DEF RunJob, Completion
  <2>4. ~InRequests(s) /\ Completions(s) = {}
        /\ \A n \in DOMAIN jobs \ {k} : jobs[n].session # s
    BY <2>1, <2>2 DEF Once, OneJob, JobsAreLast, InJobs
  <2>5. /\ \A m, n \in Completions(s)' : m = n
        /\ \A d \in Calls \ {s} : Completions(d)' = Completions(d)
    <3>1. /\ Completions(s)' = Completions(s) \cup
               (IF what = "timeout" THEN {} ELSE {Len(outcome[s]) + 1})
          /\ \A d \in Calls \ {s} : Completions(d)' = Completions(d)
      BY <2>3, FinishCompletions
    <3> QED BY <2>4, <3>1
  <2>6. \A d : InRequests(d)' = InRequests(d)
    BY <2>1 DEF InRequests
  <2>7. \A m1, m2 \in DOMAIN jobs' :
          \E n1, n2 \in DOMAIN jobs \ {k} :
            /\ jobs'[m1] = jobs[n1] /\ jobs'[m2] = jobs[n2]
            /\ m1 # m2 => n1 # n2
    BY <2>1, JobsLeft DEF Base
  <2>8. OneJob'
    BY <2>7 DEF Once, OneJob
  <2>9. JobsAreLast'
    <3>1. \A d \in Calls : InJobs(d)' => InJobs(d) /\ d # s
      BY <2>4, <2>7 DEF InJobs
    <3> QED BY <2>5, <2>6, <3>1 DEF Once, JobsAreLast
  <2>10. OneCompletion'
    BY <2>4, <2>5, <2>6 DEF Once, OneCompletion
  <2> QED BY <2>8, <2>9, <2>10 DEF Once
<1> QED BY <1>1, <1>2, <1>3, <1>4, <1>5, Effects

(* No session is completed twice by responses, for any number of handlers  *)
(* and however often responses arrive.                                     *)
THEOREM AlwaysCompletedOnce == Spec => []CompletedOnce
<1>1. Init => Base /\ Once
  BY InitBase DEF Init, Once, OneJob, JobsAreLast, OneCompletion, InJobs,
                  Completions
<1>2. Base /\ Once /\ [Next]_vars => (Base /\ Once)'
  <2>1. ASSUME Base, Once, UNCHANGED vars PROVE Once'
    BY <2>1 DEF vars, Once, OneJob, JobsAreLast, OneCompletion, InRequests,
                InJobs, Completions
  <2> QED BY <2>1, NextBase, NextOnce
<1>3. Base /\ Once => CompletedOnce
  <2> SUFFICES ASSUME Once, NEW c \in Calls
               PROVE Times(c, {"then", "early", "undecoded"}) <= 1
    BY DEF CompletedOnce
  <2>1. Times(c, {"then", "early", "undecoded"}) = Cardinality(Completions(c))
    BY DEF Times, Completions
  <2>2. CASE Completions(c) = {}
    BY <2>1, <2>2, FS_EmptySet
  <2>3. ASSUME NEW k \in Completions(c)
        PROVE Times(c, {"then", "early", "undecoded"}) <= 1
    <3>1. Completions(c) = {k}
      BY <2>3 DEF Once, OneCompletion
    <3> QED BY <2>1, <3>1, FS_Singleton
  <2> QED BY <2>2, <2>3
<1> QED BY <1>1, <1>2, <1>3, PTL DEF Spec
=============================================================================

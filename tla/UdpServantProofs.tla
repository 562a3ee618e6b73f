-------------------------- MODULE UdpServantProofs --------------------------
(***************************************************************************)
(* Proofs about UdpServant, for any number of peers, channel objects,      *)
(* handlers and datagrams.  That one open channel serves a peer needs to   *)
(* know that channels are numbered as they are made (Made) and that the one*)
(* filed for a peer is its latest (Latest); that a reply goes out once     *)
(* needs to know where a datagram can be, which is one place (Placed).     *)
(***************************************************************************)
EXTENDS UdpServant, TLAPS

Request == [peer : Peers, kind : {"call", "bye", "empty"}, n : 1 .. MaxArrivals]

(* Channel objects are made in the order of their numbers, and whoever     *)
(* names one names one that was made. *)
Made ==
  /\ \A c \in Chans : of[c] # None => \A d \in 1 .. c - 1 : of[d] # None
  /\ \A c \in open : of[c] # None
  /\ \A c \in Chans : wbuf[c] # <<>> => of[c] # None
  /\ \A i \in DOMAIN jobs : of[jobs[i].chan] # None
  /\ \A j \in replying : of[j.chan] # None
  /\ \A i \in DOMAIN loopq : of[loopq[i]] # None
  /\ waitingFor # None => of[waitingFor] # None

(* The channel filed for a peer is the last one made for it: the removal   *)
(* that takes out another's is an older one's. *)
Latest ==
  \A p \in Peers : listed[p] # None =>
    \A d \in Chans : of[d] = p => d <= listed[p]

Sound == UdpTypeOK /\ Made /\ Latest /\ OneServes /\ BufferSignalled
-----------------------------------------------------------------------------
(* A datagram is known by its number and is in one place at a time: in the *)
(* socket, with a handler, in a channel's buffer, or sent.  A farewell has *)
(* the number 0, which no datagram has. *)
Has(q, n) == \E i \in DOMAIN q : q[i].n = n

Once(q) == \A i, k \in DOMAIN q : q[i].n = q[k].n /\ q[i].n # 0 => i = k

Answering(n) == \E j \in replying : j.n = n
Buffered(n) == \E c \in Chans : Has(wbuf[c], n)
Out(n) == \E p \in Peers : Has(sentTo[p], n)

Spot(n) ==
  /\ Has(inbox, n) \/ Has(jobs, n) \/ Answering(n) \/ Buffered(n) \/ Out(n)
     => n <= arrivals
  /\ Has(inbox, n) => ~Has(jobs, n) /\ ~Answering(n) /\ ~Buffered(n) /\ ~Out(n)
  /\ Has(jobs, n) => ~Answering(n) /\ ~Buffered(n) /\ ~Out(n)
  /\ Answering(n) => ~Buffered(n) /\ ~Out(n)
  /\ Buffered(n) => ~Out(n)
  /\ \A c, d \in Chans : Has(wbuf[c], n) /\ Has(wbuf[d], n) => c = d
  /\ \A j, k \in replying : j.n = n /\ k.n = n => j = k

Numbered ==
  /\ \A i \in DOMAIN jobs : jobs[i].kind # "farewell" => jobs[i].n # 0
  /\ \A j \in replying : j.n # 0
  /\ \A c \in Chans : \A i \in DOMAIN wbuf[c] : wbuf[c][i].n # 0
  /\ \A p \in Peers : \A i \in DOMAIN sentTo[p] : sentTo[p][i].n # 0

Owned ==
  /\ \A c \in Chans : \A i \in DOMAIN wbuf[c] : wbuf[c][i].chan = c
  /\ \A p \in Peers : \A i \in DOMAIN sentTo[p] : of[sentTo[p][i].chan] = p

Placed ==
  /\ Numbered /\ Owned
  /\ Once(inbox) /\ Once(jobs)
  /\ \A c \in Chans : Once(wbuf[c])
  /\ \A p \in Peers : Once(sentTo[p])
  /\ \A n \in 1 .. MaxArrivals : Spot(n)
-----------------------------------------------------------------------------
(* Sequences. *)

(* RemoveAt drops one element and keeps the others: behind every element   *)
(* that is left there is one that was there, and never the same for two.   *)
LEMMA Removal ==
  ASSUME NEW S, NEW q \in Seq(S), NEW k \in DOMAIN q
  PROVE  /\ RemoveAt(q, k) \in Seq(S)
         /\ \A m \in DOMAIN RemoveAt(q, k) :
              /\ (IF m < k THEN m ELSE m + 1) \in DOMAIN q
              /\ (IF m < k THEN m ELSE m + 1) # k
              /\ RemoveAt(q, k)[m] = q[IF m < k THEN m ELSE m + 1]
<1> DEFINE front == SubSeq(q, 1, k - 1)
           back == SubSeq(q, k + 1, Len(q))
<1>1. k \in 1..Len(q) /\ Len(q) \in Nat /\ DOMAIN q = 1..Len(q)
  OBVIOUS
<1>2. front \in Seq(S) /\ Len(front) = k - 1
      /\ \A m \in 1..(k - 1) : front[m] = q[m]
  BY <1>1
<1>3. back \in Seq(S) /\ Len(back) = Len(q) - k
      /\ \A m \in 1..(Len(q) - k) : back[m] = q[m + k]
  BY <1>1
<1>4. RemoveAt(q, k) = front \o back
  BY DEF RemoveAt
<1> HIDE DEF front, back
<1>5. front \o back \in Seq(S) /\ Len(front \o back) = Len(q) - 1
  <2>0. front \in Seq(S) /\ back \in Seq(S)
    BY <1>2, <1>3
  <2>1. front \o back \in Seq(S) /\ Len(front \o back) = Len(front) + Len(back)
    BY <2>0
  <2> QED BY <1>1, <1>2, <1>3, <2>1
<1>6. ASSUME NEW m \in 1..(Len(q) - 1)
      PROVE (front \o back)[m] = q[IF m < k THEN m ELSE m + 1]
  <2>1. CASE m < k
    BY <2>1, <1>1, <1>2, <1>3
  <2>2. CASE ~(m < k)
    <3>1. (front \o back)[m] = back[m - (k - 1)]
      BY SMTT(30), <2>2, <1>1, <1>2, <1>3
    <3>2. m - (k - 1) \in 1..(Len(q) - k) /\ (m - (k - 1)) + k = m + 1
      BY <2>2, <1>1
    <3> QED BY <2>2, <3>1, <3>2, <1>3
  <2> QED BY <2>1, <2>2
<1> DEFINE r == front \o back
<1>7. /\ r \in Seq(S) /\ DOMAIN r = 1..(Len(q) - 1)
      /\ \A m \in 1..(Len(q) - 1) : r[m] = q[IF m < k THEN m ELSE m + 1]
  BY <1>5, <1>6
<1> HIDE DEF r
<1>8. ASSUME NEW m \in DOMAIN r
      PROVE  /\ (IF m < k THEN m ELSE m + 1) \in DOMAIN q
             /\ (IF m < k THEN m ELSE m + 1) # k
  BY <1>1, <1>7
<1> QED BY <1>4, <1>7, <1>8 DEF r

LEMMA AfterAppend ==
  ASSUME NEW S, NEW q \in Seq(S), NEW x \in S
  PROVE  /\ Append(q, x) \in Seq(S)
         /\ DOMAIN Append(q, x) = DOMAIN q \cup {Len(q) + 1}
         /\ Append(q, x)[Len(q) + 1] = x
         /\ \A i \in DOMAIN q : Append(q, x)[i] = q[i]
         /\ \A n : Has(Append(q, x), n) <=> Has(q, n) \/ x.n = n
         /\ Once(q) /\ (x.n = 0 \/ ~Has(q, x.n)) => Once(Append(q, x))
<1>1. /\ DOMAIN q = 1 .. Len(q) /\ Len(q) \in Nat
      /\ DOMAIN Append(q, x) = 1 .. Len(q) + 1
      /\ \A i \in 1 .. Len(q) : Append(q, x)[i] = q[i]
      /\ Append(q, x)[Len(q) + 1] = x
      /\ Append(q, x) \in Seq(S)
  OBVIOUS
<1>2. \A n : Has(Append(q, x), n) <=> Has(q, n) \/ x.n = n
  BY <1>1 DEF Has
<1>3. Once(q) /\ (x.n = 0 \/ ~Has(q, x.n)) => Once(Append(q, x))
  BY <1>1 DEF Has, Once
<1>4. DOMAIN Append(q, x) = DOMAIN q \cup {Len(q) + 1}
  BY <1>1
<1> QED BY <1>1, <1>2, <1>3, <1>4

LEMMA AfterTail ==
  ASSUME NEW S, NEW q \in Seq(S), q # <<>>
  PROVE  /\ Tail(q) \in Seq(S) /\ Head(q) \in S
         /\ 1 \in DOMAIN q /\ Head(q) = q[1]
         /\ \A i \in DOMAIN Tail(q) : i + 1 \in DOMAIN q /\ Tail(q)[i] = q[i + 1]
         /\ \A n : Has(Tail(q), n) => Has(q, n)
         /\ Has(q, Head(q).n)
         /\ Once(q) => Once(Tail(q))
         /\ Once(q) /\ Head(q).n # 0 => ~Has(Tail(q), Head(q).n)
<1>1. /\ DOMAIN q = 1 .. Len(q) /\ Len(q) \in Nat /\ Len(q) >= 1
      /\ DOMAIN Tail(q) = 1 .. Len(q) - 1
      /\ \A i \in 1 .. Len(q) - 1 : Tail(q)[i] = q[i + 1]
      /\ Head(q) = q[1] /\ Tail(q) \in Seq(S) /\ Head(q) \in S
  OBVIOUS
<1>2. \A i \in 1 .. Len(q) - 1 : i + 1 \in 1 .. Len(q) /\ i + 1 # 1
  BY <1>1
<1>3. \A n : Has(Tail(q), n) => Has(q, n)
  BY <1>1, <1>2 DEF Has
<1>4. Has(q, Head(q).n)
  BY <1>1 DEF Has
<1>5. Once(q) => Once(Tail(q))
  BY <1>1, <1>2 DEF Once
<1>6. Once(q) /\ Head(q).n # 0 => ~Has(Tail(q), Head(q).n)
  BY <1>1, <1>2 DEF Once, Has
<1> QED BY <1>1, <1>2, <1>3, <1>4, <1>5, <1>6

LEMMA AfterRemoval ==
  ASSUME NEW S, NEW q \in Seq(S), NEW k \in DOMAIN q
  PROVE  /\ RemoveAt(q, k) \in Seq(S)
         /\ \A m \in DOMAIN RemoveAt(q, k) :
              \E i \in DOMAIN q : RemoveAt(q, k)[m] = q[i]
         /\ \A n : Has(RemoveAt(q, k), n) => Has(q, n)
         /\ Has(q, q[k].n)
         /\ Once(q) => Once(RemoveAt(q, k))
         /\ Once(q) /\ q[k].n # 0 => ~Has(RemoveAt(q, k), q[k].n)
<1> DEFINE r == RemoveAt(q, k)
<1>1. /\ r \in Seq(S)
      /\ \A m \in DOMAIN r :
           /\ (IF m < k THEN m ELSE m + 1) \in DOMAIN q
           /\ (IF m < k THEN m ELSE m + 1) # k
           /\ r[m] = q[IF m < k THEN m ELSE m + 1]
  BY Removal
<1> HIDE DEF r
<1>2. \A m \in DOMAIN r : \E i \in DOMAIN q : r[m] = q[i]
  BY <1>1
<1>3. \A n : Has(r, n) => Has(q, n)
  BY <1>1 DEF Has
<1>4. Has(q, q[k].n)
  BY DEF Has
<1>5. DOMAIN r \subseteq Int /\ k \in Int
  BY <1>1
<1>6. Once(q) => Once(r)
  BY SMTT(30), <1>1, <1>5 DEF Once
<1>7. Once(q) /\ q[k].n # 0 => ~Has(r, q[k].n)
  BY <1>1 DEF Once, Has
<1> QED BY <1>1, <1>2, <1>3, <1>4, <1>6, <1>7 DEF r

LEMMA OfNone == (\A n : ~Has(<<>>, n)) /\ Once(<<>>)
BY DEF Has, Once
-----------------------------------------------------------------------------
(* Types. *)

LEMMA JobType ==
  /\ \A c \in Chans, n \in 0 .. MaxArrivals, k \in {"call", "bye", "farewell"} :
       /\ Job(k, c, n) \in Job0
       /\ Job(k, c, n).kind = k /\ Job(k, c, n).chan = c /\ Job(k, c, n).n = n
  /\ \A j \in Job0 : /\ j.kind \in {"call", "bye", "farewell"} /\ j.chan \in Chans
                     /\ j.n \in 0 .. MaxArrivals
BY DEF Job, Job0

(* What a flush takes and where it puts it. *)
LEMMA Flushed ==
  ASSUME UdpTypeOK, NEW c \in Chans, Flush(c)
  PROVE  \E k \in Nat : \E at \in [1 .. k -> DOMAIN wbuf[c]] :
           LET r == [i \in 1 .. k |-> wbuf[c][at[i]]]
           IN /\ \A i, j \in 1 .. k : i < j => at[i] < at[j]
              /\ r \in Seq(Job0)
              /\ \A p \in Peers :
                   sentTo'[p] = IF p = of[c] THEN sentTo[p] \o r ELSE sentTo[p]
              /\ sentTo' \in [Peers -> Seq(Job0)]
<1>1. PICK k \in 0 .. Len(wbuf[c]) : \E at \in [1 .. k -> DOMAIN wbuf[c]] :
        /\ \A i, j \in 1 .. k : i < j => at[i] < at[j]
        /\ sentTo' = [sentTo EXCEPT ![of[c]] = @ \o [i \in 1 .. k |-> wbuf[c][at[i]]]]
  BY DEF Flush, Sending
<1>2. PICK at \in [1 .. k -> DOMAIN wbuf[c]] :
        /\ \A i, j \in 1 .. k : i < j => at[i] < at[j]
        /\ sentTo' = [sentTo EXCEPT ![of[c]] = @ \o [i \in 1 .. k |-> wbuf[c][at[i]]]]
  BY <1>1
<1>3. wbuf[c] \in Seq(Job0) /\ k \in Nat /\ sentTo \in [Peers -> Seq(Job0)]
  BY DEF UdpTypeOK
<1> DEFINE r == [i \in 1 .. k |-> wbuf[c][at[i]]]
<1>4. r \in [1 .. k -> Job0]
  BY <1>2, <1>3
<1>5. r \in Seq(Job0)
  BY <1>3, <1>4
<1>6. sentTo' = [sentTo EXCEPT ![of[c]] = @ \o r]
  BY <1>2
<1> HIDE DEF r
<1>7. \A p \in Peers :
        sentTo'[p] = IF p = of[c] THEN sentTo[p] \o r ELSE sentTo[p]
  BY <1>3, <1>6
<1>8. ASSUME NEW p \in Peers PROVE sentTo'[p] \in Seq(Job0)
  <2>1. sentTo[p] \in Seq(Job0)
    BY <1>3
  <2>2. sentTo[p] \o r \in Seq(Job0)
    BY <1>5, <2>1
  <2> QED BY <1>7, <2>1, <2>2
<1>9. sentTo' \in [Peers -> Seq(Job0)]
  <2>1. sentTo' = [p \in Peers |-> sentTo'[p]]
    BY <1>3, <1>6
  <2> QED BY <1>8, <2>1
<1> QED BY <1>2, <1>3, <1>5, <1>7, <1>9 DEF r

LEMMA InitType == UdpConstants /\ UdpInit => UdpTypeOK
<1> SUFFICES ASSUME UdpConstants, UdpInit PROVE UdpTypeOK
  OBVIOUS
<1>1. /\ <<>> \in Seq(Job0) /\ <<>> \in Seq(Chans)
      /\ <<>> \in Seq([peer : Peers, kind : {"call", "bye", "empty"}, n : 1 .. MaxArrivals])
  OBVIOUS
<1>2. 0 \in 0 .. MaxArrivals
  BY DEF UdpConstants
<1>3. wbuf \in [Chans -> Seq(Job0)] /\ sentTo \in [Peers -> Seq(Job0)]
  BY <1>1 DEF UdpInit
<1>4. loopq \in Seq(Chans) /\ jobs \in Seq(Job0)
      /\ inbox \in Seq([peer : Peers, kind : {"call", "bye", "empty"}, n : 1 .. MaxArrivals])
  BY <1>1 DEF UdpInit
<1> QED BY <1>2, <1>3, <1>4 DEF UdpInit, UdpTypeOK

LEMMA CreateType ==
  ASSUME UdpTypeOK, NEW c \in Chans, NEW p \in Peers, CreateChannel(c, p)
  PROVE  /\ listed' \in [Peers -> Chans \cup {None}]
         /\ of' \in [Chans -> Peers \cup {None}]
         /\ open' \subseteq Chans /\ open \subseteq open'
BY DEF CreateChannel, UdpTypeOK

LEMMA RemovedType ==
  ASSUME UdpTypeOK, NEW c \in Chans, Removed(c)
  PROVE  /\ listed' \in [Peers -> Chans \cup {None}]
         /\ open' \subseteq Chans /\ signalled' \subseteq open'
BY DEF Removed, Dropped, UdpTypeOK

LEMMA NextType == UdpConstants /\ UdpTypeOK /\ Made /\ [UdpNext]_udpVars => UdpTypeOK'
<1> SUFFICES ASSUME UdpConstants, UdpTypeOK, Made, [UdpNext]_udpVars PROVE UdpTypeOK'
  OBVIOUS
<1> USE DEF chanVars, idleVars
<1>0. /\ jobs \in Seq(Job0) /\ loopq \in Seq(Chans) /\ inbox \in Seq(Request)
      /\ MaxArrivals \in Nat
  BY DEF UdpTypeOK, Request, UdpConstants
<1>1. ASSUME NEW p \in Peers, Arrive(p) PROVE UdpTypeOK'
  <2>1. PICK k \in {"call", "bye", "empty"} :
          inbox' = Append(inbox, [peer |-> p, kind |-> k, n |-> arrivals + 1])
    BY <1>1 DEF Arrive
  <2>2. arrivals' = arrivals + 1 /\ arrivals + 1 \in 1 .. MaxArrivals
        /\ UNCHANGED <<listed, of, open, signalled, wbuf, quiet, loopq, waitingFor, todo,
                       jobs, replying, sentTo, crashed>>
    BY <1>0, <1>1 DEF Arrive, UdpTypeOK
  <2>3. [peer |-> p, kind |-> k, n |-> arrivals + 1] \in Request
    BY <2>2 DEF Request
  <2>4. inbox' \in Seq(Request) /\ arrivals' \in 0 .. MaxArrivals
    BY <1>0, <2>1, <2>2, <2>3, AfterAppend
  <2> QED BY <2>2, <2>4 DEF UdpTypeOK, Request
<1>2. ASSUME NEW c \in Chans, FallQuiet(c) PROVE UdpTypeOK'
  BY <1>2 DEF FallQuiet, UdpTypeOK
<1>3. CASE Receive
  <2> DEFINE d == Head(inbox)
  <2>1. /\ inbox # <<>> /\ inbox' = Tail(inbox)
        /\ UNCHANGED <<signalled, wbuf, loopq, waitingFor, todo, arrivals, replying, sentTo,
                       crashed>>
    BY <1>3 DEF Receive, Readable
  <2>2. d \in Request /\ inbox' \in Seq(Request)
    BY <1>0, <2>1, AfterTail
  <2>3. PICK c \in Chans :
          /\ \/ listed[d.peer] = c /\ UNCHANGED chanVars
             \/ listed[d.peer] = None /\ CreateChannel(c, d.peer)
          /\ ReadInto(c, d)
    BY <1>3 DEF Receive, FindOrCreate
  <2>30. d.kind # "empty"
    BY <1>3 DEF Receive, Readable
  <2> HIDE DEF d
  <2>4. /\ d.peer \in Peers /\ d.kind \in {"call", "bye"} /\ d.n \in 0 .. MaxArrivals
    BY <1>0, <2>2, <2>30 DEF Request
  <2>5. jobs' \in Seq(Job0) /\ quiet' \subseteq Chans
    <3>1. Job(d.kind, c, d.n) \in Job0
      BY <2>4, JobType
    <3> QED BY <1>0, <2>3, <3>1, AfterAppend DEF ReadInto, UdpTypeOK
  <2>6. /\ listed' \in [Peers -> Chans \cup {None}]
        /\ of' \in [Chans -> Peers \cup {None}]
        /\ open' \subseteq Chans /\ open \subseteq open'
    BY <2>3, <2>4, CreateType DEF UdpTypeOK
  <2> QED BY <2>1, <2>2, <2>5, <2>6 DEF UdpTypeOK, Request
<1>4. ASSUME NEW c \in Chans, Write(c) PROVE UdpTypeOK'
  <2>1. /\ signalled' = signalled \ {c} /\ c \in signalled
        /\ UNCHANGED <<listed, of, open, quiet, loopq, waitingFor, todo, inbox, arrivals,
                       jobs, replying, crashed>>
    BY <1>4 DEF Write
  <2>2. wbuf' \in [Chans -> Seq(Job0)] /\ sentTo' \in [Peers -> Seq(Job0)]
    <3>1. CASE listed[of[c]] # None
      <4>1. Flush(listed[of[c]])
        BY <1>4, <3>1 DEF Write
      <4>2. of[c] \in Peers
        BY <2>1 DEF UdpTypeOK, Made
      <4>3. listed[of[c]] \in Chans
        BY <3>1, <4>2 DEF UdpTypeOK
      <4>4. sentTo' \in [Peers -> Seq(Job0)]
        BY <4>1, <4>3, Flushed
      <4>5. wbuf' \in [Chans -> Seq(Job0)]
        BY <4>1, <4>3 DEF Flush, UdpTypeOK
      <4> QED BY <4>4, <4>5
    <3>2. CASE listed[of[c]] = None
      BY <1>4, <3>2 DEF Write, UdpTypeOK
    <3> QED BY <3>1, <3>2
  <2> QED BY <2>1, <2>2 DEF UdpTypeOK
<1>5. CASE RunPosted
  <2>1. Head(loopq) \in Chans /\ loopq' \in Seq(Chans)
    BY <1>0, <1>5, AfterTail DEF RunPosted
  <2>2. /\ Removed(Head(loopq))
        /\ UNCHANGED <<of, wbuf, quiet, waitingFor, todo, inbox, arrivals, jobs, replying,
                       sentTo, crashed>>
    BY <1>5 DEF RunPosted
  <2> QED BY <2>1, <2>2, RemovedType DEF UdpTypeOK
<1>6. CASE Idle
  BY <1>6 DEF Idle, Expired, UdpTypeOK
<1>7. ASSUME NEW p \in Peers, TimeOut(p) PROVE UdpTypeOK'
  <2>1. /\ waitingFor' = listed[p] /\ jobs' = Append(jobs, Job("farewell", listed[p], 0))
        /\ listed[p] # None
        /\ UNCHANGED <<listed, of, open, signalled, wbuf, quiet, loopq, todo, inbox,
                       arrivals, replying, sentTo, crashed>>
    BY <1>7 DEF TimeOut, Expired
  <2>2. listed[p] \in Chans
    BY <2>1 DEF UdpTypeOK
  <2>3. Job("farewell", listed[p], 0) \in Job0
    BY <1>0, <2>2, JobType
  <2>4. jobs' \in Seq(Job0)
    BY <1>0, <2>1, <2>3, AfterAppend
  <2> QED BY <2>1, <2>2, <2>4 DEF UdpTypeOK
<1>8. CASE Resume
  <2>1. /\ Removed(waitingFor) /\ waitingFor # None /\ waitingFor' = None
        /\ todo' = todo \ {of[waitingFor]}
        /\ UNCHANGED <<of, wbuf, quiet, loopq, inbox, arrivals, jobs, replying,
                       sentTo, crashed>>
    BY <1>8 DEF Resume
  <2>2. waitingFor \in Chans
    BY <2>1 DEF UdpTypeOK
  <2> QED BY <2>1, <2>2, RemovedType DEF UdpTypeOK
<1>9. CASE Handle
  <2>1. PICK i \in DOMAIN jobs :
          /\ jobs' = RemoveAt(jobs, i)
          /\ replying' = IF jobs[i].kind = "call" /\ Alive(jobs[i].chan)
                         THEN replying \cup {jobs[i]} ELSE replying
          /\ loopq' = IF jobs[i].kind = "bye" /\ Alive(jobs[i].chan)
                      THEN Append(loopq, jobs[i].chan) ELSE loopq
    BY <1>9 DEF Handle
  <2>2. UNCHANGED <<listed, of, open, signalled, wbuf, quiet, waitingFor, todo, inbox,
                    arrivals, sentTo, crashed>>
    BY <1>9 DEF Handle
  <2>3. jobs[i] \in Job0
    BY <1>0
  <2>4. jobs' \in Seq(Job0)
    BY <1>0, <2>1, AfterRemoval
  <2>5. loopq' \in Seq(Chans)
    BY <1>0, <2>1, <2>3, JobType, AfterAppend
  <2>6. replying' \subseteq Job0
    BY <2>1, <2>3 DEF UdpTypeOK
  <2> QED BY <2>2, <2>4, <2>5, <2>6 DEF UdpTypeOK
<1>10. ASSUME NEW j \in replying, Reply(j) PROVE UdpTypeOK'
  <2>1. /\ replying' = replying \ {j}
        /\ wbuf' = [wbuf EXCEPT ![j.chan] = Append(@, j)]
        /\ signalled' = signalled \cup ({j.chan} \cap open)
        /\ crashed' = (j.chan \notin open)
        /\ UNCHANGED <<listed, of, open, quiet, loopq, waitingFor, todo, inbox, arrivals,
                       jobs, sentTo>>
    BY <1>10 DEF Reply
  <2>2. j \in Job0 /\ j.chan \in Chans
    BY <1>10, JobType DEF UdpTypeOK
  <2>3. wbuf' \in [Chans -> Seq(Job0)]
    <3>1. wbuf[j.chan] \in Seq(Job0)
      BY <2>2 DEF UdpTypeOK
    <3>2. Append(wbuf[j.chan], j) \in Seq(Job0)
      BY <2>2, <3>1
    <3> QED BY <2>1, <3>2 DEF UdpTypeOK
  <2>4. crashed' \in BOOLEAN
    BY <2>1
  <2> QED BY <2>1, <2>2, <2>3, <2>4 DEF UdpTypeOK
<1>11. CASE ReadFails
  <2> DEFINE d == Head(inbox)
  <2>1. /\ inbox # <<>> /\ inbox' \in {inbox, Tail(inbox)}
        /\ UNCHANGED <<signalled, wbuf, quiet, loopq, todo, arrivals, replying, sentTo,
                       crashed>>
    BY <1>11 DEF ReadFails, Readable
  <2>2. d \in Request /\ inbox' \in Seq(Request)
    <3>1. d \in Request /\ Tail(inbox) \in Seq(Request)
      BY <1>0, <2>1, AfterTail
    <3> QED BY <1>0, <2>1, <3>1
  <2>3. PICK c \in Chans :
          /\ \/ listed[d.peer] = c /\ UNCHANGED chanVars
             \/ listed[d.peer] = None /\ CreateChannel(c, d.peer)
          /\ \/ UNCHANGED <<waitingFor, jobs>>
             \/ waitingFor' = c /\ jobs' = Append(jobs, Job("farewell", c, 0))
    BY <1>11 DEF ReadFails, FindOrCreate
  <2> HIDE DEF d
  <2>4. d.peer \in Peers
    BY <2>2 DEF Request
  <2>5. jobs' \in Seq(Job0) /\ waitingFor' \in Chans \cup {None}
    <3>1. Job("farewell", c, 0) \in Job0
      BY <1>0, JobType
    <3>2. Append(jobs, Job("farewell", c, 0)) \in Seq(Job0)
      BY <1>0, <3>1, AfterAppend
    <3> QED BY <1>0, <2>3, <3>2 DEF UdpTypeOK
  <2>6. /\ listed' \in [Peers -> Chans \cup {None}]
        /\ of' \in [Chans -> Peers \cup {None}]
        /\ open' \subseteq Chans /\ open \subseteq open'
    BY <2>3, <2>4, CreateType DEF UdpTypeOK
  <2> QED BY <2>1, <2>2, <2>5, <2>6 DEF UdpTypeOK, Request
<1>12. ASSUME NEW c \in Chans, WriteFails(c) PROVE UdpTypeOK'
  <2> DEFINE x == listed[of[c]]
  <2>1. /\ c \in signalled /\ x # None /\ Flush(x) /\ Dropped(x)
        /\ signalled' = signalled \ {c, x}
        /\ UNCHANGED <<of, quiet, loopq, waitingFor, todo, inbox, arrivals, jobs,
                       replying, crashed>>
    BY <1>12 DEF WriteFails
  <2>2. of[c] \in Peers
    BY <2>1 DEF UdpTypeOK, Made
  <2>3. x \in Chans
    BY <2>1, <2>2 DEF UdpTypeOK
  <2> HIDE DEF x
  <2>4. sentTo' \in [Peers -> Seq(Job0)]
    BY <2>1, <2>3, Flushed
  <2>5. wbuf' \in [Chans -> Seq(Job0)]
    BY <2>1, <2>3 DEF Flush, UdpTypeOK
  <2>6. /\ listed' \in [Peers -> Chans \cup {None}]
        /\ open' \subseteq Chans /\ signalled' \subseteq open'
    BY <2>1, <2>3 DEF Dropped, UdpTypeOK
  <2> QED BY <2>1, <2>4, <2>5, <2>6 DEF UdpTypeOK
<1>13. CASE UNCHANGED udpVars
  BY <1>13 DEF udpVars, UdpTypeOK
<1> QED BY <1>1, <1>2, <1>3, <1>4, <1>5, <1>6, <1>7, <1>8, <1>9, <1>10, <1>11, <1>12, <1>13
        DEF UdpNext, Loop
-----------------------------------------------------------------------------
(* Which channel a peer has. *)

(* A channel object is of one peer for good. *)
LEMMA OfStays ==
  ASSUME UdpTypeOK, UdpNext
  PROVE  \A c \in Chans : of[c] # None => of'[c] = of[c]
<1>1. of' = of \/ \E c \in Chans, p \in Peers : CreateChannel(c, p)
  <2>1. ASSUME Receive \/ ReadFails PROVE of' = of \/ \E c \in Chans, p \in Peers : CreateChannel(c, p)
    <3>1. Head(inbox) \in Request
      <4>1. inbox \in Seq(Request) /\ inbox # <<>>
        BY <2>1 DEF Receive, ReadFails, Readable, UdpTypeOK, Request
      <4> QED BY <4>1, AfterTail
    <3>2. Head(inbox).peer \in Peers
      BY <3>1 DEF Request
    <3> QED BY <2>1, <3>2 DEF Receive, ReadFails, FindOrCreate, chanVars
  <2> QED BY <2>1 DEF UdpNext, Loop, Arrive, FallQuiet, Write, WriteFails, RunPosted,
             Idle, Resume, TimeOut, Handle, Reply, chanVars
<1>2. ASSUME NEW d \in Chans, NEW p \in Peers, CreateChannel(d, p)
      PROVE  \A c \in Chans : of[c] # None => of'[c] = of[c]
  BY <1>2 DEF CreateChannel, UdpTypeOK
<1> QED BY <1>1, <1>2

LEMMA CreateServes ==
  ASSUME UdpConstants, UdpTypeOK, Made, Latest, OneServes,
         NEW c \in Chans, NEW p \in Peers, CreateChannel(c, p), listed[p] = None
  PROVE  (Latest /\ OneServes)'
<1>1. /\ of[c] = None /\ \A d \in 1 .. c - 1 : of[d] # None
      /\ of'[c] = p /\ \A d \in Chans : d # c => of'[d] = of[d]
      /\ open' = open \cup {c}
      /\ listed'[p] = c /\ \A q \in Peers : q # p => listed'[q] = listed[q]
      /\ p # None /\ c # None
      /\ Chans \subseteq Int
  BY DEF CreateChannel, UdpTypeOK, UdpConstants, Chans
<1>2. ASSUME NEW d \in Chans, of'[d] = p PROVE d <= c
  <2>1. CASE d > c
    <3>1. c \in 1 .. d - 1
      BY <1>1, <2>1 DEF Chans
    <3>2. of[d] = p
      BY <1>1, <1>2, <2>1
    <3> QED BY <1>1, <3>1, <3>2 DEF Made
  <2> QED BY <1>1, <2>1
<1>3. ASSUME NEW q \in Peers, q # p, NEW d \in Chans, of'[d] = q PROVE of[d] = q
  BY <1>1, <1>3
<1>4. Latest'
  BY <1>1, <1>2, <1>3 DEF Latest
<1>5. ASSUME NEW q \in Peers, listed'[q] # None
      PROVE  listed'[q] \in open' /\ of'[listed'[q]] = q
  <2>1. CASE q = p
    BY <1>1, <2>1
  <2>2. CASE q # p
    <3>1. listed'[q] = listed[q] /\ listed[q] \in open /\ of[listed[q]] = q
          /\ listed[q] \in Chans
      BY <1>1, <1>5, <2>2 DEF OneServes, UdpTypeOK
    <3>2. of[listed[q]] # None
      BY <3>1 DEF Made
    <3> QED BY <1>1, <3>1, <3>2
  <2> QED BY <2>1, <2>2
<1>6. ASSUME NEW e \in open'
      PROVE  Listed(e)' \/ \E d \in 1 .. e - 1 : of'[d] = of'[e]
  <2>1. CASE e = c
    BY <1>1, <2>1 DEF Listed
  <2>2. CASE e # c
    <3>1. e \in open /\ e \in Chans /\ of'[e] = of[e] /\ of[e] # None
      BY <1>1, <1>6, <2>2 DEF UdpTypeOK, Made
    <3>2. CASE Listed(e)
      <4>1. PICK q \in Peers : listed[q] = e
        BY <3>2 DEF Listed
      <4>2. q # p
        BY <3>1, <4>1 DEF UdpConstants
      <4> QED BY <1>1, <4>1, <4>2 DEF Listed
    <3>3. CASE \E d \in 1 .. e - 1 : of[d] = of[e]
      <4>1. PICK d \in 1 .. e - 1 : of[d] = of[e]
        BY <3>3
      <4>2. d \in Chans
        BY <1>1, <3>1, <4>1 DEF Chans, UdpConstants
      <4>3. of'[d] = of[d]
        BY <1>1, <3>1, <4>1, <4>2
      <4> QED BY <3>1, <4>1, <4>3
    <3> QED BY <3>1, <3>2, <3>3 DEF OneServes
  <2> QED BY <2>1, <2>2
<1>7. OneServes'
  BY <1>5, <1>6 DEF OneServes
<1> QED BY <1>4, <1>7

LEMMA DroppedServes ==
  ASSUME UdpConstants, UdpTypeOK, Made, Latest, OneServes, BufferSignalled,
         NEW x \in Chans, of[x] # None, Dropped(x), of' = of,
         \A d \in Chans : of[d] # of[x] =>
           wbuf'[d] = wbuf[d] /\ (d \in signalled => d \in signalled')
  PROVE  (Latest /\ OneServes /\ BufferSignalled)'
<1>1. /\ of[x] \in Peers /\ Chans \subseteq Int
      /\ open' = open \ {x}
      /\ listed'[of[x]] = None
      /\ \A q \in Peers : q # of[x] => listed'[q] = listed[q]
  BY DEF Dropped, UdpTypeOK, Chans
<1>2. ASSUME NEW q \in Peers, listed'[q] # None
      PROVE  /\ q # of[x] /\ listed'[q] = listed[q] /\ listed[q] # None
             /\ of[listed[q]] = q /\ listed[q] \in open'
  BY <1>1, <1>2 DEF OneServes
<1>3. Latest'
  BY <1>2 DEF Latest
<1>4. ASSUME NEW e \in open'
      PROVE  Listed(e)' \/ \E d \in 1 .. e - 1 : of'[d] = of'[e]
  <2>1. e \in open /\ e # x /\ e \in Chans
    BY <1>1, <1>4 DEF UdpTypeOK
  <2>2. CASE Listed(e)
    <3>1. PICK q \in Peers : listed[q] = e
      BY <2>2 DEF Listed
    <3>2. CASE q # of[x]
      BY <1>1, <3>1, <3>2 DEF Listed
    <3>3. CASE q = of[x]
      <4>1. listed[q] # None /\ of[e] = q
        BY <2>1, <3>1 DEF OneServes, UdpConstants
      <4>2. x <= e
        BY <3>1, <3>3, <4>1 DEF Latest
      <4>3. x \in 1 .. e - 1
        BY <1>1, <2>1, <4>2 DEF Chans
      <4> QED BY <3>3, <4>1, <4>3
    <3> QED BY <3>2, <3>3
  <2>3. CASE \E d \in 1 .. e - 1 : of[d] = of[e]
    BY <2>3
  <2> QED BY <2>1, <2>2, <2>3 DEF OneServes
<1>5. OneServes'
  BY <1>2, <1>4 DEF OneServes
<1>6. BufferSignalled'
  <2> SUFFICES ASSUME NEW c \in Chans, Listed(c)', wbuf'[c] # <<>> PROVE c \in signalled'
    BY DEF BufferSignalled
  <2>1. PICK q \in Peers : listed'[q] = c
    BY DEF Listed
  <2>2. c # None
    BY DEF UdpConstants
  <2>3. listed[q] = c /\ of[c] = q /\ q # of[x]
    BY <1>2, <2>1, <2>2
  <2>4. Listed(c)
    BY <2>3 DEF Listed
  <2>5. wbuf'[c] = wbuf[c] /\ c \in signalled
    BY <2>3, <2>4 DEF BufferSignalled
  <2> QED BY <2>3, <2>5
<1> QED BY <1>3, <1>5, <1>6

LEMMA RemovedServes ==
  ASSUME UdpConstants, UdpTypeOK, Made, Latest, OneServes, BufferSignalled,
         NEW x \in Chans, of[x] # None, Removed(x), of' = of, wbuf' = wbuf
  PROVE  (Latest /\ OneServes /\ BufferSignalled)'
BY DroppedServes DEF Removed

(* The steps that leave the filing of channels alone. *)
LEMMA ServesSame ==
  ASSUME Latest, OneServes, UNCHANGED chanVars
  PROVE  (Latest /\ OneServes)'
BY DEF Latest, OneServes, Listed, chanVars

LEMMA SignalledSame ==
  ASSUME BufferSignalled, UNCHANGED <<listed, wbuf, signalled>>
  PROVE  BufferSignalled'
BY DEF BufferSignalled, Listed

LEMMA ListedMade ==
  ASSUME UdpTypeOK, Made, OneServes, NEW p \in Peers, listed[p] # None
  PROVE  listed[p] \in Chans /\ of[listed[p]] = p /\ of[listed[p]] # None
BY DEF UdpTypeOK, Made, OneServes

LEMMA NextServes ==
  ASSUME UdpConstants, Sound, UdpNext
  PROVE  (Latest /\ OneServes /\ BufferSignalled)'
<1>0. UdpTypeOK /\ Made /\ Latest /\ OneServes /\ BufferSignalled
      /\ loopq \in Seq(Chans) /\ inbox \in Seq(Request)
  BY DEF Sound, UdpTypeOK, Request
<1>1. CASE \/ \E p \in Peers : Arrive(p) \/ TimeOut(p)
           \/ \E c \in Chans : FallQuiet(c)
           \/ Idle \/ Handle
  <2>1. UNCHANGED <<listed, of, open, wbuf, signalled>>
    BY <1>1 DEF Arrive, TimeOut, FallQuiet, Idle, Handle, chanVars
  <2> QED BY <1>0, <2>1, ServesSame, SignalledSame DEF chanVars
<1>2. CASE Receive \/ ReadFails
  <2>1. Head(inbox) \in Request /\ UNCHANGED <<wbuf, signalled>>
    BY <1>0, <1>2, AfterTail DEF Receive, ReadFails, Readable
  <2>2. PICK c \in Chans :
          \/ UNCHANGED chanVars
          \/ listed[Head(inbox).peer] = None /\ CreateChannel(c, Head(inbox).peer)
    BY <1>2 DEF Receive, ReadFails, FindOrCreate
  <2> DEFINE p == Head(inbox).peer
  <2>3. p \in Peers
    BY <2>1 DEF Request
  <2> HIDE DEF p
  <2>4. CASE UNCHANGED chanVars
    BY <1>0, <2>1, <2>4, ServesSame, SignalledSame DEF chanVars
  <2>5. CASE listed[p] = None /\ CreateChannel(c, p)
    <3>1. (Latest /\ OneServes)'
      BY <1>0, <2>3, <2>5, CreateServes
    <3>2. wbuf[c] = <<>>
      BY <1>0, <2>5 DEF CreateChannel, Made
    <3>3. BufferSignalled'
      <4> SUFFICES ASSUME NEW d \in Chans, Listed(d)', wbuf[d] # <<>>
                   PROVE  d \in signalled
        BY <2>1 DEF BufferSignalled
      <4>1. PICK q \in Peers : listed'[q] = d
        BY DEF Listed
      <4>2. d # c
        BY <3>2
      <4>3. listed[q] = d
        BY <1>0, <2>3, <2>5, <4>1, <4>2 DEF CreateChannel, UdpTypeOK
      <4> QED BY <1>0, <4>3 DEF BufferSignalled, Listed
    <3> QED BY <3>1, <3>3
  <2> QED BY <2>2, <2>4, <2>5 DEF p
<1>3. ASSUME NEW c \in Chans, Write(c) PROVE (Latest /\ OneServes /\ BufferSignalled)'
  <2>1. /\ c \in signalled /\ signalled' = signalled \ {c}
        /\ UNCHANGED <<listed, of, open>>
    BY <1>3 DEF Write, chanVars
  <2>2. (Latest /\ OneServes)'
    BY <1>0, <2>1, ServesSame DEF chanVars
  <2>3. of[c] \in Peers
    BY <1>0, <2>1 DEF UdpTypeOK, Made
  <2>4. ASSUME NEW d \in Chans, Listed(d), wbuf'[d] # <<>> PROVE d \in signalled \ {c}
    <3>1. PICK q \in Peers : listed[q] = d
      BY <2>4 DEF Listed
    <3>2. of[d] = q /\ d # None
      BY <1>0, <3>1 DEF OneServes, UdpConstants
    <3>3. CASE listed[of[c]] # None
      <4> DEFINE e == listed[of[c]]
      <4>1. e \in Chans
        BY <1>0, <2>3, <3>3 DEF UdpTypeOK
      <4>2. wbuf' = [wbuf EXCEPT ![e] = <<>>]
        BY <1>3, <3>3 DEF Write, Flush
      <4> HIDE DEF e
      <4>3. d # e /\ wbuf'[d] = wbuf[d]
        BY <1>0, <2>4, <4>1, <4>2 DEF UdpTypeOK
      <4>4. d # c
        BY <3>1, <3>2, <4>3 DEF e
      <4>5. d \in signalled
        BY <1>0, <2>4, <4>3 DEF BufferSignalled
      <4> QED BY <4>4, <4>5
    <3>4. CASE listed[of[c]] = None
      <4>1. wbuf' = wbuf
        BY <1>3, <3>4 DEF Write
      <4>2. d # c
        BY <3>1, <3>2, <3>4
      <4> QED BY <1>0, <2>4, <4>1, <4>2 DEF BufferSignalled
    <3> QED BY <3>3, <3>4
  <2>5. BufferSignalled'
    BY <2>1, <2>4 DEF BufferSignalled, Listed
  <2> QED BY <2>2, <2>5
<1>4. CASE RunPosted
  <2>1. loopq # <<>> /\ Removed(Head(loopq)) /\ of' = of /\ wbuf' = wbuf
    BY <1>4 DEF RunPosted
  <2>2. Head(loopq) \in Chans /\ 1 \in DOMAIN loopq /\ Head(loopq) = loopq[1]
    BY <1>0, <2>1, AfterTail
  <2>3. of[Head(loopq)] # None
    BY <1>0, <2>2 DEF Made
  <2> QED BY <1>0, <2>1, <2>2, <2>3, RemovedServes
<1>5. CASE Resume
  <2>1. waitingFor # None /\ Removed(waitingFor) /\ of' = of /\ wbuf' = wbuf
    BY <1>5 DEF Resume
  <2>2. waitingFor \in Chans /\ of[waitingFor] # None
    BY <1>0, <2>1 DEF UdpTypeOK, Made
  <2> QED BY <1>0, <2>1, <2>2, RemovedServes
<1>6. ASSUME NEW j \in replying, Reply(j) PROVE (Latest /\ OneServes /\ BufferSignalled)'
  <2>1. /\ wbuf' = [wbuf EXCEPT ![j.chan] = Append(@, j)]
        /\ signalled' = signalled \cup ({j.chan} \cap open)
        /\ UNCHANGED <<listed, of, open>>
    BY <1>6 DEF Reply, chanVars
  <2>2. (Latest /\ OneServes)'
    BY <1>0, <2>1, ServesSame DEF chanVars
  <2>3. ASSUME NEW d \in Chans, Listed(d), wbuf'[d] # <<>> PROVE d \in signalled'
    <3>1. d \in open
      BY <1>0, <2>3 DEF OneServes, Listed, UdpConstants
    <3>2. CASE d = j.chan
      BY <2>1, <3>1, <3>2
    <3>3. CASE d # j.chan
      <4>1. wbuf'[d] = wbuf[d]
        BY <1>0, <2>1, <3>3 DEF UdpTypeOK
      <4> QED BY <1>0, <2>1, <2>3, <4>1 DEF BufferSignalled
    <3> QED BY <3>2, <3>3
  <2>4. BufferSignalled'
    BY <2>1, <2>3 DEF BufferSignalled, Listed
  <2> QED BY <2>2, <2>4
<1>7. ASSUME NEW c \in Chans, WriteFails(c) PROVE (Latest /\ OneServes /\ BufferSignalled)'
  <2> DEFINE x == listed[of[c]]
  <2>1. /\ c \in signalled /\ signalled' = signalled \ {c, x} /\ x # None
        /\ of' = of /\ Dropped(x) /\ wbuf' = [wbuf EXCEPT ![x] = <<>>]
    BY <1>7 DEF WriteFails, Flush
  <2>2. of[c] \in Peers
    BY <1>0, <2>1 DEF UdpTypeOK, Made
  <2>3. x \in Chans /\ of[x] = of[c] /\ of[x] # None
    BY <1>0, <2>1, <2>2, ListedMade
  <2> HIDE DEF x
  <2>4. \A d \in Chans : of[d] # of[x] =>
          wbuf'[d] = wbuf[d] /\ (d \in signalled => d \in signalled')
    BY <1>0, <2>1, <2>3 DEF UdpTypeOK
  <2> QED BY <1>0, <2>1, <2>3, <2>4, DroppedServes
<1> QED BY <1>1, <1>2, <1>3, <1>4, <1>5, <1>6, <1>7 DEF UdpNext, Loop

LEMMA NextMade ==
  ASSUME UdpConstants, Sound, UdpNext
  PROVE  Made'
<1>0. UdpTypeOK /\ Made /\ OneServes
      /\ jobs \in Seq(Job0) /\ loopq \in Seq(Chans) /\ inbox \in Seq(Request)
  BY DEF Sound, UdpTypeOK, Request
<1>1. \A c \in Chans : of[c] # None => of'[c] # None
  BY <1>0, OfStays
(* What does not name another channel than before. *)
<1>2. ASSUME of' = of, open' \subseteq open, wbuf' = wbuf, jobs' = jobs,
             replying' = replying, loopq' = loopq, waitingFor' = waitingFor
      PROVE  Made'
  BY <1>0, <1>2 DEF Made
<1>3. CASE \/ \E p \in Peers : Arrive(p)
           \/ \E c \in Chans : FallQuiet(c)
           \/ Idle
  BY <1>2, <1>3 DEF Arrive, FallQuiet, Idle, chanVars, idleVars
<1>4. CASE Receive \/ ReadFails
  <2> DEFINE d == Head(inbox)
  <2>1. d \in Request /\ d.kind # "empty" /\ UNCHANGED <<wbuf, loopq, replying>>
    BY <1>0, <1>4, AfterTail DEF Receive, ReadFails, Readable, idleVars
  <2>2. /\ d.peer \in Peers /\ d.kind \in {"call", "bye"} /\ d.n \in 0 .. MaxArrivals
        /\ 0 \in 0 .. MaxArrivals
    BY <2>1 DEF Request, UdpConstants
  <2>3. PICK c \in Chans :
          /\ \/ listed[d.peer] = c /\ UNCHANGED chanVars
             \/ listed[d.peer] = None /\ CreateChannel(c, d.peer)
          /\ waitingFor' \in {waitingFor, c}
          /\ \/ jobs' = jobs
             \/ \E k \in {"call", "bye", "farewell"}, n \in 0 .. MaxArrivals :
                  jobs' = Append(jobs, Job(k, c, n))
    BY <1>4, <2>2 DEF Receive, ReadFails, FindOrCreate, ReadInto, idleVars
  <2> HIDE DEF d
  <2>4. of'[c] # None
    <3>1. CASE listed[d.peer] = c /\ UNCHANGED chanVars
      <4>1. c # None
        BY DEF UdpConstants
      <4> QED BY <1>0, <2>2, <3>1, <4>1, ListedMade DEF chanVars
    <3>2. CASE CreateChannel(c, d.peer)
      BY <1>0, <2>2, <3>2 DEF CreateChannel, UdpTypeOK, UdpConstants
    <3> QED BY <2>3, <3>1, <3>2
  <2>5. \A i \in DOMAIN jobs' : of'[jobs'[i].chan] # None
    <3>0. \A i \in DOMAIN jobs : of'[jobs[i].chan] # None
      <4>1. \A i \in DOMAIN jobs : jobs[i].chan \in Chans /\ of[jobs[i].chan] # None
        BY <1>0, JobType DEF Made
      <4> QED BY <1>1, <4>1
    <3>1. ASSUME NEW k \in {"call", "bye", "farewell"}, NEW n \in 0 .. MaxArrivals,
                 jobs' = Append(jobs, Job(k, c, n))
          PROVE  \A i \in DOMAIN jobs' : of'[jobs'[i].chan] # None
      <4>1. Job(k, c, n) \in Job0 /\ Job(k, c, n).chan = c
        BY JobType
      <4>2. /\ DOMAIN jobs' = DOMAIN jobs \cup {Len(jobs) + 1}
            /\ jobs'[Len(jobs) + 1] = Job(k, c, n)
            /\ \A i \in DOMAIN jobs : jobs'[i] = jobs[i]
        BY <1>0, <3>1, <4>1, AfterAppend
      <4> QED BY <2>4, <3>0, <4>1, <4>2
    <3> QED BY <2>3, <3>0, <3>1
  <2>6. /\ \A e \in Chans : of'[e] # None => \A b \in 1 .. e - 1 : of'[b] # None
        /\ \A e \in open' : of'[e] # None
    <3>1. CASE UNCHANGED chanVars
      BY <1>0, <3>1 DEF chanVars, Made
    <3>2. CASE CreateChannel(c, d.peer)
      <4>1. /\ \A b \in 1 .. c - 1 : of[b] # None
            /\ \A e \in Chans : e # c => of'[e] = of[e]
            /\ open' = open \cup {c}
            /\ open \subseteq Chans /\ Chans = 1 .. NumChans /\ NumChans \in Nat
        BY <1>0, <3>2 DEF CreateChannel, UdpTypeOK, Chans, UdpConstants
      <4>2. ASSUME NEW e \in Chans, of'[e] # None, NEW b \in 1 .. e - 1
            PROVE  of'[b] # None
        <5>1. b \in Chans
          BY <4>1
        <5>2. CASE e = c
          BY <1>1, <4>1, <5>1, <5>2
        <5>3. CASE e # c
          BY <1>0, <1>1, <4>1, <4>2, <5>1, <5>3 DEF Made
        <5> QED BY <5>2, <5>3
      <4>3. ASSUME NEW e \in open' PROVE of'[e] # None
        <5>1. CASE e = c
          BY <2>4, <5>1
        <5>2. CASE e # c
          BY <1>0, <1>1, <4>1, <4>3, <5>2 DEF Made
        <5> QED BY <5>1, <5>2
      <4> QED BY <4>2, <4>3
    <3> QED BY <2>3, <3>1, <3>2
  <2>7. \A j \in replying : j.chan \in Chans
    BY <1>0, JobType DEF UdpTypeOK
  <2>8. \A i \in DOMAIN loopq : loopq[i] \in Chans
    BY <1>0
  <2>9. waitingFor' # None => of'[waitingFor'] # None
    BY <1>0, <1>1, <2>3, <2>4 DEF UdpTypeOK, Made
  <2> QED BY <1>0, <1>1, <2>1, <2>5, <2>6, <2>7, <2>8, <2>9 DEF Made
<1>5. ASSUME NEW c \in Chans, Write(c) PROVE Made'
  <2>1. /\ UNCHANGED <<of, open, jobs, replying, loopq, waitingFor>>
        /\ c \in signalled
    BY <1>5 DEF Write, chanVars, idleVars
  <2>2. \A d \in Chans : wbuf'[d] # <<>> => of[d] # None
    <3>1. CASE listed[of[c]] # None
      <4>1. of[c] \in Peers
        BY <1>0, <2>1 DEF UdpTypeOK, Made
      <4>2. listed[of[c]] \in Chans
        BY <1>0, <3>1, <4>1 DEF UdpTypeOK
      <4>3. wbuf' = [wbuf EXCEPT ![listed[of[c]]] = <<>>]
        BY <1>5, <3>1 DEF Write, Flush
      <4> QED BY <1>0, <4>2, <4>3 DEF Made, UdpTypeOK
    <3>2. CASE listed[of[c]] = None
      BY <1>0, <1>5, <3>2 DEF Write, Made
    <3> QED BY <3>1, <3>2
  <2> QED BY <1>0, <2>1, <2>2 DEF Made
<1>6. CASE RunPosted
  <2>1. /\ UNCHANGED <<of, wbuf, waitingFor, jobs, replying>> /\ open' \subseteq open
        /\ loopq # <<>> /\ loopq' = Tail(loopq)
    BY <1>6 DEF RunPosted, Removed, Dropped, idleVars
  <2>2. \A i \in DOMAIN loopq' : i + 1 \in DOMAIN loopq /\ loopq'[i] = loopq[i + 1]
    BY <1>0, <2>1, AfterTail
  <2> QED BY <1>0, <2>1, <2>2 DEF Made
<1>7. CASE Resume
  <2>1. /\ UNCHANGED <<of, wbuf, loopq, jobs, replying>> /\ open' \subseteq open
        /\ waitingFor' = None
    BY <1>7 DEF Resume, Removed, Dropped
  <2> QED BY <1>0, <2>1 DEF Made
<1>8. ASSUME NEW p \in Peers, TimeOut(p) PROVE Made'
  <2>1. /\ UNCHANGED <<of, open, wbuf, loopq, replying>>
        /\ waitingFor' = listed[p] /\ listed[p] # None
        /\ jobs' = Append(jobs, Job("farewell", listed[p], 0))
    BY <1>8 DEF TimeOut, Expired, chanVars
  <2>2. listed[p] \in Chans /\ of[listed[p]] # None
    BY <1>0, <2>1, ListedMade
  <2>3. Job("farewell", listed[p], 0) \in Job0 /\ Job("farewell", listed[p], 0).chan = listed[p]
    BY <2>2, JobType DEF UdpConstants
  <2>4. /\ DOMAIN jobs' = DOMAIN jobs \cup {Len(jobs) + 1}
        /\ jobs'[Len(jobs) + 1] = Job("farewell", listed[p], 0)
        /\ \A i \in DOMAIN jobs : jobs'[i] = jobs[i]
    BY <1>0, <2>1, <2>3, AfterAppend
  <2> QED BY <1>0, <2>1, <2>2, <2>3, <2>4 DEF Made
<1>9. CASE Handle
  <2>1. PICK i \in DOMAIN jobs :
          /\ jobs' = RemoveAt(jobs, i)
          /\ replying' \in {replying, replying \cup {jobs[i]}}
          /\ loopq' \in {loopq, Append(loopq, jobs[i].chan)}
    BY <1>9 DEF Handle
  <2>2. UNCHANGED <<of, open, wbuf, waitingFor>>
    BY <1>9 DEF Handle, chanVars, idleVars
  <2>3. jobs[i].chan \in Chans /\ of[jobs[i].chan] # None
    BY <1>0, JobType DEF Made
  <2>4. \A m \in DOMAIN jobs' : \E k \in DOMAIN jobs : jobs'[m] = jobs[k]
    BY <1>0, <2>1, AfterRemoval
  <2>5. \A k \in DOMAIN loopq' : of[loopq'[k]] # None
    <3>1. CASE loopq' = loopq
      BY <1>0, <3>1 DEF Made
    <3>2. CASE loopq' = Append(loopq, jobs[i].chan)
      <4>1. /\ DOMAIN loopq' = DOMAIN loopq \cup {Len(loopq) + 1}
            /\ loopq'[Len(loopq) + 1] = jobs[i].chan
            /\ \A k \in DOMAIN loopq : loopq'[k] = loopq[k]
        BY <1>0, <2>3, <3>2, AfterAppend
      <4> QED BY <1>0, <2>3, <4>1 DEF Made
    <3> QED BY <2>1, <3>1, <3>2
  <2> QED BY <1>0, <2>1, <2>2, <2>3, <2>4, <2>5 DEF Made
<1>10. ASSUME NEW j \in replying, Reply(j) PROVE Made'
  <2>1. /\ replying' \subseteq replying
        /\ wbuf' = [wbuf EXCEPT ![j.chan] = Append(@, j)]
        /\ UNCHANGED <<of, open, loopq, waitingFor, jobs>>
    BY <1>10 DEF Reply, chanVars, idleVars
  <2>2. of[j.chan] # None
    BY <1>0 DEF Made
  <2>3. \A d \in Chans : wbuf'[d] # <<>> => of[d] # None
    BY <1>0, <2>1, <2>2 DEF Made, UdpTypeOK
  <2> QED BY <1>0, <2>1, <2>3 DEF Made
<1>11. ASSUME NEW c \in Chans, WriteFails(c) PROVE Made'
  <2> DEFINE x == listed[of[c]]
  <2>1. /\ UNCHANGED <<of, jobs, replying, loopq, waitingFor>>
        /\ open' \subseteq open /\ c \in signalled /\ x # None
        /\ wbuf' = [wbuf EXCEPT ![x] = <<>>]
    BY <1>11 DEF WriteFails, Dropped, Flush, idleVars
  <2>2. of[c] \in Peers
    BY <1>0, <2>1 DEF UdpTypeOK, Made
  <2>3. x \in Chans
    BY <1>0, <2>1, <2>2 DEF UdpTypeOK
  <2> HIDE DEF x
  <2>4. \A d \in Chans : wbuf'[d] # <<>> => of[d] # None
    BY <1>0, <2>1, <2>3 DEF Made, UdpTypeOK
  <2> QED BY <1>0, <2>1, <2>4 DEF Made
<1> QED BY <1>3, <1>4, <1>5, <1>6, <1>7, <1>8, <1>9, <1>10, <1>11 DEF UdpNext, Loop

LEMMA SoundStep == UdpConstants /\ Sound /\ [UdpNext]_udpVars => Sound'
<1> SUFFICES ASSUME UdpConstants, Sound, [UdpNext]_udpVars PROVE Sound'
  OBVIOUS
<1>1. UdpTypeOK'
  BY NextType DEF Sound
<1>2. CASE UdpNext
  BY <1>1, <1>2, NextMade, NextServes DEF Sound
<1>3. CASE UNCHANGED udpVars
  BY <1>1, <1>3 DEF udpVars, Sound, Made, Latest, OneServes, BufferSignalled, Listed
<1> QED BY <1>2, <1>3

LEMMA SoundInit == UdpConstants /\ UdpInit => Sound
<1> SUFFICES ASSUME UdpConstants, UdpInit PROVE Sound
  OBVIOUS
<1>1. UdpTypeOK
  BY InitType
<1>2. Made /\ Latest /\ OneServes /\ BufferSignalled
  BY DEF UdpInit, Made, Latest, OneServes, BufferSignalled
<1> QED BY <1>1, <1>2 DEF Sound
-----------------------------------------------------------------------------
(* Where the datagrams are. *)

LEMMA AfterConcat ==
  ASSUME NEW S, NEW q \in Seq(S), NEW r \in Seq(S)
  PROVE  /\ \A i \in DOMAIN (q \o r) :
              \/ \E k \in DOMAIN q : (q \o r)[i] = q[k]
              \/ \E k \in DOMAIN r : (q \o r)[i] = r[k]
         /\ \A n : Has(q \o r, n) => Has(q, n) \/ Has(r, n)
         /\ Once(q) /\ Once(r) /\ (\A n : Has(q, n) /\ Has(r, n) => n = 0)
            => Once(q \o r)
<1>1. /\ DOMAIN q = 1 .. Len(q) /\ Len(q) \in Nat
      /\ DOMAIN r = 1 .. Len(r) /\ Len(r) \in Nat
      /\ DOMAIN (q \o r) = 1 .. Len(q) + Len(r)
      /\ \A i \in 1 .. Len(q) : (q \o r)[i] = q[i]
      /\ \A i \in 1 .. Len(q) + Len(r) : i > Len(q) => (q \o r)[i] = r[i - Len(q)]
  OBVIOUS
<1>2. \A i \in 1 .. Len(q) + Len(r) : i > Len(q) => i - Len(q) \in 1 .. Len(r)
  BY <1>1
<1> DEFINE qr == q \o r
<1>3. \A i \in DOMAIN qr :
        \/ i \in DOMAIN q /\ qr[i] = q[i]
        \/ i > Len(q) /\ i - Len(q) \in DOMAIN r /\ qr[i] = r[i - Len(q)]
  BY <1>1, <1>2
<1>4. DOMAIN qr \subseteq Int /\ Len(q) \in Nat /\ \A i \in DOMAIN q : ~(i > Len(q))
  BY <1>1
<1> HIDE DEF qr
<1>5. \A i \in DOMAIN qr :
        \/ \E k \in DOMAIN q : qr[i] = q[k]
        \/ \E k \in DOMAIN r : qr[i] = r[k]
  BY <1>3
<1>6. \A n : Has(qr, n) => Has(q, n) \/ Has(r, n)
  BY <1>5 DEF Has
<1>7. ASSUME Once(q), Once(r), \A n : Has(q, n) /\ Has(r, n) => n = 0
      PROVE  Once(qr)
  <2> SUFFICES ASSUME NEW i \in DOMAIN qr, NEW k \in DOMAIN qr,
                      qr[i].n = qr[k].n, qr[i].n # 0
               PROVE  i = k
    BY DEF Once
  <2>1. CASE i \in DOMAIN q /\ qr[i] = q[i] /\ k \in DOMAIN q /\ qr[k] = q[k]
    BY <1>7, <2>1 DEF Once
  <2>2. CASE /\ i - Len(q) \in DOMAIN r /\ qr[i] = r[i - Len(q)]
             /\ k - Len(q) \in DOMAIN r /\ qr[k] = r[k - Len(q)]
    <3>1. i - Len(q) = k - Len(q)
      BY <1>7, <2>2 DEF Once
    <3> QED BY <1>4, <3>1
  <2>3. CASE /\ i \in DOMAIN q /\ qr[i] = q[i]
             /\ k - Len(q) \in DOMAIN r /\ qr[k] = r[k - Len(q)]
    <3>1. Has(q, qr[i].n) /\ Has(r, qr[i].n)
      BY <2>3 DEF Has
    <3> QED BY <1>7, <3>1
  <2>4. CASE /\ k \in DOMAIN q /\ qr[k] = q[k]
             /\ i - Len(q) \in DOMAIN r /\ qr[i] = r[i - Len(q)]
    <3>1. Has(q, qr[i].n) /\ Has(r, qr[i].n)
      BY <2>4 DEF Has
    <3> QED BY <1>7, <3>1
  <2> QED BY <1>3, <2>1, <2>2, <2>3, <2>4
<1> QED BY <1>5, <1>6, <1>7 DEF qr

(* Some elements of a sequence, in their order. *)
LEMMA Selected ==
  ASSUME NEW q, Once(q), NEW k \in Nat, NEW at \in [1 .. k -> DOMAIN q],
         DOMAIN q \subseteq Int,
         \A i, j \in 1 .. k : i < j => at[i] < at[j],
         NEW r, DOMAIN r = 1 .. k, \A i \in 1 .. k : r[i] = q[at[i]]
  PROVE  /\ \A i \in DOMAIN r : \E j \in DOMAIN q : r[i] = q[j]
         /\ \A n : Has(r, n) => Has(q, n)
         /\ Once(r)
<1>1. \A i \in DOMAIN r : i \in 1 .. k /\ at[i] \in DOMAIN q /\ r[i] = q[at[i]]
  OBVIOUS
<1>2. ASSUME NEW i \in 1 .. k, NEW j \in 1 .. k, at[i] = at[j] PROVE i = j
  <2>1. ~(i < j) /\ ~(j < i)
    BY <1>2
  <2> QED BY <2>1
<1>3. Once(r)
  BY <1>1, <1>2 DEF Once
<1>4. \A n : Has(r, n) => Has(q, n)
  BY <1>1 DEF Has
<1> QED BY <1>1, <1>3, <1>4

LEMMA InitPlaced == UdpInit => Placed
<1> SUFFICES ASSUME UdpInit PROVE Placed
  OBVIOUS
<1>1. /\ inbox = <<>> /\ jobs = <<>> /\ replying = {}
      /\ \A c \in Chans : wbuf[c] = <<>>
      /\ \A p \in Peers : sentTo[p] = <<>>
  BY DEF UdpInit
<1>2. \A n \in 1 .. MaxArrivals : Spot(n)
  BY <1>1, OfNone DEF Spot, Answering, Buffered, Out
<1>3. Numbered /\ Owned
  BY <1>1 DEF Numbered, Owned
<1> QED BY <1>1, <1>2, <1>3, OfNone DEF Placed

(* A reply that was sent stays with the peer of its channel. *)
LEMMA SentStays ==
  ASSUME UdpConstants, Sound, Placed, UdpNext, NEW p \in Peers, NEW i \in DOMAIN sentTo[p]
  PROVE  of'[sentTo[p][i].chan] = p
<1>1. sentTo[p] \in Seq(Job0)
  BY DEF Sound, UdpTypeOK
<1>2. sentTo[p][i] \in Job0
  BY <1>1
<1>3. sentTo[p][i].chan \in Chans
  BY <1>2, JobType
<1>4. of[sentTo[p][i].chan] = p /\ p # None
  BY DEF Placed, Owned, UdpConstants
<1> QED BY <1>3, <1>4, OfStays DEF Sound

LEMMA NextPlaced ==
  ASSUME UdpConstants, Sound, Placed, UdpNext
  PROVE  Placed'
<1>0. /\ jobs \in Seq(Job0) /\ inbox \in Seq(Request)
      /\ wbuf \in [Chans -> Seq(Job0)] /\ sentTo \in [Peers -> Seq(Job0)]
      /\ replying \subseteq Job0
      /\ arrivals \in 0 .. MaxArrivals /\ MaxArrivals \in Nat
  BY DEF Sound, UdpTypeOK, Request, UdpConstants
<1>1. ASSUME sentTo' = sentTo, wbuf' = wbuf PROVE Owned'
  BY <1>1, SentStays DEF Owned, Placed
<1>2. CASE UNCHANGED <<inbox, arrivals, jobs, replying, wbuf, sentTo>>
  <2>1. \A n \in 1 .. MaxArrivals : Spot(n)'
    BY <1>2 DEF Placed, Spot, Answering, Buffered, Out
  <2> QED BY <1>1, <1>2, <2>1 DEF Placed, Numbered
<1>3. ASSUME NEW p \in Peers, Arrive(p) PROVE Placed'
  <2>1. PICK k \in {"call", "bye", "empty"} :
          inbox' = Append(inbox, [peer |-> p, kind |-> k, n |-> arrivals + 1])
    BY <1>3 DEF Arrive
  <2> DEFINE x == [peer |-> p, kind |-> k, n |-> arrivals + 1]
  <2>2. /\ arrivals' = arrivals + 1 /\ arrivals + 1 \in 1 .. MaxArrivals
        /\ UNCHANGED <<jobs, replying, wbuf, sentTo>>
    BY <1>0, <1>3 DEF Arrive
  <2>3. x \in Request /\ x.n = arrivals + 1 /\ inbox' = Append(inbox, x)
    BY <2>1, <2>2 DEF Request
  <2> HIDE DEF x
  <2>4. Spot(arrivals + 1)
    BY <2>2 DEF Placed
  <2>5. /\ ~Has(inbox, arrivals + 1) /\ ~Has(jobs, arrivals + 1)
        /\ ~Answering(arrivals + 1) /\ ~Buffered(arrivals + 1) /\ ~Out(arrivals + 1)
    BY <1>0, <2>4 DEF Spot
  <2>6. /\ Once(inbox')
        /\ \A n : Has(inbox', n) <=> Has(inbox, n) \/ n = arrivals + 1
    BY <1>0, <2>3, <2>5, AfterAppend DEF Placed
  <2>7. /\ \A n : Answering(n)' = Answering(n) /\ Buffered(n)' = Buffered(n)
        /\ \A n : Out(n)' = Out(n)
    BY <2>2 DEF Answering, Buffered, Out
  <2>8. ASSUME NEW n \in 1 .. MaxArrivals PROVE Spot(n)'
    <3>1. Spot(n)
      BY DEF Placed
    <3>2. n <= arrivals => n <= arrivals + 1
      BY <1>0
    <3> QED BY <1>0, <2>2, <2>5, <2>6, <2>7, <3>1, <3>2 DEF Spot
  <2> QED BY <1>1, <2>2, <2>6, <2>8 DEF Placed, Numbered
<1>4. CASE Receive
  <2> DEFINE d == Head(inbox)
  <2>1. /\ inbox # <<>> /\ inbox' = Tail(inbox)
        /\ UNCHANGED <<arrivals, replying, wbuf, sentTo>>
        /\ d.kind # "empty"
    BY <1>4 DEF Receive, Readable
  <2>2. PICK c \in Chans : jobs' = Append(jobs, Job(d.kind, c, d.n))
    BY <1>4 DEF Receive, ReadInto
  <2>3. /\ d \in Request /\ Has(inbox, d.n) /\ Once(inbox')
        /\ \A n : Has(inbox', n) => Has(inbox, n)
        /\ d.n # 0 => ~Has(inbox', d.n)
    BY <1>0, <2>1, AfterTail DEF Placed
  <2> HIDE DEF d
  <2>4. d.kind \in {"call", "bye"} /\ d.n \in 1 .. MaxArrivals
        /\ d.n \in 0 .. MaxArrivals /\ d.n # 0
    BY <1>0, <2>1, <2>3 DEF Request
  <2> DEFINE x == Job(d.kind, c, d.n)
  <2>5. x \in Job0 /\ x.n = d.n /\ x.kind = d.kind /\ jobs' = Append(jobs, x)
    BY <2>2, <2>4, JobType
  <2> HIDE DEF x
  <2>6. /\ Has(inbox, d.n) /\ ~Has(jobs, d.n) /\ ~Answering(d.n)
        /\ ~Buffered(d.n) /\ ~Out(d.n)
    BY <2>3, <2>4 DEF Placed, Spot
  <2>7. /\ Once(jobs')
        /\ \A n : Has(jobs', n) <=> Has(jobs, n) \/ n = d.n
        /\ DOMAIN jobs' = DOMAIN jobs \cup {Len(jobs) + 1}
        /\ jobs'[Len(jobs) + 1] = x
        /\ \A i \in DOMAIN jobs : jobs'[i] = jobs[i]
    BY <1>0, <2>5, <2>6, AfterAppend DEF Placed
  <2>8. /\ \A n : Answering(n)' = Answering(n) /\ Buffered(n)' = Buffered(n)
        /\ \A n : Out(n)' = Out(n)
    BY <2>1 DEF Answering, Buffered, Out
  <2>9. ASSUME NEW n \in 1 .. MaxArrivals PROVE Spot(n)'
    <3>1. Spot(n)
      BY DEF Placed
    <3> QED BY <2>1, <2>3, <2>4, <2>6, <2>7, <2>8, <3>1 DEF Spot
  <2>10. Numbered'
    BY <2>1, <2>4, <2>5, <2>7 DEF Placed, Numbered
  <2> QED BY <1>1, <2>1, <2>3, <2>7, <2>9, <2>10 DEF Placed
(* A farewell is queued, and a datagram may be lost. *)
<1>50. ASSUME NEW c \in Chans, jobs' = Append(jobs, Job("farewell", c, 0)),
              inbox' = inbox \/ (inbox # <<>> /\ inbox' = Tail(inbox)),
              UNCHANGED <<arrivals, replying, wbuf, sentTo>>
       PROVE  Placed'
  <2> DEFINE x == Job("farewell", c, 0)
  <2>1. jobs' = Append(jobs, x) /\ UNCHANGED <<arrivals, replying, wbuf, sentTo>>
    BY <1>50
  <2>2. x \in Job0 /\ x.n = 0 /\ x.kind = "farewell"
    BY <1>0, JobType
  <2>20. Once(inbox') /\ \A n : Has(inbox', n) => Has(inbox, n)
    BY <1>0, <1>50, AfterTail DEF Placed
  <2> HIDE DEF x
  <2>3. /\ Once(jobs')
        /\ \A n : Has(jobs', n) <=> Has(jobs, n) \/ n = 0
        /\ DOMAIN jobs' = DOMAIN jobs \cup {Len(jobs) + 1}
        /\ jobs'[Len(jobs) + 1] = x
        /\ \A i \in DOMAIN jobs : jobs'[i] = jobs[i]
    BY <1>0, <2>1, <2>2, AfterAppend DEF Placed
  <2>4. /\ \A n : Answering(n)' = Answering(n) /\ Buffered(n)' = Buffered(n)
        /\ \A n : Out(n)' = Out(n)
    BY <2>1 DEF Answering, Buffered, Out
  <2>5. ASSUME NEW n \in 1 .. MaxArrivals PROVE Spot(n)'
    <3>1. Spot(n) /\ n # 0
      BY DEF Placed
    <3> QED BY <2>1, <2>3, <2>4, <2>20, <3>1 DEF Spot
  <2>6. Numbered'
    BY <2>1, <2>2, <2>3 DEF Placed, Numbered
  <2> QED BY <1>1, <2>1, <2>3, <2>5, <2>6, <2>20 DEF Placed
<1>5. ASSUME NEW p \in Peers, TimeOut(p) PROVE Placed'
  <2>1. /\ jobs' = Append(jobs, Job("farewell", listed[p], 0)) /\ listed[p] # None
        /\ UNCHANGED <<inbox, arrivals, replying, wbuf, sentTo>>
    BY <1>5 DEF TimeOut, Expired
  <2>2. listed[p] \in Chans
    BY <2>1 DEF Sound, UdpTypeOK
  <2> QED BY <1>50, <2>1, <2>2
<1>51. CASE ReadFails
  <2>1. PICK c \in Chans : \/ jobs' = jobs
                            \/ jobs' = Append(jobs, Job("farewell", c, 0))
    BY <1>51 DEF ReadFails
  <2>2. /\ inbox # <<>> /\ inbox' \in {inbox, Tail(inbox)}
        /\ UNCHANGED <<arrivals, replying, wbuf, sentTo>>
    BY <1>51 DEF ReadFails, Readable
  <2>3. CASE jobs' = jobs
    <3>1. Once(inbox') /\ \A n : Has(inbox', n) => Has(inbox, n)
      BY <1>0, <2>2, AfterTail DEF Placed
    <3>2. ASSUME NEW n \in 1 .. MaxArrivals PROVE Spot(n)'
      <4>1. Spot(n)
        BY DEF Placed
      <4> QED BY <2>2, <2>3, <3>1, <4>1 DEF Spot, Answering, Buffered, Out
    <3> QED BY <1>1, <2>2, <2>3, <3>1, <3>2 DEF Placed, Numbered
  <2>4. CASE jobs' = Append(jobs, Job("farewell", c, 0))
    BY <1>50, <2>2, <2>4
  <2> QED BY <2>1, <2>3, <2>4
<1>6. CASE Handle
  <2>1. PICK i \in DOMAIN jobs :
          /\ jobs' = RemoveAt(jobs, i)
          /\ replying' = IF jobs[i].kind = "call" /\ Alive(jobs[i].chan)
                         THEN replying \cup {jobs[i]} ELSE replying
    BY <1>6 DEF Handle
  <2>2. UNCHANGED <<inbox, arrivals, wbuf, sentTo>>
    BY <1>6 DEF Handle
  <2> DEFINE j == jobs[i]
  <2>3. /\ j \in Job0 /\ Has(jobs, j.n) /\ Once(jobs')
        /\ \A m \in DOMAIN jobs' : \E l \in DOMAIN jobs : jobs'[m] = jobs[l]
        /\ \A n : Has(jobs', n) => Has(jobs, n)
        /\ j.n # 0 => ~Has(jobs', j.n)
    BY <1>0, <2>1, AfterRemoval DEF Placed
  <2>4. \A n : Buffered(n)' = Buffered(n) /\ Out(n)' = Out(n)
    BY <2>2 DEF Buffered, Out
  <2>5. CASE replying' = replying
    <3>1. \A n : Answering(n)' = Answering(n)
      BY <2>5 DEF Answering
    <3>2. ASSUME NEW n \in 1 .. MaxArrivals PROVE Spot(n)'
      <4>1. Spot(n)
        BY DEF Placed
      <4> QED BY <2>2, <2>3, <2>4, <2>5, <3>1, <4>1 DEF Spot
    <3>3. Numbered'
      BY <2>2, <2>3, <2>5 DEF Placed, Numbered
    <3> QED BY <1>1, <2>2, <2>3, <3>2, <3>3 DEF Placed
  <2>6. CASE j.kind = "call" /\ replying' = replying \cup {j}
    <3>1. j.n # 0
      BY <2>6 DEF Placed, Numbered
    <3>2. j.n \in 1 .. MaxArrivals
      BY <1>0, <2>3, <3>1, JobType
    <3> HIDE DEF j
    <3>3. ~Has(inbox, j.n) /\ ~Answering(j.n) /\ ~Buffered(j.n) /\ ~Out(j.n)
          /\ j.n <= arrivals
      BY <2>3, <3>2 DEF Placed, Spot
    <3>4. \A n : Answering(n)' <=> Answering(n) \/ n = j.n
      BY <2>6 DEF Answering
    <3>5. ASSUME NEW n \in 1 .. MaxArrivals PROVE Spot(n)'
      <4>1. Spot(n)
        BY DEF Placed
      <4>2. \A k, l \in replying' : k.n = n /\ l.n = n => k = l
        BY <2>6, <3>3, <4>1 DEF Spot, Answering
      <4> QED BY <2>2, <2>3, <2>4, <3>1, <3>3, <3>4, <4>1, <4>2 DEF Spot
    <3>6. Numbered'
      BY <2>2, <2>3, <2>6, <3>1 DEF Placed, Numbered
    <3> QED BY <1>1, <2>2, <2>3, <3>5, <3>6 DEF Placed
  <2> QED BY <2>1, <2>5, <2>6
<1>7. ASSUME NEW j \in replying, Reply(j) PROVE Placed'
  <2> DEFINE c == j.chan
  <2>1. /\ replying' = replying \ {j}
        /\ wbuf' = [wbuf EXCEPT ![c] = Append(@, j)]
        /\ UNCHANGED <<inbox, arrivals, jobs, sentTo>>
    BY <1>7 DEF Reply
  <2>2. /\ j \in Job0 /\ c \in Chans /\ j.n \in 1 .. MaxArrivals /\ j.chan = c
        /\ j.n # 0
    BY <1>0, JobType DEF Placed, Numbered
  <2>3. Answering(j.n)
    BY DEF Answering
  <2> HIDE DEF c
  <2>4. /\ ~Has(inbox, j.n) /\ ~Has(jobs, j.n) /\ ~Buffered(j.n) /\ ~Out(j.n)
        /\ j.n <= arrivals
        /\ \A k \in replying : k.n = j.n => k = j
    BY <2>2, <2>3 DEF Placed, Spot
  <2>5. /\ wbuf'[c] = Append(wbuf[c], j) /\ wbuf[c] \in Seq(Job0)
        /\ \A d \in Chans : d # c => wbuf'[d] = wbuf[d]
    BY <1>0, <2>1, <2>2
  <2>6. ~Has(wbuf[c], j.n)
    BY <2>2, <2>4 DEF Buffered
  <2>7. /\ Once(wbuf'[c])
        /\ \A n : Has(wbuf'[c], n) <=> Has(wbuf[c], n) \/ n = j.n
        /\ DOMAIN wbuf'[c] = DOMAIN wbuf[c] \cup {Len(wbuf[c]) + 1}
        /\ wbuf'[c][Len(wbuf[c]) + 1] = j
        /\ \A i \in DOMAIN wbuf[c] : wbuf'[c][i] = wbuf[c][i]
    BY <2>2, <2>5, <2>6, AfterAppend DEF Placed
  <2>8. \A n : Buffered(n)' <=> Buffered(n) \/ n = j.n
    BY <2>2, <2>5, <2>7 DEF Buffered
  <2>9. /\ \A n : Answering(n)' => Answering(n)
        /\ ~Answering(j.n)'
    BY <2>1, <2>4 DEF Answering
  <2>10. \A n : Out(n)' = Out(n)
    BY <2>1 DEF Out
  <2>11. ASSUME NEW n \in 1 .. MaxArrivals PROVE Spot(n)'
    <3>1. Spot(n)
      BY DEF Placed
    <3>2. \A d, e \in Chans : Has(wbuf'[d], n) /\ Has(wbuf'[e], n) => d = e
      <4>1. CASE n = j.n
        <5>1. \A d \in Chans : Has(wbuf'[d], n) => d = c
          BY <2>4, <2>5, <4>1 DEF Buffered
        <5> QED BY <5>1
      <4>2. CASE n # j.n
        <5>1. \A d \in Chans : Has(wbuf'[d], n) => Has(wbuf[d], n)
          BY <2>5, <2>7, <4>2
        <5> QED BY <3>1, <5>1 DEF Spot
      <4> QED BY <4>1, <4>2
    <3>3. \A k, l \in replying' : k.n = n /\ l.n = n => k = l
      BY <2>1, <3>1 DEF Spot
    <3> QED BY <2>1, <2>3, <2>4, <2>8, <2>9, <2>10, <3>1, <3>2, <3>3 DEF Spot
  <2>12. Numbered'
    <3>1. \A d \in Chans : \A i \in DOMAIN wbuf'[d] : wbuf'[d][i].n # 0
      BY SMTT(30), <2>2, <2>5, <2>7 DEF Placed, Numbered
    <3> QED BY <2>1, <3>1 DEF Placed, Numbered
  <2>13. Owned'
    <3>1. \A d \in Chans : \A i \in DOMAIN wbuf'[d] : wbuf'[d][i].chan = d
      BY SMTT(30), <2>2, <2>5, <2>7 DEF Placed, Owned
    <3> QED BY <2>1, <3>1, SentStays DEF Placed, Owned
  <2>14. \A d \in Chans : Once(wbuf'[d])
    BY <2>5, <2>7 DEF Placed
  <2> QED BY <2>1, <2>11, <2>12, <2>13, <2>14 DEF Placed
<1>8. ASSUME NEW c \in Chans, Write(c) \/ WriteFails(c), listed[of[c]] # None PROVE Placed'
  <2> DEFINE e == listed[of[c]]
             w == wbuf[e]
  <2>1. /\ c \in signalled /\ Flush(e)
        /\ UNCHANGED <<of, inbox, arrivals, jobs, replying>>
    BY <1>8 DEF Write, WriteFails, chanVars
  <2>2. of[c] \in Peers
    BY <2>1 DEF Sound, UdpTypeOK, Made
  <2>3. e \in Chans /\ of[e] \in Peers
    BY <1>8, <2>2, ListedMade DEF Sound
  <2> HIDE DEF e
  <2>4. w \in Seq(Job0) /\ DOMAIN w \subseteq Int /\ Once(w)
    BY <1>0, <2>3 DEF Placed
  <2>50. PICK k \in Nat : \E at \in [1 .. k -> DOMAIN w] :
          LET r == [i \in 1 .. k |-> w[at[i]]]
          IN /\ \A i, j \in 1 .. k : i < j => at[i] < at[j]
             /\ r \in Seq(Job0)
             /\ \A p \in Peers :
                  sentTo'[p] = IF p = of[e] THEN sentTo[p] \o r ELSE sentTo[p]
             /\ sentTo' \in [Peers -> Seq(Job0)]
    BY <2>1, <2>3, Flushed DEF Sound
  <2>5. PICK at \in [1 .. k -> DOMAIN w] :
          LET r == [i \in 1 .. k |-> w[at[i]]]
          IN /\ \A i, j \in 1 .. k : i < j => at[i] < at[j]
             /\ r \in Seq(Job0)
             /\ \A p \in Peers :
                  sentTo'[p] = IF p = of[e] THEN sentTo[p] \o r ELSE sentTo[p]
             /\ sentTo' \in [Peers -> Seq(Job0)]
    BY <2>50
  <2> DEFINE r == [i \in 1 .. k |-> w[at[i]]]
  <2>6. /\ \A i \in DOMAIN r : \E j \in DOMAIN w : r[i] = w[j]
        /\ \A n : Has(r, n) => Has(w, n)
        /\ Once(r)
    <3>1. \A i, j \in 1 .. k : i < j => at[i] < at[j]
      BY <2>5
    <3>2. DOMAIN r = 1 .. k /\ \A i \in 1 .. k : r[i] = w[at[i]]
      OBVIOUS
    <3> HIDE DEF w, r
    <3>3. DOMAIN r = 1 .. k
      BY <3>2
    <3>4. \A i \in 1 .. k : r[i] = w[at[i]]
      BY <3>2
    <3>5. DOMAIN w \subseteq Int /\ Once(w)
      BY <2>4
    <3> QED BY <3>1, <3>3, <3>4, <3>5, Selected
  <2>7. /\ r \in Seq(Job0)
        /\ sentTo'[of[e]] = sentTo[of[e]] \o r
        /\ \A p \in Peers : p # of[e] => sentTo'[p] = sentTo[p]
    BY <2>3, <2>5
  <2> HIDE DEF r
  <2>8. /\ wbuf'[e] = <<>> /\ \A d \in Chans : d # e => wbuf'[d] = wbuf[d]
    BY <1>0, <2>1, <2>3 DEF Flush
  <2> DEFINE q == sentTo[of[e]]
  <2>9. /\ q \in Seq(Job0) /\ Once(q) /\ \A n : Has(q, n) => Out(n)
    BY <1>0, <2>3 DEF Placed, Out
  <2>10. \A n : Has(w, n) => Buffered(n)
    BY <2>3 DEF Buffered
  <2>11. \A n : Has(w, n) => n \in 1 .. MaxArrivals
    <3> SUFFICES ASSUME NEW i \in DOMAIN w PROVE w[i].n \in 1 .. MaxArrivals
      BY DEF Has
    <3>1. w[i] \in Job0 /\ w[i].n # 0
      BY <2>3, <2>4 DEF Placed, Numbered
    <3> QED BY <1>0, <3>1, JobType
  <2>12. \A n : ~(Has(q, n) /\ Has(r, n))
    <3> SUFFICES ASSUME NEW n, Has(q, n), Has(r, n) PROVE FALSE
      OBVIOUS
    <3>1. n \in 1 .. MaxArrivals /\ Buffered(n) /\ Out(n)
      BY <2>6, <2>9, <2>10, <2>11
    <3> QED BY <3>1 DEF Placed, Spot
  <2> HIDE DEF q, w
  <2>13. /\ \A i \in DOMAIN (q \o r) : \/ \E m \in DOMAIN q : (q \o r)[i] = q[m]
                                       \/ \E m \in DOMAIN r : (q \o r)[i] = r[m]
         /\ \A n : Has(q \o r, n) => Has(q, n) \/ Has(r, n)
         /\ Once(q \o r)
    <3>1. q \in Seq(Job0) /\ r \in Seq(Job0)
      BY <2>7, <2>9
    <3>2. Once(q) /\ Once(r) /\ (\A n : Has(q, n) /\ Has(r, n) => n = 0)
      BY <2>6, <2>9, <2>12
    <3>3. Once(q \o r)
      BY <3>1, <3>2, AfterConcat
    <3>4. \A n : Has(q \o r, n) => Has(q, n) \/ Has(r, n)
      BY <3>1, AfterConcat
    <3>5. \A i \in DOMAIN (q \o r) :
            \/ \E m \in DOMAIN q : (q \o r)[i] = q[m]
            \/ \E m \in DOMAIN r : (q \o r)[i] = r[m]
      BY SMTT(30), <3>1, AfterConcat
    <3> QED BY <3>3, <3>4, <3>5
  <2>14. sentTo'[of[e]] = q \o r
    BY <2>7 DEF q
  <2>15. \A p \in Peers : Once(sentTo'[p])
    BY <2>7, <2>13, <2>14 DEF Placed
  <2>16. \A n : Out(n)' => Out(n) \/ Has(w, n)
    <3> SUFFICES ASSUME NEW n, NEW p \in Peers, Has(sentTo'[p], n)
                 PROVE  Out(n) \/ Has(w, n)
      BY DEF Out
    <3>1. CASE p = of[e]
      BY <2>6, <2>9, <2>13, <2>14, <3>1
    <3>2. CASE p # of[e]
      BY <2>7, <3>2 DEF Out
    <3> QED BY <3>1, <3>2
  <2>17. \A n : Buffered(n)' => Buffered(n) /\ (n \in 1 .. MaxArrivals => ~Has(w, n))
    <3> SUFFICES ASSUME NEW n, NEW d \in Chans, Has(wbuf'[d], n)
                 PROVE  Buffered(n) /\ (n \in 1 .. MaxArrivals => ~Has(w, n))
      BY DEF Buffered
    <3>1. d # e /\ Has(wbuf[d], n)
      BY <2>8, OfNone
    <3>2. ASSUME n \in 1 .. MaxArrivals, Has(w, n) PROVE FALSE
      BY <2>3, <3>1, <3>2 DEF Placed, Spot, w
    <3> QED BY <3>1, <3>2 DEF Buffered
  <2>18. \A n : Answering(n)' = Answering(n)
    BY <2>1 DEF Answering
  <2>19. ASSUME NEW n \in 1 .. MaxArrivals PROVE Spot(n)'
    <3>1. Spot(n)
      BY DEF Placed
    <3>2. \A d, f \in Chans : Has(wbuf'[d], n) /\ Has(wbuf'[f], n) => d = f
      BY <2>8, <3>1, OfNone DEF Spot
    <3> QED BY <2>1, <2>10, <2>16, <2>17, <2>18, <3>1, <3>2 DEF Spot
  <2>20. \A m \in DOMAIN r : r[m].n # 0 /\ r[m].chan = e
    BY <2>3, <2>6 DEF Placed, Numbered, Owned, w
  <2>21. \A p \in Peers : \A i \in DOMAIN sentTo'[p] :
           /\ sentTo'[p][i].n # 0
           /\ of[sentTo'[p][i].chan] = p
    <3> SUFFICES ASSUME NEW p \in Peers, NEW i \in DOMAIN sentTo'[p]
                 PROVE  sentTo'[p][i].n # 0 /\ of[sentTo'[p][i].chan] = p
      OBVIOUS
    <3>1. CASE p # of[e]
      BY ZenonT(30), <2>7, <3>1 DEF Placed, Numbered, Owned
    <3>2. CASE p = of[e]
      <4>1. \A m \in DOMAIN q : q[m].n # 0 /\ of[q[m].chan] = p
        BY <3>2 DEF Placed, Numbered, Owned, q
      <4>2. i \in DOMAIN (q \o r) /\ sentTo'[p][i] = (q \o r)[i]
        BY <2>14, <3>2
      <4>3. CASE \E m \in DOMAIN q : (q \o r)[i] = q[m]
        BY <4>1, <4>2, <4>3
      <4>4. CASE \E m \in DOMAIN r : (q \o r)[i] = r[m]
        BY <2>20, <3>2, <4>2, <4>4
      <4> QED BY <2>13, <4>2, <4>3, <4>4
    <3> QED BY <3>1, <3>2
  <2>22. \A d \in Chans : /\ Once(wbuf'[d])
                          /\ \A i \in DOMAIN wbuf'[d] :
                               wbuf'[d][i].n # 0 /\ wbuf'[d][i].chan = d
    BY <2>8, OfNone DEF Placed, Numbered, Owned
  <2> QED BY <2>1, <2>15, <2>19, <2>21, <2>22 DEF Placed, Numbered, Owned
<1> QED BY <1>2, <1>3, <1>4, <1>5, <1>51, <1>6, <1>7, <1>8
        DEF UdpNext, Loop, FallQuiet, Write, WriteFails, RunPosted, Idle, Resume, idleVars

LEMMA PlacedStep == UdpConstants /\ Sound /\ Placed /\ [UdpNext]_udpVars => Placed'
<1>1. ASSUME Placed, UNCHANGED udpVars PROVE Placed'
  BY <1>1 DEF udpVars, Placed, Numbered, Owned, Spot, Answering, Buffered, Out
<1> QED BY <1>1, NextPlaced
-----------------------------------------------------------------------------
(* The theorems hold for every number of peers, channel objects and        *)
(* datagrams, if a null pointer is no peer and no channel.                 *)

LEMMA InvHolds == ASSUME UdpConstants PROVE UdpSpec => [](Sound /\ Placed)
<1>1. UdpInit => Sound /\ Placed
  BY SoundInit, InitPlaced
<1>2. Sound /\ Placed /\ [UdpNext]_udpVars => (Sound /\ Placed)'
  BY SoundStep, PlacedStep
<1> QED BY <1>1, <1>2, PTL DEF UdpSpec

(* Types of a UDP servant's state. *)
THEOREM TypeCorrect == ASSUME UdpConstants PROVE UdpSpec => []UdpTypeOK
<1>1. Sound => UdpTypeOK
  BY DEF Sound
<1> QED BY <1>1, InvHolds, PTL

(* createChannel, removeChannel and the late removals of context->close(): *)
(* a peer is served by one open channel of its own, whatever was made and  *)
(* removed for it before. *)
THEOREM AlwaysOneServes == ASSUME UdpConstants PROVE UdpSpec => []OneServes
<1>1. Sound => OneServes
  BY DEF Sound
<1> QED BY <1>1, InvHolds, PTL

(* sendResponse signals the write watcher of every channel whose buffer it *)
(* fills, and no write or removal of another channel of the peer forgets   *)
(* the buffer of the one in use. *)
THEOREM AlwaysBufferSignalled == ASSUME UdpConstants PROVE UdpSpec => []BufferSignalled
<1>1. Sound => BufferSignalled
  BY DEF Sound
<1> QED BY <1>1, InvHolds, PTL

(* However many handlers there are and in whatever order they end, a reply *)
(* is sent to the peer whose call it answers, at most once. *)
THEOREM AlwaysRepliesOnce == ASSUME UdpConstants PROVE UdpSpec => []RepliesOnce
<1>1. Placed => RepliesOnce
  BY DEF Placed, Numbered, Owned, Once, RepliesOnce
<1> QED BY <1>1, InvHolds, PTL
=============================================================================

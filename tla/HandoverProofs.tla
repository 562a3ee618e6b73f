--------------------------- MODULE HandoverProofs ---------------------------
(***************************************************************************)
(* Proofs about what threads hand to each other: the values of a queue     *)
(* (ThreadQueueClients), and the tasks by which a process's proxies get    *)
(* their clients (Communicator).                                           *)
(*                                                                         *)
(* The queue, for any threads and values, finitely many or not: no element *)
(* is lost or delivered twice, and no sleeper is stranded beside one.  The *)
(* second needs to know what a thread that gave its notification up can be *)
(* doing: until the queue has been empty again it cannot have gone back to *)
(* sleep (LateAwake), so each expired wait is counted once.                *)
(*                                                                         *)
(* The clients, for any loops, servants and hosts: a loop that has run its *)
(* tasks has the clients of the last one's servant.  Configured says this  *)
(* of idle loops alone, which no step preserves; Tidy says of every loop   *)
(* that it has the clients of some configuration, which is enough for the  *)
(* next task to settle it, and OnOwnLoop that a configuration is replaced  *)
(* only together with a task on the one loop it matters to.                *)
(***************************************************************************)
EXTENDS ThreadQueueClients, Communicator, FiniteSetTheorems, TLAPS

LateAwake ==
  /\ late # {} => elements # <<>>
  /\ \A t \in late : ~Busy(t)

Finite ==
  /\ IsFiniteSet(waiting) /\ IsFiniteSet(notified) /\ IsFiniteSet(late)
  /\ IsFiniteSet(pushed) /\ IsFiniteSet(cleared)

Inv == QueueTypeOK /\ Finite /\ LateAwake /\ EachValueOnce /\ NoStranded
-----------------------------------------------------------------------------
(* The values of a sequence are finitely many, no more than its length.    *)
LEMMA ToSetFinite ==
  ASSUME NEW S, NEW q \in Seq(S)
  PROVE  IsFiniteSet(ToSet(q)) /\ Cardinality(ToSet(q)) <= Len(q)
<1>1. Len(q) \in Nat /\ DOMAIN q = 1 .. Len(q)
  OBVIOUS
<1>2. q \in Surjection(1 .. Len(q), ToSet(q))
  BY <1>1 DEF Surjection, ToSet
<1>3. ExistsSurjection(1 .. Len(q), ToSet(q))
  BY <1>2 DEF ExistsSurjection
<1>4. IsFiniteSet(ToSet(q))
  BY <1>1, <1>3, FS_NatSurjection
<1> QED BY <1>1, <1>3, <1>4, FS_SurjCardinalityBound

LEMMA ToSetAppend ==
  ASSUME NEW S, NEW q \in Seq(S), NEW x \in S
  PROVE  ToSet(Append(q, x)) = ToSet(q) \cup {x}
<1>1. /\ DOMAIN q = 1 .. Len(q) /\ Len(q) \in Nat
      /\ DOMAIN Append(q, x) = 1 .. Len(q) + 1
      /\ \A i \in 1 .. Len(q) : Append(q, x)[i] = q[i]
      /\ Append(q, x)[Len(q) + 1] = x
  OBVIOUS
<1> QED BY <1>1 DEF ToSet

LEMMA ToSetTail ==
  ASSUME NEW S, NEW q \in Seq(S), q # <<>>
  PROVE  ToSet(q) = ToSet(Tail(q)) \cup {Head(q)}
<1>1. /\ DOMAIN q = 1 .. Len(q) /\ Len(q) \in Nat /\ Len(q) >= 1
      /\ DOMAIN Tail(q) = 1 .. Len(q) - 1
      /\ \A i \in 1 .. Len(q) - 1 : Tail(q)[i] = q[i + 1]
      /\ Head(q) = q[1]
  OBVIOUS
<1>2. ToSet(q) \subseteq ToSet(Tail(q)) \cup {Head(q)}
  <2>1. SUFFICES ASSUME NEW i \in 1 .. Len(q), i # 1
                 PROVE  q[i] \in ToSet(Tail(q))
    BY <1>1 DEF ToSet
  <2>2. i - 1 \in 1 .. Len(q) - 1 /\ q[i] = Tail(q)[i - 1]
    BY <1>1, <2>1
  <2> QED BY <1>1, <2>2 DEF ToSet
<1>3. ToSet(Tail(q)) \cup {Head(q)} \subseteq ToSet(q)
  BY <1>1 DEF ToSet
<1> QED BY <1>2, <1>3

LEMMA ToSetConcat ==
  ASSUME NEW S, NEW q \in Seq(S), NEW r \in Seq(S)
  PROVE  ToSet(q \o r) = ToSet(q) \cup ToSet(r)
<1>1. /\ DOMAIN q = 1 .. Len(q) /\ Len(q) \in Nat
      /\ DOMAIN r = 1 .. Len(r) /\ Len(r) \in Nat
      /\ DOMAIN (q \o r) = 1 .. Len(q) + Len(r)
      /\ \A i \in 1 .. Len(q) : (q \o r)[i] = q[i]
      /\ \A i \in 1 .. Len(q) + Len(r) : i > Len(q) => (q \o r)[i] = r[i - Len(q)]
  OBVIOUS
<1>2. ToSet(q \o r) \subseteq ToSet(q) \cup ToSet(r)
  <2>1. SUFFICES ASSUME NEW i \in 1 .. Len(q) + Len(r), i > Len(q)
                 PROVE  (q \o r)[i] \in ToSet(r)
    BY <1>1 DEF ToSet
  <2>2. i - Len(q) \in 1 .. Len(r)
    BY <1>1, <2>1
  <2> QED BY <1>1, <2>1, <2>2 DEF ToSet
<1>3. ToSet(q) \subseteq ToSet(q \o r)
  BY <1>1 DEF ToSet
<1>4. ToSet(r) \subseteq ToSet(q \o r)
  <2>1. SUFFICES ASSUME NEW k \in 1 .. Len(r)
                 PROVE  r[k] \in ToSet(q \o r)
    BY <1>1 DEF ToSet
  <2>2. /\ Len(q) + k \in 1 .. Len(q) + Len(r) /\ Len(q) + k > Len(q)
        /\ (Len(q) + k) - Len(q) = k
    BY <1>1
  <2>3. (q \o r)[Len(q) + k] = r[k]
    BY <1>1, <2>2
  <2> QED BY <1>1, <2>2, <2>3 DEF ToSet
<1> QED BY <1>2, <1>3, <1>4

(* One value, or two different ones, that a finite set does not have. *)
LEMMA TwoMore ==
  ASSUME NEW S, IsFiniteSet(S), NEW x, NEW y, x # y, x \notin S, y \notin S
  PROVE  IsFiniteSet(S \cup {x, y}) /\ Cardinality(S \cup {x, y}) = Cardinality(S) + 2
<1>1. /\ IsFiniteSet(S \cup {x}) /\ Cardinality(S \cup {x}) = Cardinality(S) + 1
      /\ Cardinality(S) \in Nat
  BY FS_AddElement, FS_CardinalityType
<1>2. S \cup {x, y} = (S \cup {x}) \cup {y} /\ y \notin S \cup {x}
  OBVIOUS
<1>3. /\ IsFiniteSet((S \cup {x}) \cup {y})
      /\ Cardinality((S \cup {x}) \cup {y}) = Cardinality(S \cup {x}) + 1
  BY <1>1, <1>2, FS_AddElement
<1>4. /\ IsFiniteSet(S \cup {x, y})
      /\ Cardinality(S \cup {x, y}) = Cardinality(S \cup {x}) + 1
  BY <1>2, <1>3, Zenon
<1> QED BY <1>1, <1>4
-----------------------------------------------------------------------------
(* notify_one moves a sleeper to the notified, if there is one.            *)
LEMMA OneWoken ==
  ASSUME QueueTypeOK, Finite, NotifyOne
  PROVE  /\ waiting' \subseteq Takers /\ notified' \subseteq Takers \ waiting'
         /\ IsFiniteSet(waiting') /\ IsFiniteSet(notified')
         /\ waiting' \cup notified' = waiting \cup notified
         /\ waiting' # {} =>
              waiting # {} /\ Cardinality(notified') >= Cardinality(notified) + 1
<1>1. CASE waiting = {}
  BY <1>1 DEF QueueTypeOK, Finite, NotifyOne
<1>2. CASE waiting # {}
  <2>1. PICK t \in waiting : /\ waiting' = waiting \ {t}
                             /\ notified' = notified \cup {t}
    BY <1>2 DEF NotifyOne
  <2>2. t \notin notified
    BY DEF QueueTypeOK
  <2>3. /\ IsFiniteSet(waiting') /\ IsFiniteSet(notified')
        /\ Cardinality(notified') = Cardinality(notified) + 1
    BY <2>1, <2>2, FS_AddElement, FS_RemoveElement DEF Finite
  <2>4. Cardinality(notified') \in Nat
    BY <2>3, FS_CardinalityType
  <2> QED BY <1>2, <2>1, <2>3, <2>4 DEF QueueTypeOK
<1> QED BY <1>1, <1>2

(* notify_one, twice under one lock: two sleepers, or all there are.       *)
LEMMA TwoWoken ==
  ASSUME QueueTypeOK, Finite, NotifyTwo
  PROVE  /\ waiting' \subseteq Takers /\ notified' \subseteq Takers \ waiting'
         /\ IsFiniteSet(waiting') /\ IsFiniteSet(notified')
         /\ waiting' \cup notified' = waiting \cup notified
         /\ waiting' # {} =>
              waiting # {} /\ Cardinality(notified') >= Cardinality(notified) + 2
<1>1. PICK S \in SUBSET waiting :
        /\ Cardinality(S) = 2 \/ (S = waiting /\ Cardinality(S) < 2)
        /\ waiting' = waiting \ S
        /\ notified' = notified \cup S
  BY DEF NotifyTwo
<1>2. IsFiniteSet(S) /\ S \cap notified = {}
  BY FS_Subset DEF Finite, QueueTypeOK
<1>3. /\ IsFiniteSet(waiting') /\ IsFiniteSet(notified')
      /\ Cardinality(notified')
           = Cardinality(notified) + Cardinality(S) - Cardinality(notified \cap S)
  BY <1>1, <1>2, FS_Union, FS_Difference DEF Finite
<1>4. Cardinality(notified \cap S) = 0
  <2>1. notified \cap S = {}
    BY <1>2
  <2> QED BY <2>1, FS_EmptySet
<1>5. Cardinality(notified) \in Nat /\ Cardinality(S) \in Nat
  BY <1>2, FS_CardinalityType DEF Finite
<1>6. waiting' # {} => Cardinality(notified') >= Cardinality(notified) + 2
  BY <1>1, <1>3, <1>4, <1>5
<1> QED BY <1>1, <1>3, <1>6 DEF QueueTypeOK

(* A thread that leaves popFront takes at most one from the notified.      *)
LEMMA OneLeft ==
  ASSUME QueueTypeOK, Finite, NEW t \in Takers, Leave(t)
  PROVE  /\ waiting' \subseteq Takers /\ notified' \subseteq Takers \ waiting'
         /\ IsFiniteSet(waiting') /\ IsFiniteSet(notified')
         /\ waiting' \cup notified' = (waiting \cup notified) \ {t}
         /\ waiting' # {} => waiting # {}
         /\ Cardinality(notified')
              = Cardinality(notified) - (IF t \in notified THEN 1 ELSE 0)
<1>1. /\ IsFiniteSet(waiting') /\ IsFiniteSet(notified')
      /\ Cardinality(notified') = IF t \in notified THEN Cardinality(notified) - 1
                                  ELSE Cardinality(notified)
  BY FS_RemoveElement DEF Leave, Finite
<1>2. Cardinality(notified) \in Nat
  BY FS_CardinalityType DEF Finite
<1> QED BY <1>1, <1>2 DEF QueueTypeOK, Leave
-----------------------------------------------------------------------------
(* What a push of the new values N does, at either end: they are in no     *)
(* place yet, and as many sleepers are woken.                              *)
LEMMA PushedInv ==
  ASSUME Inv, NEW N \in SUBSET (Items \ pushed), IsFiniteSet(N),
         Cardinality(N) \in {1, 2},
         elements' \in Seq(Items), Len(elements') = Len(elements) + Cardinality(N),
         ToSet(elements') = ToSet(elements) \cup N, pushed' = pushed \cup N,
         waiting' \subseteq Takers, notified' \subseteq Takers \ waiting',
         IsFiniteSet(waiting'), IsFiniteSet(notified'),
         waiting' \cup notified' = waiting \cup notified,
         waiting' # {} =>
           /\ waiting # {}
           /\ Cardinality(notified') >= Cardinality(notified) + Cardinality(N),
         UNCHANGED <<popped, cleared, late>>
  PROVE  Inv'
<1>1. /\ Len(elements) \in Nat /\ Len(popped) \in Nat
      /\ Cardinality(cleared) \in Nat /\ Cardinality(late) \in Nat
      /\ Cardinality(notified) \in Nat /\ Cardinality(notified') \in Nat
      /\ Cardinality(pushed) \in Nat
  BY FS_CardinalityType DEF Inv, QueueTypeOK, Finite
<1>2. QueueTypeOK'
  BY DEF Inv, QueueTypeOK
<1>3. IsFiniteSet(pushed') /\ Cardinality(pushed') = Cardinality(pushed) + Cardinality(N)
  <2>1. pushed \cap N = {} /\ Cardinality({}) = 0
    BY FS_EmptySet
  <2>2. Cardinality(pushed \cap N) = 0
    BY <2>1
  <2>3. /\ IsFiniteSet(pushed \cup N)
        /\ Cardinality(pushed \cup N)
             = Cardinality(pushed) + Cardinality(N) - Cardinality(pushed \cap N)
    BY FS_Union DEF Inv, Finite
  <2> QED BY <1>1, <2>2, <2>3
<1>4. Finite'
  BY <1>3 DEF Inv, Finite
<1>5. LateAwake'
  <2>1. elements' # <<>>
    BY <1>1
  <2>2. \A t : Busy(t)' <=> Busy(t)
    BY DEF Busy
  <2> QED BY <2>1, <2>2 DEF Inv, LateAwake
<1>6. EachValueOnce'
  <2>1. /\ pushed = ToSet(elements) \cup ToSet(popped) \cup cleared
        /\ Len(elements) + Len(popped) + Cardinality(cleared) = Cardinality(pushed)
    BY DEF Inv, EachValueOnce
  <2>2. ToSet(popped)' = ToSet(popped) /\ ToSet(elements)' = ToSet(elements) \cup N
    OBVIOUS
  <2>3. pushed' = ToSet(elements)' \cup ToSet(popped)' \cup cleared'
    BY <2>1, <2>2
  <2>4. Len(elements') + Len(popped') + Cardinality(cleared') = Cardinality(pushed')
    <3>1. Len(popped') = Len(popped) /\ Cardinality(cleared') = Cardinality(cleared)
      OBVIOUS
    <3>2. Cardinality(N) \in Nat
      OBVIOUS
    <3> QED BY SMTT(30), <1>1, <1>3, <2>1, <3>1, <3>2
  <2> QED BY <2>3, <2>4 DEF EachValueOnce
<1>7. NoStranded'
  BY SMTT(30), <1>1 DEF Inv, NoStranded
<1> QED BY <1>2, <1>4, <1>5, <1>6, <1>7 DEF Inv

LEMMA PushInv == ASSUME Inv, PushSome PROVE Inv'
<1>1. ASSUME NEW v \in Items \ pushed, PushBack(v) \/ PushFront(v),
             pushed' = pushed \cup {v}, UNCHANGED <<popped, cleared, late>>
      PROVE  Inv'
  <2>1. NotifyOne /\ elements \in Seq(Items) /\ QueueTypeOK /\ Finite
    BY <1>1 DEF PushBack, PushFront, Inv, QueueTypeOK
  <2>2. /\ elements' \in Seq(Items) /\ Len(elements') = Len(elements) + 1
        /\ ToSet(elements') = ToSet(elements) \cup {v}
    <3>1. CASE elements' = Append(elements, v)
      BY <2>1, <3>1, ToSetAppend
    <3>2. CASE elements' = <<v>> \o elements
      <4> DEFINE p == <<v>>
      <4>1. p \in Seq(Items) /\ Len(p) = 1 /\ ToSet(p) = {v}
        BY DEF ToSet
      <4>2. /\ p \o elements \in Seq(Items)
            /\ Len(p \o elements) = 1 + Len(elements) /\ Len(elements) \in Nat
        BY <2>1, <4>1
      <4> HIDE DEF p
      <4>3. ToSet(p \o elements) = ToSet(p) \cup ToSet(elements)
        BY <2>1, <4>1, ToSetConcat
      <4>4. elements' = p \o elements
        BY <3>2 DEF p
      <4> QED BY <4>1, <4>2, <4>3, <4>4
    <3> QED BY <1>1, <3>1, <3>2 DEF PushBack, PushFront
  <2>3. IsFiniteSet({v}) /\ Cardinality({v}) = 1
    BY FS_Singleton
  <2> QED BY <1>1, <2>1, <2>2, <2>3, OneWoken, PushedInv
<1>2. ASSUME NEW v \in Items \ pushed, NEW u \in Items \ pushed, v # u,
             PushBackTwo(v, u) \/ PushFrontTwo(v, u),
             pushed' = pushed \cup {v, u}, UNCHANGED <<popped, cleared, late>>
      PROVE  Inv'
  <2>1. NotifyTwo /\ elements \in Seq(Items) /\ QueueTypeOK /\ Finite
    BY <1>2 DEF PushBackTwo, PushFrontTwo, Inv, QueueTypeOK
  <2>2. /\ elements' \in Seq(Items) /\ Len(elements') = Len(elements) + 2
        /\ ToSet(elements') = ToSet(elements) \cup {v, u}
    <3>1. CASE elements' = elements \o <<v, u>>
      <4>1. <<v, u>> \in Seq(Items) /\ Len(<<v, u>>) = 2 /\ ToSet(<<v, u>>) = {v, u}
        BY DEF ToSet
      <4>2. ToSet(elements \o <<v, u>>) = ToSet(elements) \cup ToSet(<<v, u>>)
        BY ZenonT(30), <2>1, <4>1, ToSetConcat
      <4>3. /\ elements \o <<v, u>> \in Seq(Items)
            /\ Len(elements \o <<v, u>>) = Len(elements) + 2
        BY <2>1, <4>1
      <4> QED BY <3>1, <4>1, <4>2, <4>3
    <3>2. CASE elements' = <<u, v>> \o elements
      <4> DEFINE p == <<u, v>>
      <4>1. p \in Seq(Items) /\ Len(p) = 2 /\ ToSet(p) = {u, v}
        BY DEF ToSet
      <4>2. /\ p \o elements \in Seq(Items)
            /\ Len(p \o elements) = 2 + Len(elements) /\ Len(elements) \in Nat
        BY <2>1, <4>1
      <4> HIDE DEF p
      <4>3. ToSet(p \o elements) = ToSet(p) \cup ToSet(elements)
        BY <2>1, <4>1, ToSetConcat
      <4>4. elements' = p \o elements
        BY <3>2 DEF p
      <4> QED BY <4>1, <4>2, <4>3, <4>4
    <3> QED BY <1>2, <3>1, <3>2 DEF PushBackTwo, PushFrontTwo
  <2>3. IsFiniteSet({v, u}) /\ Cardinality({v, u}) = 2
    <3>1. /\ IsFiniteSet({} \cup {v, u})
          /\ Cardinality({} \cup {v, u}) = Cardinality({}) + 2
      BY <1>2, TwoMore, FS_EmptySet
    <3>2. {} \cup {v, u} = {v, u} /\ Cardinality({}) = 0
      BY FS_EmptySet
    <3> QED BY <3>1, <3>2
  <2> QED BY <1>2, <2>1, <2>2, <2>3, TwoWoken, PushedInv
<1> QED BY <1>1, <1>2 DEF PushSome

(* A pop moves the head to the popped; whoever pops was not to be counted  *)
(* twice: a woken thread leaves with the element it was woken for.         *)
LEMMA TakeInv == ASSUME Inv, NEW t \in Takers, TakeFront(t) PROVE Inv'
<1>1. /\ elements # <<>> /\ elements' = Tail(elements)
      /\ popped' = Append(popped, Head(elements))
      /\ late' = IF elements' = <<>> THEN {} ELSE late
      /\ UNCHANGED <<pushed, cleared>>
  BY DEF TakeFront, PopNow, WokenPop
<1>2. QueueTypeOK /\ Finite /\ elements \in Seq(Items) /\ popped \in Seq(Items)
  BY DEF Inv, QueueTypeOK
<1>3. /\ Tail(elements) \in Seq(Items) /\ Head(elements) \in Items
      /\ Len(elements) \in Nat /\ Len(elements) >= 1 /\ Len(Tail(elements)) = Len(elements) - 1
      /\ Append(popped, Head(elements)) \in Seq(Items)
      /\ Len(Append(popped, Head(elements))) = Len(popped) + 1 /\ Len(popped) \in Nat
  BY <1>1, <1>2
<1>4. /\ waiting' \subseteq Takers /\ notified' \subseteq Takers \ waiting'
      /\ IsFiniteSet(waiting') /\ IsFiniteSet(notified')
      /\ waiting' \cup notified' \subseteq waiting \cup notified
      /\ waiting' # {} => waiting # {}
      /\ Cardinality(notified') >= Cardinality(notified) - 1
  <2>1. Cardinality(notified) \in Nat
    BY <1>2, FS_CardinalityType DEF Finite
  <2>2. CASE PopNow(t)
    BY <1>2, <2>1, <2>2 DEF PopNow, QueueTypeOK, Finite
  <2>3. CASE WokenPop(t)
    BY <1>2, <2>1, <2>3, OneLeft DEF WokenPop
  <2> QED BY <2>2, <2>3 DEF TakeFront
<1>5. QueueTypeOK'
  BY <1>1, <1>2, <1>3, <1>4 DEF QueueTypeOK
<1>6. Finite'
  BY <1>1, <1>2, <1>4, FS_EmptySet DEF Finite
<1>7. LateAwake'
  BY <1>1, <1>4 DEF Inv, LateAwake, Busy
<1>8. EachValueOnce'
  <2>1. ToSet(elements) = ToSet(elements') \cup {Head(elements)}
    BY <1>1, <1>2, ToSetTail
  <2>2. ToSet(popped') = ToSet(popped) \cup {Head(elements)}
    BY <1>1, <1>2, <1>3, ToSetAppend
  <2>3. Cardinality(cleared) \in Nat /\ Cardinality(pushed) \in Nat
    BY <1>2, FS_CardinalityType DEF Finite
  <2>4. ToSet(elements') \cup ToSet(popped') = ToSet(elements) \cup ToSet(popped)
    BY <2>1, <2>2
  <2>5. Len(elements') + Len(popped') = Len(elements) + Len(popped)
    BY <1>1, <1>3
  <2> QED BY <1>1, <1>3, <2>3, <2>4, <2>5 DEF Inv, EachValueOnce
<1>9. NoStranded'
  <2>1. /\ Cardinality(late) \in Nat /\ Cardinality(late') \in Nat
        /\ Cardinality(notified) \in Nat /\ Cardinality(notified') \in Nat
    BY <1>2, <1>6, FS_CardinalityType DEF Finite
  <2>2. CASE elements' = <<>>
    BY <2>1, <2>2 DEF NoStranded
  <2>3. CASE elements' # <<>>
    BY SMTT(30), <1>1, <1>3, <1>4, <2>1, <2>3 DEF Inv, NoStranded
  <2> QED BY <2>2, <2>3
<1> QED BY <1>5, <1>6, <1>7, <1>8, <1>9 DEF Inv

(* A wait that expires takes its thread from the notified, and is counted  *)
(* as late if an element is left behind.                                   *)
LEMMA ExpireInv == ASSUME Inv, NEW t \in Takers, GiveUp(t) PROVE Inv'
<1>1. /\ t \in Timed /\ Busy(t) /\ Leave(t) /\ elements' = elements
      /\ late' = late \cup (IF elements # <<>> THEN {t} \cap notified ELSE {})
      /\ UNCHANGED <<pushed, popped, cleared>>
  BY DEF GiveUp, TimedOut
<1>2. QueueTypeOK /\ Finite /\ t \notin late
  BY <1>1 DEF Inv, LateAwake
<1>3. /\ waiting' \subseteq Takers /\ notified' \subseteq Takers \ waiting'
      /\ IsFiniteSet(waiting') /\ IsFiniteSet(notified')
      /\ waiting' \cup notified' = (waiting \cup notified) \ {t}
      /\ waiting' # {} => waiting # {}
      /\ Cardinality(notified')
           = Cardinality(notified) - (IF t \in notified THEN 1 ELSE 0)
  BY <1>1, <1>2, OneLeft
<1>4. /\ IsFiniteSet(late')
      /\ elements # <<>> /\ t \in notified => Cardinality(late') = Cardinality(late) + 1
      /\ ~(elements # <<>> /\ t \in notified) => late' = late
  <2>1. CASE elements # <<>> /\ t \in notified
    <3>1. late' = late \cup {t}
      BY <1>1, <2>1
    <3> QED BY <1>2, <2>1, <3>1, FS_AddElement DEF Finite
  <2>2. CASE ~(elements # <<>> /\ t \in notified)
    BY <1>1, <1>2, <2>2 DEF Finite
  <2> QED BY <2>1, <2>2
<1>5. QueueTypeOK' /\ Finite'
  BY <1>1, <1>2, <1>3, <1>4 DEF QueueTypeOK, Finite
<1>6. LateAwake' /\ EachValueOnce'
  BY <1>1, <1>3 DEF Inv, LateAwake, Busy, EachValueOnce
<1>7. NoStranded'
  <2>1. /\ Cardinality(late) \in Nat /\ Cardinality(notified) \in Nat
        /\ Len(elements) \in Nat /\ (elements = <<>> => Len(elements) = 0)
        /\ Cardinality(late') \in Nat /\ Cardinality(notified') \in Nat
    BY <1>2, <1>5, FS_CardinalityType DEF Finite, QueueTypeOK
  <2>2. CASE elements = <<>>
    BY <1>1, <2>1, <2>2 DEF NoStranded
  <2>3. CASE elements # <<>> /\ t \in notified
    BY <1>1, <1>3, <1>4, <2>1, <2>3 DEF Inv, NoStranded
  <2>4. CASE elements # <<>> /\ t \notin notified
    <3>1. Cardinality(late') = Cardinality(late)
      BY <1>4, <2>4
    <3> QED BY <1>1, <1>3, <2>1, <2>4, <3>1 DEF Inv, NoStranded
  <2> QED BY <2>2, <2>3, <2>4
<1> QED BY <1>5, <1>6, <1>7 DEF Inv

(* Going to sleep and returning with nothing need an empty queue, so no    *)
(* element can be missed by either.                                        *)
LEMMA ReturnInv == ASSUME Inv, NEW t \in Takers, GoWithout(t) PROVE Inv'
<1>1. /\ elements = <<>> /\ UNCHANGED <<elements, pushed, popped, cleared, late>>
      /\ late = {} /\ QueueTypeOK /\ Finite
  BY DEF GoWithout, Block, WokenEmpty, Inv, LateAwake
<1>2. /\ waiting' \subseteq Takers /\ notified' \subseteq Takers \ waiting'
      /\ IsFiniteSet(waiting') /\ IsFiniteSet(notified')
  <2>1. CASE Block(t)
    <3>1. /\ waiting' = waiting \cup {t} /\ notified' = notified
          /\ t \notin waiting \cup notified
      BY <2>1 DEF Block, Busy
    <3> QED BY <1>1, <3>1, FS_AddElement DEF QueueTypeOK, Finite
  <2>2. CASE WokenEmpty(t)
    BY <1>1, <2>2, OneLeft DEF WokenEmpty
  <2> QED BY <2>1, <2>2 DEF GoWithout
<1>3. QueueTypeOK' /\ Finite' /\ LateAwake' /\ EachValueOnce'
  BY <1>1, <1>2 DEF Inv, QueueTypeOK, Finite, LateAwake, EachValueOnce
<1>4. NoStranded'
  <2>1. /\ Cardinality(late') \in Nat /\ Cardinality(notified') \in Nat
        /\ Len(elements') = 0
    BY <1>1, <1>3, FS_CardinalityType DEF Finite
  <2> QED BY <2>1 DEF NoStranded
<1> QED BY <1>3, <1>4 DEF Inv

(* clear() drops distinct values that are nowhere else: the three places   *)
(* hold no more than were pushed, and together exactly as many.            *)
LEMMA EmptyInv == ASSUME Inv, Empty PROVE Inv'
<1>1. /\ elements' = <<>> /\ cleared' = cleared \cup ToSet(elements) /\ late' = {}
      /\ UNCHANGED <<waiting, notified, pushed, popped>>
      /\ QueueTypeOK /\ Finite
  BY DEF Empty, ClearAll, Inv
<1>2. /\ IsFiniteSet(ToSet(elements)) /\ Cardinality(ToSet(elements)) <= Len(elements)
      /\ IsFiniteSet(ToSet(popped)) /\ Cardinality(ToSet(popped)) <= Len(popped)
  BY <1>1, ToSetFinite DEF QueueTypeOK
<1>3. /\ IsFiniteSet(cleared')
      /\ Cardinality(cleared') = Cardinality(cleared) + Cardinality(ToSet(elements))
                                   - Cardinality(cleared \cap ToSet(elements))
  BY <1>1, <1>2, FS_Union DEF Finite
<1>4. IsFiniteSet(cleared \cap ToSet(elements))
  BY <1>2, FS_Intersection
<1>5. /\ Len(elements) \in Nat /\ Len(popped) \in Nat
      /\ Cardinality(cleared) \in Nat /\ Cardinality(cleared') \in Nat
      /\ Cardinality(ToSet(elements)) \in Nat /\ Cardinality(ToSet(popped)) \in Nat
      /\ Cardinality(cleared \cap ToSet(elements)) \in Nat
      /\ Cardinality(pushed) \in Nat
  BY <1>1, <1>2, <1>3, <1>4, FS_CardinalityType DEF Finite, QueueTypeOK
<1>6. pushed = cleared' \cup ToSet(popped)
  BY <1>1 DEF Inv, EachValueOnce
<1>7. Cardinality(pushed) <= Cardinality(cleared') + Cardinality(ToSet(popped))
  <2>1. /\ Cardinality(cleared' \cup ToSet(popped))
             = Cardinality(cleared') + Cardinality(ToSet(popped))
                 - Cardinality(cleared' \cap ToSet(popped))
        /\ IsFiniteSet(cleared' \cap ToSet(popped))
    BY <1>2, <1>3, FS_Union, FS_Intersection
  <2>2. Cardinality(cleared' \cap ToSet(popped)) \in Nat
    BY <2>1, FS_CardinalityType
  <2> QED BY <1>5, <1>6, <2>1, <2>2
<1>8. Len(popped) + Cardinality(cleared') = Cardinality(pushed)
  <2>1. Len(elements) + Len(popped) + Cardinality(cleared) = Cardinality(pushed)
    BY DEF Inv, EachValueOnce
  <2>2. Cardinality(cleared') <= Cardinality(cleared) + Len(elements)
    BY <1>2, <1>3, <1>5
  <2>3. Cardinality(pushed) <= Cardinality(cleared') + Len(popped)
    BY <1>2, <1>5, <1>7
  <2> QED BY <1>5, <2>1, <2>2, <2>3
<1>9. QueueTypeOK'
  BY <1>1, <1>6 DEF QueueTypeOK
<1>10. Finite' /\ LateAwake'
  BY <1>1, <1>3, FS_EmptySet DEF Finite, LateAwake
<1>11. EachValueOnce'
  <2>1. ToSet(<<>>) = {} /\ Len(<<>>) = 0
    BY DEF ToSet
  <2>2. ToSet(elements') \cup ToSet(popped') \cup cleared' = pushed'
    BY <1>1, <1>6, <2>1
  <2>3. Len(elements') + Len(popped') + Cardinality(cleared') = Cardinality(pushed')
    BY <1>1, <1>5, <1>8, <2>1
  <2> QED BY <2>2, <2>3 DEF EachValueOnce
<1>12. NoStranded'
  <2>1. /\ Cardinality(late') \in Nat /\ Cardinality(notified') \in Nat
        /\ Len(elements') = 0
    BY <1>1, <1>10, FS_CardinalityType DEF Finite
  <2> QED BY <2>1 DEF NoStranded
<1> QED BY <1>9, <1>10, <1>11, <1>12 DEF Inv

LEMMA WakeInv == ASSUME Inv, WakeSome PROVE Inv'
<1>1. QueueTypeOK /\ Finite /\ UNCHANGED <<elements, pushed, popped, cleared, late>>
  BY DEF WakeSome, Notify, NotifyAll, Inv
<1>2. /\ waiting' \subseteq Takers /\ notified' \subseteq Takers \ waiting'
      /\ IsFiniteSet(waiting') /\ IsFiniteSet(notified')
      /\ waiting' \cup notified' = waiting \cup notified
      /\ waiting' # {} =>
           waiting # {} /\ Cardinality(notified') >= Cardinality(notified)
  <2>1. CASE Notify
    <3>1. Cardinality(notified) \in Nat
      BY <1>1, FS_CardinalityType DEF Finite
    <3>2. NotifyOne
      BY <2>1 DEF Notify
    <3>3. IsFiniteSet(notified')
      BY <1>1, <3>2, OneWoken
    <3>4. Cardinality(notified') \in Nat
      BY <3>3, FS_CardinalityType
    <3> QED BY <1>1, <3>1, <3>2, <3>4, OneWoken
  <2>2. CASE NotifyAll
    <3>1. waiting' = {} /\ notified' = notified \cup waiting
      BY <2>2 DEF NotifyAll
    <3> QED BY <1>1, <3>1, FS_Union, FS_EmptySet DEF QueueTypeOK, Finite
  <2> QED BY <2>1, <2>2 DEF WakeSome
<1>3. QueueTypeOK' /\ Finite' /\ LateAwake' /\ EachValueOnce'
  BY <1>1, <1>2 DEF Inv, QueueTypeOK, Finite, LateAwake, EachValueOnce, Busy
<1>4. NoStranded'
  <2>1. /\ Cardinality(late) \in Nat /\ Cardinality(notified) \in Nat
        /\ Len(elements) \in Nat /\ Cardinality(notified') \in Nat
    BY <1>1, <1>3, FS_CardinalityType DEF Finite, QueueTypeOK
  <2> QED BY <1>1, <1>2, <2>1 DEF Inv, NoStranded
<1> QED BY <1>3, <1>4 DEF Inv

LEMMA InitInv == QueueInit => Inv
<1> SUFFICES ASSUME QueueInit PROVE Inv
  OBVIOUS
<1>1. /\ elements = <<>> /\ popped = <<>> /\ waiting = {} /\ notified = {}
      /\ pushed = {} /\ cleared = {} /\ late = {}
  BY DEF QueueInit, QInit
<1>2. /\ Cardinality({}) = 0 /\ IsFiniteSet({})
      /\ ToSet(<<>>) = {} /\ Len(<<>>) = 0
  BY FS_EmptySet DEF ToSet
<1>3. QueueTypeOK /\ Finite /\ LateAwake
  BY <1>1, <1>2 DEF QueueTypeOK, Finite, LateAwake
<1>4. EachValueOnce /\ NoStranded
  BY <1>1, <1>2 DEF EachValueOnce, NoStranded
<1> QED BY <1>3, <1>4 DEF Inv

LEMMA NextInv == Inv /\ [QueueNext]_queueingVars => Inv'
<1> SUFFICES ASSUME Inv, [QueueNext]_queueingVars PROVE Inv'
  OBVIOUS
<1>1. CASE PushSome
  BY <1>1, PushInv
<1>2. CASE \E t \in Takers : TakeFront(t) \/ GoWithout(t) \/ GiveUp(t)
  BY <1>2, TakeInv, ReturnInv, ExpireInv
<1>3. CASE Empty
  BY <1>3, EmptyInv
<1>4. CASE WakeSome
  BY <1>4, WakeInv
<1>5. CASE UNCHANGED queueingVars
  BY <1>5 DEF queueingVars, Inv, QueueTypeOK, Finite, LateAwake, EachValueOnce, NoStranded,
              Busy
<1> QED BY <1>1, <1>2, <1>3, <1>4, <1>5 DEF QueueNext

LEMMA AlwaysInv == QueueSpec => []Inv
BY InitInv, NextInv, PTL DEF QueueSpec
-----------------------------------------------------------------------------
(* MyThreadQueue's state and the history kept beside it have their types.  *)
THEOREM TypeCorrect == QueueSpec => []QueueTypeOK
<1>1. Inv => QueueTypeOK
  BY DEF Inv
<1> QED BY <1>1, AlwaysInv, PTL

(* Every value pushed is in the deque, or was returned by one popFront, or *)
(* was cleared, once in all.                                               *)
THEOREM AlwaysEachValueOnce == QueueSpec => []EachValueOnce
<1>1. Inv => EachValueOnce
  BY DEF Inv
<1> QED BY <1>1, AlwaysInv, PTL

(* While a popFront sleeps, each element of the deque has a notified       *)
(* thread coming for it, or a wait that expired after its notification.    *)
THEOREM AlwaysNoStranded == QueueSpec => []NoStranded
<1>1. Inv => NoStranded
  BY DEF Inv
<1> QED BY <1>1, AlwaysInv, PTL
-----------------------------------------------------------------------------
(* A process's clients. *)

(* What is known of every proxy, and of every task.                        *)
Known ==
  /\ configs \in [Servants -> (SUBSET Hosts) \cup {Unset}]
  /\ seen \in [Servants -> SUBSET Hosts]
  /\ proxys \subseteq Servants
  /\ \A s \in proxys : configs[s] # Unset /\ seen[s] = configs[s]

Held ==
  /\ tasks \in [Loops -> Seq(Servants)]
  /\ running \in [Loops -> Servants \cup {Unset}]
  /\ last \in [Loops -> Servants \cup {Unset}]
  /\ clients \in [Loops -> [Hosts \X Servants -> Nat]]

(* Tasks are for proxies, on the loop of their servant.                    *)
Belongs(s, l) == s \in proxys /\ TaskLoop[s] = l

OnOwnLoop ==
  \A l \in Loops :
    /\ \A i \in DOMAIN tasks[l] : Belongs(tasks[l][i], l)
    /\ running[l] # Unset => Belongs(running[l], l)
    /\ last[l] # Unset => Belongs(last[l], l)

(* One client for each of these hosts, and no other.                       *)
Exactly(here, hosts) ==
  \A h \in Hosts :
    LET owners == {s \in Servants : here[<<h, s>>] > 0}
    IN IF h \in hosts THEN \E s \in Servants : owners = {s} /\ here[<<h, s>>] = 1
       ELSE owners = {}

(* A loop has the clients of some configuration; when none of its tasks is *)
(* left to run, of the newest one of the last task's servant.              *)
TidyLoop(l) ==
  \E hosts \in SUBSET Hosts :
    /\ Exactly(clients[l], hosts)
    /\ Idle(l) /\ last[l] # Unset => hosts = configs[last[l]]

Tidy == Straight => \A l \in Loops : TidyLoop(l)

CommInv == Known /\ Held /\ OnOwnLoop /\ Tidy

(* What a task leaves of a loop's clients, and what it adds to them.        *)
Trimmed(kept, here, hosts) ==
  \A h \in Hosts, t \in Servants :
    kept[<<h, t>>] = IF h \in hosts THEN here[<<h, t>>] ELSE 0

Filled(there, kept, hosts, s) ==
  \A h \in Hosts, t \in Servants :
    there[<<h, t>>] = IF t = s /\ h \in Added(s, hosts, kept)
                      THEN kept[<<h, t>>] + 1 ELSE kept[<<h, t>>]

(* Whatever configuration a loop had the clients of, the task removes the  *)
(* others and adds what is missing: one of each.                           *)
LEMMA TaskSettles ==
  ASSUME NEW here \in [Hosts \X Servants -> Nat], NEW hosts0,
         Exactly(here, hosts0),
         NEW hosts \in SUBSET Hosts, NEW s \in Servants,
         NEW kept \in [Hosts \X Servants -> Nat], Trimmed(kept, here, hosts),
         NEW there \in [Hosts \X Servants -> Nat],
         Filled(there, kept, hosts, s)
  PROVE  Exactly(there, hosts)
<1> SUFFICES ASSUME NEW h \in Hosts
    PROVE LET owners == {t \in Servants : there[<<h, t>>] > 0}
          IN IF h \in hosts
             THEN \E t \in Servants : owners = {t} /\ there[<<h, t>>] = 1
             ELSE owners = {}
  BY DEF Exactly
<1> DEFINE was == {t \in Servants : here[<<h, t>>] > 0}
           owners == {t \in Servants : there[<<h, t>>] > 0}
<1>0. /\ \A t \in Servants : here[<<h, t>>] \in Nat
      /\ \A t \in Servants : kept[<<h, t>>] = IF h \in hosts THEN here[<<h, t>>] ELSE 0
      /\ \A t \in Servants :
           there[<<h, t>>] = IF t = s /\ h \in Added(s, hosts, kept)
                         THEN kept[<<h, t>>] + 1 ELSE kept[<<h, t>>]
  BY DEF Trimmed, Filled
<1>1. CASE h \notin hosts
  <2>1. \A t \in Servants : there[<<h, t>>] = 0
    BY <1>0, <1>1 DEF Added
  <2> QED BY <1>1, <2>1
<1>2. CASE h \in hosts /\ h \in hosts0
  <2>1. PICK t \in Servants : was = {t} /\ here[<<h, t>>] = 1
    BY <1>2 DEF Exactly
  <2>2. \A u \in Servants : kept[<<h, u>>] = here[<<h, u>>]
    BY <1>0, <1>2
  <2>3. Has(kept, h)
    BY <2>1, <2>2 DEF Has
  <2>4. \A u \in Servants : there[<<h, u>>] = here[<<h, u>>]
    BY <1>0, <2>2, <2>3 DEF Added
  <2>5. owners = was /\ there[<<h, t>>] = 1
    BY <2>1, <2>4
  <2> QED BY <1>2, <2>1, <2>5
<1>3. CASE h \in hosts /\ h \notin hosts0
  <2>1. was = {}
    BY <1>3 DEF Exactly
  <2>2. \A u \in Servants : kept[<<h, u>>] = 0
    BY <1>0, <1>3, <2>1
  <2>3. ~Has(kept, h)
    <3>1. \A u \in Servants : ~(kept[<<h, u>>] > 0)
      BY <2>2
    <3> QED BY <3>1 DEF Has
  <2>4. h \in Added(s, hosts, kept)
    BY <1>3, <2>3 DEF Added
  <2>5. \A u \in Servants : there[<<h, u>>] = IF u = s THEN 1 ELSE 0
    BY <1>0, <2>2, <2>4
  <2>6. owners = {s}
    BY <2>5
  <2> QED BY <1>3, <2>5, <2>6
<1> QED BY <1>1, <1>2, <1>3

LEMMA CommInitInv == ASSUME CommConstants, CommInit PROVE CommInv
<1>1. Known
  BY DEF CommConstants, CommInit, Known
<1>2. Held
  BY DEF CommConstants, CommInit, Held
<1>3. OnOwnLoop
  BY DEF CommInit, OnOwnLoop
<1>4. ASSUME NEW l \in Loops PROVE TidyLoop(l)
  <2>1. \A h \in Hosts, s \in Servants : clients[l][<<h, s>>] = 0
    BY DEF CommInit
  <2>2. Exactly(clients[l], {})
    BY <2>1 DEF Exactly
  <2>3. last[l] = Unset
    BY DEF CommInit
  <2> QED BY <2>2, <2>3 DEF TidyLoop
<1> QED BY <1>1, <1>2, <1>3, <1>4 DEF CommInv, Tidy

(* Posting a task, for a servant whose proxy is there or is being made.    *)
LEMMA PostedKeeps ==
  ASSUME CommConstants, Held, OnOwnLoop, NEW s \in Servants, Posted(s),
         proxys' = proxys \cup {s}, UNCHANGED <<running, last, clients>>
  PROVE  /\ Held' /\ OnOwnLoop'
         /\ \A l \in Loops : Idle(l)' => Idle(l) /\ l # TaskLoop[s]
<1>0. TaskLoop[s] \in Loops
  BY DEF CommConstants
<1>1. ASSUME NEW l \in Loops
      PROVE  tasks'[l] = IF l = TaskLoop[s] THEN Append(tasks[l], s) ELSE tasks[l]
  BY <1>0 DEF Posted, Held
<1>2. ASSUME NEW l \in Loops
      PROVE  /\ tasks'[l] \in Seq(Servants)
             /\ \A i \in DOMAIN tasks'[l] :
                  \/ tasks'[l][i] = s /\ l = TaskLoop[s]
                  \/ i \in DOMAIN tasks[l] /\ tasks'[l][i] = tasks[l][i]
             /\ Idle(l)' => Idle(l) /\ l # TaskLoop[s]
  <2>1. tasks[l] \in Seq(Servants)
    BY DEF Held
  <2>2. CASE l = TaskLoop[s]
    <3>1. tasks'[l] = Append(tasks[l], s)
      BY <1>1, <2>2
    <3>2. Append(tasks[l], s) # <<>>
      BY <2>1
    <3>3. ~Idle(l)'
      BY <3>1, <3>2 DEF Idle
    <3> QED BY <2>1, <2>2, <3>1, <3>3
  <2>3. CASE l # TaskLoop[s]
    BY <1>1, <2>1, <2>3 DEF Idle
  <2> QED BY <2>2, <2>3
<1>3. Held'
  <2>1. tasks' \in [Loops -> Seq(Servants)]
    BY <1>2 DEF Posted, Held
  <2> QED BY <2>1 DEF Held
<1>4. OnOwnLoop'
  BY <1>2 DEF OnOwnLoop, Belongs
<1> QED BY <1>2, <1>3, <1>4

LEMMA Unmoved ==
  ASSUME CommInv, UNCHANGED <<configs, proxys, seen, loopVars>>
  PROVE  CommInv'
<1>0. UNCHANGED <<configs, proxys, seen, tasks, running, last, clients>>
  BY DEF loopVars
<1>1. Known' /\ Held'
  BY <1>0 DEF CommInv, Known, Held
<1>2. OnOwnLoop'
  BY <1>0 DEF CommInv, OnOwnLoop, Belongs
<1>3. ASSUME NEW l \in Loops, TidyLoop(l) PROVE TidyLoop(l)'
  BY <1>0, <1>3 DEF TidyLoop, Exactly, Idle
<1> QED BY <1>1, <1>2, <1>3 DEF CommInv, Tidy, Straight

LEMMA UpdateKeeps ==
  ASSUME CommConstants, CommInv, NEW s \in Servants,
         NEW hosts \in SUBSET Hosts, Update(s, hosts)
  PROVE  CommInv'
<1>1. Known'
  BY DEF CommInv, Known, Update, CommConstants
<1>2. CASE s \in proxys
  <2>1. Posted(s) /\ proxys' = proxys \cup {s}
    BY <1>2 DEF Update
  <2>2. UNCHANGED <<running, last, clients, proxys>>
    BY DEF Update
  <2>3. /\ Held' /\ OnOwnLoop'
        /\ \A l \in Loops : Idle(l)' => Idle(l) /\ l # TaskLoop[s]
    BY <2>1, <2>2, PostedKeeps DEF CommInv
  <2>4. ASSUME NEW l \in Loops, TidyLoop(l) PROVE TidyLoop(l)'
    <3>1. PICK old \in SUBSET Hosts :
            /\ Exactly(clients[l], old)
            /\ Idle(l) /\ last[l] # Unset => old = configs[last[l]]
      BY <2>4 DEF TidyLoop
    <3>2. Idle(l)' /\ last'[l] # Unset => last[l] # s /\ last[l] \in Servants
      <4>1. last'[l] = last[l]
        BY <2>2
      <4>2. last[l] # Unset => TaskLoop[last[l]] = l /\ last[l] \in Servants
        BY DEF CommInv, OnOwnLoop, Belongs, Known
      <4>3. Idle(l)' => l # TaskLoop[s]
        BY <2>3
      <4> QED BY <4>1, <4>2, <4>3
    <3>3. Idle(l)' /\ last'[l] # Unset => old = configs'[last'[l]]
      BY <2>2, <2>3, <3>1, <3>2 DEF Update, CommInv, Known
    <3> QED BY <2>2, <3>1, <3>3 DEF TidyLoop, Exactly
  <2> QED BY <1>1, <2>3, <2>4 DEF CommInv, Tidy, Straight
<1>3. CASE s \notin proxys
  <2>1. UNCHANGED <<proxys, tasks, running, last, clients>>
    BY <1>3 DEF Update
  <2>2. Held' /\ OnOwnLoop'
    BY <2>1 DEF CommInv, Held, OnOwnLoop, Belongs
  <2>3. ASSUME NEW l \in Loops, TidyLoop(l) PROVE TidyLoop(l)'
    <3>1. PICK old \in SUBSET Hosts :
            /\ Exactly(clients[l], old)
            /\ Idle(l) /\ last[l] # Unset => old = configs[last[l]]
      BY <2>3 DEF TidyLoop
    <3>2. last[l] # Unset => last[l] # s /\ last[l] \in Servants
      BY <1>3 DEF CommInv, OnOwnLoop, Belongs, Known
    <3>3. Idle(l)' /\ last'[l] # Unset => old = configs'[last'[l]]
      BY <2>1, <3>1, <3>2 DEF Update, CommInv, Known, Idle
    <3> QED BY <2>1, <3>1, <3>3 DEF TidyLoop, Exactly
  <2> QED BY <1>1, <2>2, <2>3 DEF CommInv, Tidy, Straight
<1> QED BY <1>2, <1>3

LEMMA ObtainKeeps ==
  ASSUME CommConstants, CommInv, NEW s \in Servants, Obtain(s),
         UNCHANGED <<configs, running, last, clients>>
  PROVE  CommInv'
<1>1. CASE s \notin proxys /\ configs[s] # Unset
  <2>1. /\ Posted(s) /\ proxys' = proxys \cup {s}
        /\ seen' = [seen EXCEPT ![s] = configs[s]]
    BY <1>1 DEF Obtain
  <2>2. Known'
    BY <1>1, <2>1 DEF CommInv, Known
  <2>3. /\ Held' /\ OnOwnLoop'
        /\ \A l \in Loops : Idle(l)' => Idle(l) /\ l # TaskLoop[s]
    BY <2>1, PostedKeeps DEF CommInv
  <2>4. ASSUME NEW l \in Loops, TidyLoop(l) PROVE TidyLoop(l)'
    BY <2>3, <2>4 DEF TidyLoop, Exactly
  <2> QED BY <2>2, <2>3, <2>4 DEF CommInv, Tidy, Straight
<1>2. CASE ~(s \notin proxys /\ configs[s] # Unset)
  <2>1. UNCHANGED <<proxys, seen, tasks>>
    BY <1>2 DEF Obtain
  <2> QED BY <2>1, Unmoved DEF loopVars
<1> QED BY <1>1, <1>2

LEMMA BeginKeeps ==
  ASSUME CommConstants, CommInv, NEW l \in Loops, Begin(l)
  PROVE  CommInv'
<1>1. /\ tasks[l] \in Seq(Servants) /\ tasks[l] # <<>>
      /\ running'[l] = Head(tasks[l]) /\ tasks'[l] = Tail(tasks[l])
      /\ \A k \in Loops : k # l => tasks'[k] = tasks[k] /\ running'[k] = running[k]
  BY DEF Begin, CommInv, Held
<1>2. /\ 1 \in DOMAIN tasks[l] /\ Head(tasks[l]) = tasks[l][1]
      /\ Head(tasks[l]) \in Servants /\ Tail(tasks[l]) \in Seq(Servants)
      /\ \A i \in DOMAIN Tail(tasks[l]) :
           i + 1 \in DOMAIN tasks[l] /\ Tail(tasks[l])[i] = tasks[l][i + 1]
  BY <1>1
<1>3. Known'
  BY DEF CommInv, Known, Begin, tableVars
<1>4. Held'
  BY <1>2 DEF CommInv, Held, Begin
<1>5. OnOwnLoop'
  <2> SUFFICES ASSUME NEW k \in Loops
      PROVE /\ \A i \in DOMAIN tasks'[k] : Belongs(tasks'[k][i], k)
            /\ running'[k] # Unset => Belongs(running'[k], k)
            /\ last[k] # Unset => Belongs(last[k], k)
    BY DEF OnOwnLoop, Belongs, Begin, tableVars
  <2>1. /\ \A i \in DOMAIN tasks[k] : Belongs(tasks[k][i], k)
        /\ running[k] # Unset => Belongs(running[k], k)
        /\ last[k] # Unset => Belongs(last[k], k)
    BY DEF CommInv, OnOwnLoop
  <2>2. CASE k = l
    BY <1>1, <1>2, <2>1, <2>2
  <2>3. CASE k # l
    BY <1>1, <2>1, <2>3
  <2> QED BY <2>2, <2>3
<1>6. ASSUME NEW k \in Loops, TidyLoop(k) PROVE TidyLoop(k)'
  <2>1. Idle(k)' => Idle(k)
    BY <1>1, <1>2 DEF Idle, CommConstants
  <2> QED BY <1>6, <2>1 DEF TidyLoop, Exactly, Begin, tableVars
<1> QED BY <1>3, <1>4, <1>5, <1>6 DEF CommInv, Tidy, Straight

LEMMA EndKeeps ==
  ASSUME CommConstants, CommInv, NEW l \in Loops, End(l)
  PROVE  CommInv'
<1> DEFINE s == running[l]
           m == ClientLoop[s]
           kept == [clients EXCEPT ![l] = Kept(l, seen[s])]
           there == [p \in Hosts \X Servants |->
                       IF p[2] = s /\ p[1] \in Added(s, seen[s], kept[l])
                       THEN kept[m][p] + 1 ELSE kept[m][p]]
<1>0. /\ s \in Servants /\ s \in proxys /\ TaskLoop[s] = l /\ m \in Loops
      /\ seen[s] \in SUBSET Hosts /\ seen[s] = configs[s]
  BY DEF End, CommInv, Held, Known, OnOwnLoop, Belongs, CommConstants
<1>1. /\ clients' = [kept EXCEPT ![m] = there]
      /\ last' = [last EXCEPT ![l] = s]
      /\ running' = [running EXCEPT ![l] = Unset]
      /\ UNCHANGED <<configs, proxys, seen, tasks>>
  BY DEF End, tableVars
<1>2. Kept(l, seen[s]) \in [Hosts \X Servants -> Nat]
  BY DEF Kept, CommInv, Held
<1>3. kept \in [Loops -> [Hosts \X Servants -> Nat]]
  BY <1>2 DEF CommInv, Held
<1>4. there \in [Hosts \X Servants -> Nat]
  BY <1>0, <1>3
<1>5. Held'
  <2>1. clients' \in [Loops -> [Hosts \X Servants -> Nat]]
    <3> HIDE DEF there, kept
    <3> QED BY <1>1, <1>3, <1>4
  <2> QED BY <1>0, <1>1, <2>1 DEF CommInv, Held
<1>6. Known'
  BY <1>1 DEF CommInv, Known
<1>7. OnOwnLoop'
  BY <1>0, <1>1 DEF CommInv, Held, OnOwnLoop, Belongs
<1>8. ASSUME Straight, NEW k \in Loops, TidyLoop(k) PROVE TidyLoop(k)'
  <2>0. m = l
    BY <1>0, <1>8 DEF Straight
  <2>1. CASE k = l
    <3>1. /\ kept[l] = Kept(l, seen[s])
          /\ clients[l] \in [Hosts \X Servants -> Nat]
      BY DEF CommInv, Held
    <3>2. \A h \in Hosts, t \in Servants :
            kept[l][<<h, t>>] = IF h \in seen[s] THEN clients[l][<<h, t>>] ELSE 0
      BY <3>1 DEF Kept
    <3>3. \A h \in Hosts, t \in Servants :
            there[<<h, t>>] = IF t = s /\ h \in Added(s, seen[s], kept[l])
                          THEN kept[l][<<h, t>>] + 1 ELSE kept[l][<<h, t>>]
      BY <2>0
    <3>4. clients'[l] = there /\ last'[l] = s
      <4> HIDE DEF there, kept
      <4> QED BY <1>1, <1>3, <2>0 DEF CommInv, Held
    <3>5. PICK old \in SUBSET Hosts : Exactly(clients[l], old)
      BY <1>8, <2>1 DEF TidyLoop
    <3>6. kept[l] \in [Hosts \X Servants -> Nat]
      BY <1>2, <3>1
    <3>7. Exactly(there, seen[s])
      <4> DEFINE here == clients[l]
                 k0 == kept[l]
                 hosts == seen[s]
      <4>1. /\ s \in Servants /\ hosts \in SUBSET Hosts
            /\ here \in [Hosts \X Servants -> Nat] /\ Exactly(here, old)
            /\ k0 \in [Hosts \X Servants -> Nat]
            /\ there \in [Hosts \X Servants -> Nat]
        BY <1>0, <1>4, <3>1, <3>5, <3>6
      <4>2. Trimmed(k0, here, hosts) /\ Filled(there, k0, hosts, s)
        BY <3>2, <3>3 DEF Trimmed, Filled
      <4> HIDE DEF there, kept, s, here, k0, hosts
      <4>3. Exactly(there, hosts)
        BY <4>1, <4>2, TaskSettles
      <4> QED BY <4>3 DEF hosts
    <3> HIDE DEF there, s
    <3> QED BY <1>0, <1>1, <2>1, <3>4, <3>7 DEF TidyLoop
  <2>2. CASE k # l
    <3>1. clients'[k] = clients[k]
      <4> HIDE DEF there
      <4> QED BY <1>1, <2>0, <2>2 DEF CommInv, Held
    <3>2. last'[k] = last[k] /\ running'[k] = running[k]
      BY <1>1, <2>2 DEF CommInv, Held
    <3> HIDE DEF there, s, kept, m
    <3> QED BY <1>1, <1>8, <3>1, <3>2 DEF TidyLoop, Idle
  <2> QED BY <2>1, <2>2
<1> QED BY <1>5, <1>6, <1>7, <1>8 DEF CommInv, Tidy, Straight

LEMMA CommNextInv ==
  ASSUME CommConstants, CommInv, [CommNext]_commVars
  PROVE  CommInv'
<1>1. ASSUME NEW s \in Servants, NEW hosts \in SUBSET Hosts, Update(s, hosts)
      PROVE  CommInv'
  BY <1>1, UpdateKeeps
<1>2. ASSUME NEW s \in Servants, GetProxy(s) PROVE CommInv'
  BY <1>2, ObtainKeeps DEF GetProxy
<1>3. ASSUME NEW l \in Loops, Begin(l) PROVE CommInv'
  BY <1>3, BeginKeeps
<1>4. ASSUME NEW l \in Loops, End(l) PROVE CommInv'
  BY <1>4, EndKeeps
<1>5. CASE Start \/ Skip \/ Unanswered
  BY <1>5, Unmoved DEF tableVars, loopVars, Start, Skip, Unanswered
<1>8. ASSUME NEW r, Take(r) \/ Arrive(r) PROVE CommInv'
  BY <1>8, Unmoved DEF tableVars, loopVars, Take, Arrive
<1>6. ASSUME NEW what, Ask(what) PROVE CommInv'
  BY <1>6, ObtainKeeps DEF Ask, CommConstants
<1>7. CASE UNCHANGED commVars
  BY <1>7, Unmoved DEF commVars, tableVars
<1> QED
  BY <1>1, <1>2, <1>3, <1>4, <1>5, <1>6, <1>7, <1>8 DEF CommNext, MainThread

LEMMA CommInvHolds == ASSUME CommConstants PROVE CommSpec => []CommInv
BY CommInitInv, CommNextInv, PTL DEF CommSpec

(* When a loop has run all its tasks, it has one client for each host of   *)
(* the newest configuration of the servant whose task was the last, and no *)
(* other (provided tasks run on the loops they make clients for): for any  *)
(* number of loops, servants, hosts and updates.                           *)
THEOREM AlwaysConfigured ==
  ASSUME CommConstants PROVE CommSpec => []Configured
<1>1. CommInv => Configured
  <2> SUFFICES ASSUME CommInv, Straight, NEW l \in Loops, Idle(l),
                      last[l] # Unset
      PROVE Exactly(clients[l], configs[last[l]])
    BY DEF Configured, Exactly
  <2> QED BY DEF CommInv, Tidy, TidyLoop
<1> QED BY <1>1, CommInvHolds, PTL
-----------------------------------------------------------------------------
(* A task of this servant is still to end on the loop.                     *)
Owed(l, t) == running[l] = t \/ \E i \in DOMAIN tasks[l] : tasks[l][i] = t

(* Every client is one of a proxy, on the servant's own loop, and its host *)
(* is configured, unless a task that will see to it has not ended.         *)
Placed(l, h, t) ==
  t \in proxys /\ TaskLoop[t] = l /\ (h \in configs[t] \/ Owed(l, t))

Accounted ==
  \A l \in Loops, h \in Hosts, t \in Servants :
    clients[l][<<h, t>>] > 0 => Placed(l, h, t)

LEMMA PostedOwes ==
  ASSUME CommConstants, Held, NEW s \in Servants, Posted(s), UNCHANGED running
  PROVE  /\ Owed(TaskLoop[s], s)'
         /\ \A l \in Loops, t \in Servants : Owed(l, t) => Owed(l, t)'
<1>0. TaskLoop[s] \in Loops
  BY DEF CommConstants
<1>1. ASSUME NEW l \in Loops
      PROVE  /\ tasks[l] \in Seq(Servants)
             /\ tasks'[l] = IF l = TaskLoop[s] THEN Append(tasks[l], s) ELSE tasks[l]
  BY <1>0 DEF Posted, Held
<1>2. ASSUME NEW l \in Loops
      PROVE  /\ \A i \in DOMAIN tasks[l] :
                  i \in DOMAIN tasks'[l] /\ tasks'[l][i] = tasks[l][i]
             /\ l = TaskLoop[s] =>
                  /\ Len(tasks[l]) + 1 \in DOMAIN tasks'[l]
                  /\ tasks'[l][Len(tasks[l]) + 1] = s
  <2>1. CASE l = TaskLoop[s]
    <3> DEFINE q == tasks[l]
    <3>1. q \in Seq(Servants) /\ tasks'[l] = Append(q, s)
      BY <1>1, <2>1
    <3> HIDE DEF q
    <3>2. /\ \A i \in DOMAIN q :
               i \in DOMAIN Append(q, s) /\ Append(q, s)[i] = q[i]
          /\ Len(q) + 1 \in DOMAIN Append(q, s)
          /\ Append(q, s)[Len(q) + 1] = s
      BY <3>1
    <3> QED BY <3>1, <3>2 DEF q
  <2>2. CASE l # TaskLoop[s]
    BY <1>1, <2>2
  <2> QED BY <2>1, <2>2
<1> QED BY <1>0, <1>2 DEF Owed

LEMMA AccountedUnmoved ==
  ASSUME Accounted, UNCHANGED <<proxys, running, tasks, clients>>,
         \A t \in proxys : configs'[t] = configs[t]
  PROVE  Accounted'
BY DEF Accounted, Placed, Owed

LEMMA UpdateAccounts ==
  ASSUME CommConstants, CommInv, Accounted, NEW s \in Servants,
         NEW hosts \in SUBSET Hosts, Update(s, hosts)
  PROVE  Accounted'
<1>0. /\ UNCHANGED <<proxys, running, clients>>
      /\ \A t \in Servants \ {s} : configs'[t] = configs[t]
  BY DEF Update, CommInv, Known
<1>1. CASE s \in proxys
  <2>1. /\ Owed(TaskLoop[s], s)'
        /\ \A l \in Loops, t \in Servants : Owed(l, t) => Owed(l, t)'
    BY <1>0, <1>1, PostedOwes DEF Update, CommInv
  <2> SUFFICES ASSUME NEW l \in Loops, NEW h \in Hosts, NEW t \in Servants,
                      Placed(l, h, t)
      PROVE Placed(l, h, t)'
    BY <1>0 DEF Accounted
  <2> QED BY <1>0, <2>1 DEF Placed
<1>2. CASE s \notin proxys
  <2>1. UNCHANGED tasks /\ \A t \in proxys : configs'[t] = configs[t]
    BY <1>0, <1>2 DEF Update, CommInv, Known
  <2> QED BY <1>0, <2>1, AccountedUnmoved
<1> QED BY <1>1, <1>2

LEMMA ObtainAccounts ==
  ASSUME CommConstants, CommInv, Accounted, NEW s \in Servants, Obtain(s),
         UNCHANGED <<configs, running, clients>>
  PROVE  Accounted'
<1>1. CASE s \notin proxys /\ configs[s] # Unset
  <2>1. Posted(s) /\ proxys' = proxys \cup {s}
    BY <1>1 DEF Obtain
  <2>2. \A l \in Loops, t \in Servants : Owed(l, t) => Owed(l, t)'
    BY <2>1, PostedOwes DEF CommInv
  <2> QED BY <2>1, <2>2 DEF Accounted, Placed
<1>2. CASE ~(s \notin proxys /\ configs[s] # Unset)
  <2>1. UNCHANGED <<proxys, tasks>>
    BY <1>2 DEF Obtain
  <2> QED BY <2>1, AccountedUnmoved
<1> QED BY <1>1, <1>2

LEMMA BeginAccounts ==
  ASSUME CommConstants, CommInv, Accounted, NEW l \in Loops, Begin(l)
  PROVE  Accounted'
<1>1. /\ tasks[l] \in Seq(Servants) /\ tasks[l] # <<>> /\ running[l] = Unset
      /\ running'[l] = Head(tasks[l]) /\ tasks'[l] = Tail(tasks[l])
      /\ \A k \in Loops : k # l => tasks'[k] = tasks[k] /\ running'[k] = running[k]
      /\ UNCHANGED <<configs, proxys, clients>>
  BY DEF Begin, CommInv, Held, tableVars
<1>2. ASSUME NEW i \in DOMAIN tasks[l]
      PROVE  \/ tasks[l][i] = running'[l]
             \/ \E k \in DOMAIN tasks'[l] : tasks'[l][k] = tasks[l][i]
  <2>1. CASE i = 1
    BY <1>1, <2>1
  <2>2. CASE i # 1
    <3>1. i - 1 \in DOMAIN Tail(tasks[l]) /\ Tail(tasks[l])[i - 1] = tasks[l][i]
      BY <1>1, <2>2
    <3> QED BY <1>1, <3>1
  <2> QED BY <2>1, <2>2
<1>3. ASSUME NEW k \in Loops, NEW t \in Servants, Owed(k, t) PROVE Owed(k, t)'
  <2>1. t # Unset
    BY DEF CommConstants
  <2>2. CASE k = l
    BY <1>1, <1>2, <1>3, <2>1, <2>2 DEF Owed
  <2>3. CASE k # l
    BY <1>1, <1>3, <2>3 DEF Owed
  <2> QED BY <2>2, <2>3
<1> QED BY <1>1, <1>3 DEF Accounted, Placed

(* The task that ends has removed its servant's stale clients and added    *)
(* configured ones only; it can only take clients from other servants.     *)
LEMMA EndAccounts ==
  ASSUME CommConstants, CommInv, Straight, Accounted, NEW l \in Loops, End(l)
  PROVE  Accounted'
<1>0. PICK s \in Servants :
        /\ s = running[l] /\ s \in proxys /\ TaskLoop[s] = l
        /\ ClientLoop[s] = l /\ seen[s] = configs[s]
  BY DEF End, CommInv, Held, Known, OnOwnLoop, Belongs, Straight
<1>1. /\ clients \in [Loops -> [Hosts \X Servants -> Nat]]
      /\ running' = [running EXCEPT ![l] = Unset]
      /\ UNCHANGED <<configs, proxys, tasks>>
  BY DEF End, tableVars, CommInv, Held
<1> DEFINE kept == [clients EXCEPT ![l] = Kept(l, seen[s])]
<1>2. clients' = [kept EXCEPT ![l] =
                    [p \in Hosts \X Servants |->
                       IF p[2] = s /\ p[1] \in Added(s, seen[s], kept[l])
                       THEN kept[l][p] + 1 ELSE kept[l][p]]]
  BY <1>0 DEF End
<1>3. kept[l] = Kept(l, seen[s]) /\ \A k \in Loops \ {l} : kept[k] = clients[k]
  BY <1>1
<1>4. kept \in [Loops -> [Hosts \X Servants -> Nat]]
  BY <1>1 DEF Kept
<1>5. ASSUME NEW h \in Hosts, NEW t \in Servants
      PROVE  kept[l][<<h, t>>] = IF h \in seen[s] THEN clients[l][<<h, t>>] ELSE 0
  BY <1>3 DEF Kept
<1>6. \A k \in Loops \ {l} : clients'[k] = clients[k]
  <2> HIDE DEF kept
  <2> QED BY <1>2, <1>3, <1>4
<1>7. ASSUME NEW h \in Hosts, NEW t \in Servants
      PROVE  clients'[l][<<h, t>>] =
               IF t = s /\ h \in Added(s, seen[s], kept[l])
               THEN kept[l][<<h, t>>] + 1 ELSE kept[l][<<h, t>>]
  <2> HIDE DEF kept
  <2> QED BY <1>2, <1>4
<1> HIDE DEF kept
<1> SUFFICES ASSUME NEW k \in Loops, NEW h \in Hosts, NEW t \in Servants,
                    clients'[k][<<h, t>>] > 0
    PROVE Placed(k, h, t)'
  BY DEF Accounted
<1>8. CASE k # l
  <2>1. Placed(k, h, t) /\ running'[k] = running[k]
    BY <1>1, <1>6, <1>8 DEF Accounted, CommInv, Held
  <2> QED BY <1>1, <2>1 DEF Placed, Owed
<1>9. CASE k = l /\ t = s
  <2>1. h \in seen[s]
    BY <1>5, <1>7, <1>9 DEF Added
  <2> QED BY <1>0, <1>1, <1>9, <2>1 DEF Placed
<1>10. CASE k = l /\ t # s
  <2>1. clients[l][<<h, t>>] > 0
    BY <1>5, <1>7, <1>10
  <2>2. Placed(l, h, t)
    BY <2>1 DEF Accounted
  <2> QED BY <1>0, <1>1, <1>10, <2>2 DEF Placed, Owed
<1> QED BY <1>8, <1>9, <1>10

LEMMA NextAccounts ==
  ASSUME CommConstants, CommInv, Straight, Accounted, [CommNext]_commVars
  PROVE  Accounted'
<1>1. ASSUME NEW s \in Servants, NEW hosts \in SUBSET Hosts, Update(s, hosts)
      PROVE  Accounted'
  BY <1>1, UpdateAccounts
<1>2. ASSUME NEW s \in Servants, GetProxy(s) PROVE Accounted'
  BY <1>2, ObtainAccounts DEF GetProxy
<1>3. ASSUME NEW l \in Loops, Begin(l) PROVE Accounted'
  BY <1>3, BeginAccounts
<1>4. ASSUME NEW l \in Loops, End(l) PROVE Accounted'
  BY <1>4, EndAccounts
<1>5. CASE Start \/ Skip \/ Unanswered
  BY <1>5, AccountedUnmoved DEF tableVars, loopVars, Start, Skip, Unanswered
<1>8. ASSUME NEW r, Take(r) \/ Arrive(r) PROVE Accounted'
  BY <1>8, AccountedUnmoved DEF tableVars, loopVars, Take, Arrive
<1>6. ASSUME NEW what, Ask(what) PROVE Accounted'
  BY <1>6, ObtainAccounts DEF Ask, CommConstants
<1>7. CASE UNCHANGED commVars
  BY <1>7, AccountedUnmoved DEF commVars, tableVars, loopVars
<1> QED
  BY <1>1, <1>2, <1>3, <1>4, <1>5, <1>6, <1>7, <1>8 DEF CommNext, MainThread

(* The comment in ServantProxy::initialize() is right whenever tasks run   *)
(* on the loops they make clients for: with one loop, always.              *)
THEOREM AlwaysStraightHolds ==
  ASSUME CommConstants PROVE CommSpec => []StraightHolds
<1> DEFINE Account == Straight => Accounted
<1>1. CommInit => Account
  BY DEF CommInit, Accounted
<1>2. CommInv /\ Account /\ [CommNext]_commVars => Account'
  BY NextAccounts DEF Straight
<1>3. CommInv /\ Account => (Straight => RemovedGone)
  <2> SUFFICES ASSUME CommInv, Accounted, \A l \in Loops : Idle(l),
                      NEW l \in Loops, NEW h \in Hosts, NEW s \in proxys,
                      clients[l][<<h, s>>] > 0
      PROVE h \in configs[s]
    BY DEF RemovedGone
  <2>1. s \in Servants /\ s # Unset
    BY DEF CommConstants, CommInv, Known
  <2>2. ~Owed(l, s)
    BY <2>1 DEF Idle, Owed
  <2> QED BY <2>1, <2>2 DEF Accounted, Placed
<1> HIDE DEF Account
<1>4. CommSpec => [](Straight => RemovedGone)
  BY <1>1, <1>2, <1>3, CommInvHolds, PTL DEF CommSpec
<1> QED BY <1>4, AlwaysConfigured, PTL DEF StraightHolds

-----------------------------------------------------------------------------
(* The requests whose answers may still be mistaken for one another are of *)
(* this pass over the servants, in their order; what the route has taken   *)
(* of them it has received.                                                *)
PassInv ==
  /\ at.for = "start" \/ at \in Requests
  /\ at.for = "start" => sent = {} /\ asked = "nothing"
  /\ sent \subseteq Requests /\ taken \subseteq sent
  /\ \A r \in sent : r.own <= at.own
  /\ \A r \in taken : r.for = "register" => r.own \in received

MainInv == PassInv /\ RegisteredTaken

LEMMA TurnGoesOn ==
  ASSUME CommConstants, NEW i \in Own, NEW what \in {"register", "sync"},
         Onward(i, what)
  PROVE  /\ at' \in Requests /\ at'.for # "start"
         /\ EndsPass(i, what) \/ i <= at'.own
<1>1. NumOwn \in Nat /\ 1 <= NumOwn /\ i \in Int /\ 1 <= i /\ i <= NumOwn
  BY DEF CommConstants, Own
<1>2. CASE what = "register"
  BY <1>1, <1>2 DEF Onward, Step, Requests, Own
<1>3. CASE what # "register" /\ i < NumOwn
  <2>1. at' = [own |-> i + 1, for |-> "register"] /\ i + 1 \in Own
    BY <1>1, <1>3 DEF Onward, Step, Own
  <2> QED BY <1>1, <2>1 DEF Requests
<1>4. CASE what # "register" /\ ~(i < NumOwn)
  <2>1. at' = [own |-> 1, for |-> "register"] /\ 1 \in Own /\ i = NumOwn
    BY <1>1, <1>4 DEF Onward, Step, Own
  <2> QED BY <1>1, <1>4, <2>1 DEF Requests, EndsPass
<1> QED BY <1>2, <1>3, <1>4

LEMMA PassGoesOn ==
  ASSUME CommConstants, PassInv, at.for # "start",
         NEW what \in {"register", "sync"},
         Onward(at.own, what),
         Later \/ (~EndsPass(at.own, what) /\ UNCHANGED routeVars)
  PROVE  PassInv' /\ received \subseteq received'
<1>1. at \in Requests /\ at.own \in Own
  BY DEF PassInv, Requests
<1>2. /\ at' \in Requests /\ at'.for # "start"
      /\ EndsPass(at.own, what) \/ at.own <= at'.own
  BY <1>1, TurnGoesOn
<1>3. CASE Later
  BY <1>2, <1>3 DEF Later, PassInv
<1>4. CASE ~EndsPass(at.own, what) /\ UNCHANGED routeVars
  <2>1. \A r \in sent : r.own <= at'.own
    <3> SUFFICES ASSUME NEW r \in sent PROVE r.own <= at'.own
      OBVIOUS
    <3>1. r.own \in Int /\ at.own \in Int /\ at'.own \in Int /\ r.own <= at.own
      BY <1>1, <1>2 DEF PassInv, Requests, Own
    <3> QED BY <1>2, <1>4, <3>1
  <2> QED BY <1>2, <1>4, <2>1 DEF PassInv, routeVars
<1> QED BY <1>3, <1>4

LEMMA PassNextInv ==
  ASSUME CommConstants, MainInv, [CommNext]_commVars
  PROVE  MainInv'
<1> USE DEF MainInv
<1>1. CASE Start
  <2>1. at' = [own |-> 1, for |-> "register"] /\ 1 \in Own
    BY <1>1 DEF Start, Step, CommConstants, Own
  <2>2. /\ sent = {} /\ taken = {} /\ asked' = "nothing"
        /\ UNCHANGED <<sent, taken, received, registered>>
    BY <1>1 DEF Start, PassInv, routeVars
  <2>3. at' \in Requests /\ at'.for # "start"
    BY <2>1 DEF Requests
  <2> QED BY <2>2, <2>3 DEF PassInv, RegisteredTaken
<1>2. CASE Skip
  <2>1. ~EndsPass(at.own, "register")
    BY DEF EndsPass
  <2> QED BY <1>2, <2>1, PassGoesOn DEF Skip, RegisteredTaken, routeVars
<1>3. ASSUME NEW what \in {"register", "sync"}, Ask(what) PROVE MainInv'
  <2>1. CASE Route \in proxys /\ Selectable(Route)
    <3>1. /\ sent' = sent \cup {at} /\ at.for = what
          /\ UNCHANGED <<at, taken, received, registered>>
      BY <1>3, <2>1 DEF Ask, Asks
    <3>2. at \in Requests /\ at.own <= at.own
      BY <1>3, <3>1 DEF PassInv, Requests, Own
    <3> QED BY <3>1, <3>2 DEF PassInv, RegisteredTaken
  <2>2. CASE ~(Route \in proxys /\ Selectable(Route))
    <3>1. Passes(at.own, what) /\ UNCHANGED registered /\ at.for # "start"
      BY <1>3, <2>2 DEF Ask, Asks
    <3> QED BY <3>1, PassGoesOn DEF Passes, RegisteredTaken
  <2> QED BY <2>1, <2>2
<1>4. ASSUME NEW r \in sent, Take(r) PROVE MainInv'
  BY <1>4 DEF Take, PassInv, RegisteredTaken
<1>5. ASSUME NEW r \in taken, Arrive(r) PROVE MainInv'
  <2>1. /\ at.for # "start" /\ r \in sent /\ r.own <= at.own
        /\ at.for \in {"register", "sync"}
    BY DEF PassInv, Requests
  <2>2. PassInv' /\ received \subseteq received'
    BY <1>5, <2>1, PassGoesOn DEF Arrive, Passes
  <2>3. r.for = "register" => r.own \in received
    BY DEF PassInv
  <2> QED BY <1>5, <2>1, <2>2, <2>3 DEF Arrive, RegisteredTaken
<1>6. CASE Unanswered
  <2>1. CASE at.for = "start"
    BY <1>6, <2>1 DEF PassInv, Unanswered
  <2>2. CASE at.for # "start"
    <3>1. at.for \in {"register", "sync"}
      BY <2>2 DEF PassInv, Requests
    <3> QED BY <1>6, <2>2, <3>1, PassGoesOn DEF Unanswered, RegisteredTaken
  <2> QED BY <2>1, <2>2
<1>7. CASE UNCHANGED mainVars
  BY <1>7 DEF mainVars, routeVars, PassInv, RegisteredTaken
<1> QED BY <1>1, <1>2, <1>3, <1>4, <1>5, <1>6, <1>7
        DEF CommNext, MainThread, Update, GetProxy, Begin, End, commVars

(* A servant counts as registered only once the route has taken it, or one *)
(* before it in servantMap whose answer, come again within the second, was *)
(* taken for its own: for any number of servants, and though requests and  *)
(* answers are lost, repeated, late and asked for again.                   *)
THEOREM AlwaysRegisteredTaken ==
  ASSUME CommConstants PROVE CommSpec => []RegisteredTaken
<1>1. CommInit => MainInv
  BY DEF CommInit, MainInv, PassInv, RegisteredTaken
<1> QED BY <1>1, PassNextInv, PTL DEF CommSpec, MainInv
=============================================================================

---------------------------- MODULE MCStandalone ----------------------------
(* The components that share no state with the rest, checked side by side: *)
(* a behaviour is one of the component `part`, and the others stay in their*)
(* initial states.                                                         *)
(*                                                                         *)
(* SKBuffer: a 4-byte block whose reallocation skips 2 bytes (the code has *)
(* 16384 and 8), requests that fit and one that a single growth need not   *)
(* hold, enough bytes for two doublings.  Framing: the head's real sizes,  *)
(* a packet with a payload and one without, in pieces of any size.  A      *)
(* loop: two functions are the least for an order; loops share nothing but *)
(* their manager (timers and liveness are in MCLiving).  The queue: two    *)
(* sleepers and a thread that overtakes them, single pushes and a pair.    *)
(* Trees: strings are numbers in base 3 whose last digit names them, paths *)
(* of one and two names.  Documents: up to seven nodes, with what tinyxml2 *)
(* tells apart.                                                            *)
EXTENDS SKBuffer, Framing, TimeoutMap, ConfigParser, Singleton, Loop,
        ThreadQueueClients, Database, Redis

MCRequests == {1, 3, 4, 7}
TwoStarts == <<0, 22, 42>>

b == <<3>>
a == <<4>>
MCPaths == {<<a>>, <<a, b>>}
MCCallKeys == {b, <<1>>}
MCAppended == {a}

Places ==
  {<<1>>, <<1, 1>>, <<1, 1, 1>>, <<1, 1, 1, 1>>, <<1, 1, 2>>, <<1, 2>>,
   <<1, 2, 1>>}
Shapes ==
  {S \in SUBSET Places : <<1>> \in S /\ \A e \in S :
     /\ Len(e) > 1 => Front(e) \in S
     /\ Last(e) > 1 => Append(Front(e), Last(e) - 1) \in S}
KindsAt(S, e) ==
  IF Append(e, 1) \in S THEN {"element", "text"} ELSE {"text", "empty", "other"}
KindsOf(S) ==
  {k \in [S -> {"element", "text", "empty", "other"}] :
     \A e \in S : k[e] \in KindsAt(S, e)}
MCDocuments ==
  UNION {[kind : KindsOf(S), alike : BOOLEAN] : S \in Shapes}

CONSTANTS f1, f2

TwoTasks == {f1, f2}
NoTimers == {}

VARIABLE part

(* What the proofs about these parts take of the constants. *)
ASSUME MysqlConstantsHold == MysqlConstants
ASSUME RedisConstantsHold == RedisConstants

allVars ==
  <<part, vars, streamVars, mapVars, treeVars, parseVars, singleVars, loopVars,
    queueingVars, dbVars, redisVars>>

AllInit ==
  /\ part \in {"buffer", "stream", "map", "tree", "config", "singleton", "loop",
              "queue", "mysql", "redis"}
  /\ Init /\ StreamInit /\ MapInit /\ TreeInit /\ ParseInit /\ SingleInit
  /\ LoopInit
  /\ QueueInit /\ MysqlInit /\ RedisInit
  /\ part = "stream" \/ receiver = "server"
  /\ part = "loop" \/ side = "server"
  /\ part = "singleton" \/ lifetime = "default"

(* All but the part stays as it is; the parser writes to the tree. *)
Fixed(p, v) == part # p => UNCHANGED v

Rest ==
  /\ UNCHANGED part
  /\ part \notin {"tree", "config"} => UNCHANGED treeVars
  /\ Fixed("buffer", vars)
  /\ Fixed("stream", streamVars)
  /\ Fixed("map", mapVars)
  /\ Fixed("loop", loopVars)
  /\ Fixed("config", parseVars)
  /\ Fixed("singleton", singleVars)
  /\ Fixed("queue", queueingVars)
  /\ Fixed("mysql", dbVars)
  /\ Fixed("redis", redisVars)

AllNext ==
  \/ part = "buffer" /\ Next /\ Rest
  \/ part = "stream" /\ StreamNext /\ Rest
  \/ part = "loop" /\ LoopNext /\ Rest
  \/ part = "map" /\ MapNext /\ Rest
  \/ part = "tree" /\ TreeNext /\ Rest
  \/ part = "config" /\ ParseNext /\ Rest
  \/ part = "singleton" /\ SingleNext /\ Rest
  \/ part = "queue" /\ QueueNext /\ Rest
  \/ part = "mysql" /\ MysqlNext /\ Rest
  \/ part = "redis" /\ RedisNext /\ Rest

(* No fair action is enabled in the initial state of its component, so the *)
(* fairness says nothing of the parts not chosen.                          *)
AllSpec == AllInit /\ [][AllNext]_allVars /\ StreamFairness

(* The type invariants of the parts. *)
AllTypesOK ==
  /\ TypeOK /\ StreamTypeOK /\ MapTypeOK /\ TreeTypeOK /\ ParseTypeOK
  /\ SingleTypeOK /\ LoopTypeOK
  /\ QueueTypeOK /\ MysqlTypeOK /\ RedisTypeOK
=============================================================================

------------------------------- MODULE Redis -------------------------------
(***************************************************************************)
(* DCRedis (presistence/MyRedis.cc): clients of one Redis server, each with*)
(* a connection of its own and each making one call.  A call is one        *)
(* command and what becomes of its reply, but for hset() with a time       *)
(* limit, which is HSET, EXPIRE and, when that failed, DEL, with other     *)
(* clients' commands in between.                                           *)
(*                                                                         *)
(* The file is not built: it names some members by older names than its    *)
(* header does (isnull, redis_context_), and exec() in the header calls the*)
(* command's words arg and lacks a brace.  It is read with the header's    *)
(* names and with the brace after the connect() of its error branch.       *)
(* The server is modelled from its use: it runs a command and answers,     *)
(* refuses it, or the connection is lost before or after it was run; then  *)
(* exec() connects again and does not repeat the command.  All calls       *)
(* concern one key of each type.                                           *)
(***************************************************************************)
EXTENDS Integers, Sequences, FiniteSets, SequencesExt

CONSTANTS
  RedisClients,
  Nothing    \* an empty string

RedisConstants == IsFiniteSet(RedisClients) /\ Nothing \notin RedisClients

VARIABLES
  redisCall,    \* the call of each client
  step,         \* "call", and for hset() "expire" or "del"; "done", "dead"
  result,       \* what a call returned
  failed,       \* commands whose reply was an error or was lost, by client
  db,           \* the server's keys
  gone          \* list elements that were removed and handed to nobody

redisVars == <<redisCall, step, result, failed, db, gone>>

RedisInit ==
  /\ redisCall = [c \in RedisClients |-> "none"]
  /\ step = [c \in RedisClients |-> "call"]
  /\ result = [c \in RedisClients |-> <<>>]
  /\ failed = [c \in RedisClients |-> {}]
  /\ db = [string |-> Nothing, number |-> 0, list |-> <<>>, hash |-> {},
           limited |-> FALSE]
  /\ gone = {}

(* exec(): what the server does and what the helper holds. *)
Exec(c, command, after, r) ==
  /\ \/ r = "reply" /\ db' = after
     \/ r = "error" /\ db' = db
     \/ r = "null" /\ db' \in {db, after}
  /\ failed' = IF r = "reply" THEN failed
               ELSE [failed EXCEPT ![c] = @ \cup {<<command, r>>}]

Replies == {"reply", "error", "null"}
HasError(r) == r # "reply"

(* Results are numbers or strings: a truth value is 1 or 0, a map or a list*)
(* of values its length.                                                   *)
Truth(b) == IF b THEN 1 ELSE 0

Gives(c, value) ==
  /\ result' = [result EXCEPT ![c] = <<value>>]
  /\ step' = [step EXCEPT ![c] = "done"]

Calls == {"read", "set", "add", "push", "pop", "cut", "hset", "hset limit",
          "hset short", "hdel"}

Make(c, k) == step[c] = "call" /\ redisCall' = [redisCall EXCEPT ![c] = k]
-----------------------------------------------------------------------------
(* get, get_range: an empty string for a missing key and for a failure. *)
ReadString(c) ==
  /\ Make(c, "read")
  /\ \E r \in Replies :
       /\ Exec(c, "get", db, r)
       /\ Gives(c, IF HasError(r) THEN Nothing ELSE db.string)
  /\ UNCHANGED gone

(* mget, exists: what is there of the keys. *)
ReadKeys(c) ==
  /\ Make(c, "read")
  /\ \E r \in Replies :
       /\ Exec(c, "mget", db, r)
       /\ Gives(c, Truth(~HasError(r) /\ db.string # Nothing))
  /\ UNCHANGED gone

(* hget, hexists: the field, or an empty string; and whether it is there.  *)
ReadField(c) ==
  /\ Make(c, "read")
  /\ \E r \in Replies, field \in RedisClients :
       /\ Exec(c, "hget", db, r)
       /\ Gives(c, IF HasError(r) \/ field \notin db.hash THEN Nothing ELSE field)
  /\ UNCHANGED gone

(* hmget, hgetall, hkeys, hvalues, hlen: the fields that are there. *)
ReadFields(c) ==
  /\ Make(c, "read")
  /\ \E r \in Replies, fields \in SUBSET RedisClients :
       /\ Exec(c, "hmget", db, r)
       /\ Gives(c, IF HasError(r) THEN 0 ELSE Cardinality(fields \cap db.hash))
  /\ UNCHANGED gone

(* lrange, lindex. *)
ReadList(c) ==
  /\ Make(c, "read")
  /\ \E r \in Replies, i, j \in 1 .. Len(db.list) :
       /\ Exec(c, "lrange", db, r)
       /\ Gives(c, IF HasError(r) THEN 0 ELSE Len(SubSeq(db.list, i, j)))
  /\ UNCHANGED gone

(* llen: -1 for a failure. *)
ReadLength(c) ==
  /\ Make(c, "read")
  /\ \E r \in Replies :
       /\ Exec(c, "llen", db, r)
       /\ Gives(c, IF HasError(r) THEN -1 ELSE Len(db.list))
  /\ UNCHANGED gone

(* set: whether the reply is an OK, which it is not for a set    *)
(* that must not create the key and finds none.  A string's own time limit *)
(* is left out.                                                            *)
Set(c) ==
  /\ Make(c, "set")
  /\ \E r \in Replies, create \in BOOLEAN :
       LET done == create \/ db.string # Nothing
       IN /\ Exec(c, "set", IF done THEN [db EXCEPT !.string = c] ELSE db, r)
          /\ Gives(c, Truth(~HasError(r) /\ done))
  /\ UNCHANGED gone

(* mset: all keys or none. *)
SetAll(c) ==
  /\ Make(c, "set")
  /\ \E r \in Replies :
       /\ Exec(c, "mset", [db EXCEPT !.string = c, !.number = 0], r)
       /\ Gives(c, Truth(~HasError(r)))
  /\ UNCHANGED gone

(* append, set_range: the string is another one after it. *)
SetPart(c) ==
  /\ Make(c, "set")
  /\ \E r \in Replies :
       /\ Exec(c, "append", [db EXCEPT !.string = c], r)
       /\ Gives(c, Truth(~HasError(r)))
  /\ UNCHANGED gone

(* getset: the old value; a failure gives an empty one. *)
GetSet(c) ==
  /\ Make(c, "set")
  /\ \E r \in Replies :
       /\ Exec(c, "getset", [db EXCEPT !.string = c], r)
       /\ Gives(c, IF HasError(r) THEN Nothing ELSE db.string)
  /\ UNCHANGED gone

(* incr, hincr, decr, hdecr: the new value, and -1 for a failure. *)
Add(c) ==
  /\ Make(c, "add")
  /\ \E r \in Replies, by \in {1, -1} :
       /\ Exec(c, "incrby", [db EXCEPT !.number = @ + by], r)
       /\ Gives(c, IF HasError(r) THEN -1 ELSE db.number + by)
  /\ UNCHANGED gone

(* Mutant: a command whose reply is lost is given again. *)
PushAgain(c) ==
  /\ Make(c, "push")
  /\ \E r \in Replies, i \in 1 .. Len(db.list) + 1 :
       LET longer == InsertAt(db.list, i, c)
       IN /\ Exec(c, "push", [db EXCEPT !.list =
                                IF r = "null" THEN Append(longer, c) ELSE longer], r)
          /\ Gives(c, IF HasError(r) THEN -1 ELSE Len(longer))
  /\ UNCHANGED gone

(* lpush, rpush, linsert: the new length, and -1 for a failure. *)
Push(c) ==
  /\ Make(c, "push")
  /\ \E r \in Replies, i \in 1 .. Len(db.list) + 1 :
       LET longer == InsertAt(db.list, i, c)
       IN /\ Exec(c, "push", [db EXCEPT !.list = longer], r)
          /\ Gives(c, IF HasError(r) THEN -1 ELSE Len(longer))
  /\ UNCHANGED gone

(* linsert beside an element that is not there: 0 for no list, or -1. *)
PushNowhere(c) ==
  /\ Make(c, "push")
  /\ \E r \in Replies :
       /\ Exec(c, "push", db, r)
       /\ Gives(c, IF HasError(r) \/ db.list # <<>> THEN -1 ELSE 0)
  /\ UNCHANGED gone

(* lpop, rpop: the element; an empty string for an empty list, a failure,  *)
(* and an element whose reply is lost.                                     *)
Pop(c) ==
  /\ Make(c, "pop")
  /\ \E r \in Replies :
       IF db.list = <<>>
       THEN Exec(c, "pop", db, r) /\ Gives(c, Nothing) /\ UNCHANGED gone
       ELSE \E i \in {1, Len(db.list)} :
              LET rest == RemoveAt(db.list, i)
              IN /\ Exec(c, "pop", [db EXCEPT !.list = rest], r)
                 /\ Gives(c, IF HasError(r) THEN Nothing ELSE db.list[i])
                 /\ gone' = IF HasError(r) /\ db'.list = rest
                            THEN gone \cup {db.list[i]} ELSE gone

(* lset: an index that is not there is an error. *)
Replace(c) ==
  /\ Make(c, "cut")
  /\ \E r \in Replies, i \in DOMAIN db.list :
       /\ Exec(c, "lset", [db EXCEPT !.list[i] = c], r)
       /\ Gives(c, Truth(~HasError(r)))
       /\ gone' = gone \cup (ToSet(db.list) \ ToSet(db'.list))

(* lrem, ltrim: whether it was done.  The elements that stay keep their    *)
(* order (which they are is left open).                                    *)
CutList(c) ==
  /\ Make(c, "cut")
  /\ \E r \in Replies, n \in 0 .. Len(db.list) :
       \E at \in [1 .. n -> DOMAIN db.list] :
         /\ \A i, j \in 1 .. n : i < j => at[i] < at[j]
         /\ Exec(c, "lrem", [db EXCEPT !.list = [i \in 1 .. n |-> db.list[at[i]]]], r)
         /\ Gives(c, Truth(~HasError(r)))
         /\ gone' = gone \cup (ToSet(db.list) \ ToSet(db'.list))
-----------------------------------------------------------------------------
Deleted == [db EXCEPT !.hash = {}, !.limited = FALSE]

(* hmset: all its fields or none, so one of them stands for all. *)
SetFields(c) ==
  /\ Make(c, "hset")
  /\ \E r \in Replies :
       /\ Exec(c, "hmset", [db EXCEPT !.hash = @ \cup {c}], r)
       /\ Gives(c, Truth(~HasError(r)))
  /\ UNCHANGED gone

(* hash_del: how many fields went; with the last goes the key. *)
DelFields(c) ==
  /\ Make(c, "hdel")
  /\ \E r \in Replies, fields \in SUBSET RedisClients \ {{}} :
       /\ Exec(c, "hdel", IF db.hash \subseteq fields THEN Deleted
                          ELSE [db EXCEPT !.hash = @ \ fields], r)
       /\ Gives(c, IF HasError(r) THEN 0 ELSE Cardinality(fields \cap db.hash))
  /\ UNCHANGED gone

(* del() of several keys: how many there were. *)
DelKeys(c) ==
  /\ Make(c, "hdel")
  /\ \E r \in Replies :
       /\ Exec(c, "del", Deleted, r)
       /\ Gives(c, Truth(~HasError(r) /\ db.hash # {}))
  /\ UNCHANGED gone

(* expire() and expire_at() of the application: whether the key was there. *)
ExpireAt(c) ==
  /\ Make(c, "hdel")
  /\ \E r \in Replies :
       /\ Exec(c, "expireat", [db EXCEPT !.limited = (db.hash # {})], r)
       /\ Gives(c, Truth(~HasError(r) /\ db.hash # {}))
  /\ UNCHANGED gone

(* hset() without a limit ends here. *)
HSet(c) ==
  /\ \E r \in Replies, k \in {"hset", "hset limit", "hset short"} :
       /\ Make(c, k)
       /\ Exec(c, "hset", [db EXCEPT !.hash = @ \cup {c}], r)
       /\ IF HasError(r) \/ k = "hset"
          THEN Gives(c, Truth(~HasError(r)))
          ELSE step' = [step EXCEPT ![c] = "expire"] /\ UNCHANGED result
  /\ UNCHANGED gone

(* Mutant: an EXPIRE that finds no key counts as done. *)
ExpireAnyway(c) ==
  /\ step[c] = "expire"
  /\ \E r \in Replies :
       /\ Exec(c, "expire", [db EXCEPT !.limited = db.hash # {}], r)
       /\ IF r # "null" THEN Gives(c, Truth(TRUE))
          ELSE step' = [step EXCEPT ![c] = "del"] /\ UNCHANGED result
  /\ UNCHANGED <<redisCall, gone>>

(* expire(): the limit is in whole seconds and a thousandth of the         *)
(* microseconds; 0 of them delete the key at once.  It has done it if the  *)
(* key was there.                                                          *)
ExpireKey(c) ==
  /\ step[c] = "expire"
  /\ \E r \in Replies :
       /\ Exec(c, "expire",
               IF redisCall[c] = "hset short" THEN Deleted
               ELSE [db EXCEPT !.limited = (db.hash # {})], r)
       /\ IF ~HasError(r) /\ db.hash # {}
          THEN Gives(c, Truth(TRUE))
          ELSE step' = [step EXCEPT ![c] = "del"] /\ UNCHANGED result
  /\ UNCHANGED <<redisCall, gone>>

(* del(): the whole key, whoever's fields are in it. *)
Del(c) ==
  /\ step[c] = "del"
  /\ \E r \in Replies :
       /\ Exec(c, "del", Deleted, r)
       /\ Gives(c, Truth(FALSE))
  /\ UNCHANGED <<redisCall, gone>>

(* exec() without a context returns no helper, and whoever called it       *)
(* dereferences that.  The constructor's connect() may have left none, and *)
(* so may the one that follows a lost reply, of which a call that goes on  *)
(* has seen at most EXPIRE's.                                              *)
Dies(c) ==
  /\ \/ step[c] = "call"
     \/ step[c] = "del" /\ <<"expire", "null">> \in failed[c]
  /\ step' = [step EXCEPT ![c] = "dead"]
  /\ UNCHANGED <<redisCall, result, failed, db, gone>>

(* The server's clock. *)
TimeIsUp ==
  /\ db.limited
  /\ db' = Deleted
  /\ UNCHANGED <<redisCall, step, result, failed, gone>>

Reads(c) ==
  ReadString(c) \/ ReadKeys(c) \/ ReadField(c) \/ ReadFields(c) \/ ReadList(c)
  \/ ReadLength(c)

Client(c) ==
  \/ Reads(c) \/ Set(c) \/ SetAll(c) \/ SetPart(c) \/ GetSet(c) \/ Add(c)
  \/ Push(c) \/ PushNowhere(c) \/ Pop(c) \/ Replace(c) \/ CutList(c)
  \/ SetFields(c) \/ DelFields(c) \/ DelKeys(c) \/ ExpireAt(c)
  \/ HSet(c) \/ ExpireKey(c) \/ Del(c) \/ Dies(c)

RedisNext == TimeIsUp \/ \E c \in RedisClients : Client(c)

RedisSpec == RedisInit /\ [][RedisNext]_redisVars
-----------------------------------------------------------------------------
RedisTypeOK ==
  /\ redisCall \in [RedisClients -> Calls \cup {"none"}]
  /\ step \in [RedisClients -> {"call", "expire", "del", "done", "dead"}]
  /\ \A c \in RedisClients : Len(result[c]) = (IF step[c] = "done" THEN 1 ELSE 0)
  /\ db.list \in Seq(RedisClients) /\ db.hash \subseteq RedisClients
  /\ db.number \in Int /\ db.limited \in BOOLEAN
  /\ gone \subseteq RedisClients

Returned(c, value) == result[c] = <<value>>

(* No element is duplicated: it is in the list once, or one pop returned   *)
(* it, or it was removed and its reply lost.  One whose push returned a    *)
(* length is in one of these places; after 0 it is in none, and after -1 it*)
(* may be in none or in one.                                               *)
Conserved ==
  \A p \in RedisClients : redisCall[p] = "push" =>
    LET inHand == {c \in RedisClients : redisCall[c] = "pop" /\ Returned(c, p)}
        places == Cardinality({i \in DOMAIN db.list : db.list[i] = p})
                  + Cardinality(inHand) + (IF p \in gone THEN 1 ELSE 0)
    IN /\ places <= 1
       /\ (\E n \in 1 .. Cardinality(RedisClients) : Returned(p, n)) => places = 1
       /\ Returned(p, 0) => places = 0

(* A field that was set with a time limit does not stay without one, or its*)
(* caller has been told FALSE: the reply to HSET was lost, or EXPIRE and   *)
(* then DEL failed.  That holds with other clients' hset() in between.  A  *)
(* caller whose process ended between EXPIRE and DEL was told nothing.     *)
LimitHonoured ==
  \A c \in RedisClients :
    redisCall[c] = "hset limit" /\ step[c] = "done" /\ c \in db.hash /\ ~db.limited
      => /\ Returned(c, Truth(FALSE))
         /\ \/ <<"hset", "null">> \in failed[c]
            \/ \E r \in Replies : <<"del", r>> \in failed[c]
=============================================================================

------------------------------ MODULE Database ------------------------------
(***************************************************************************)
(* DCMysql (presistence/MyDatabase.cc): one connection to a MySQL server,  *)
(* used by one thread, which runs statements one after the other.  A       *)
(* statement is written out first, escaping its strings on a connection    *)
(* made when there is none; when the server's connection turns out to be   *)
(* lost (errors 2006 and 2013) the client connects again and runs the      *)
(* statement once more.                                                    *)
(*                                                                         *)
(* The client library is modelled from its use: a query is answered, is    *)
(* refused, finds no connection (2006: it was not run), or loses the       *)
(* connection before the answer (2013: it was run or not).  How a          *)
(* statement is spelled is left out.                                       *)
(***************************************************************************)
EXTENDS Naturals, FiniteSets

CONSTANTS Statements, NoStatement

MysqlConstants == NoStatement \notin Statements

Kinds == {"write", "number", "read"}

VARIABLES
  kind,       \* execute() with strings, with none, or queryRecord()
  connected,  \* _bConnected
  dbStep,     \* where the call in progress is
  stmt,       \* its statement
  lost,       \* statements whose answer was lost, 2013
  applied,    \* how often the server has run a statement
  dbResult    \* how a statement's call ended

dbVars == <<kind, connected, dbStep, stmt, lost, applied, dbResult>>

MysqlInit ==
  /\ kind = [s \in Statements |-> "none"]
  /\ connected = FALSE
  /\ dbStep = "idle" /\ stmt = NoStatement
  /\ lost = {}
  /\ applied = [s \in Statements |-> 0]
  /\ dbResult = [s \in Statements |-> "none"]

CallEnds(r) ==
  /\ dbResult' = [dbResult EXCEPT ![stmt] = r]
  /\ dbStep' = "idle" /\ stmt' = NoStatement

Go(s) == dbStep' = s /\ UNCHANGED <<stmt, dbResult>>

(* The application's calls; getRecordCount and its like are queryRecord(). *)
Call(s) ==
  /\ dbStep = "idle" /\ kind[s] = "none"
  /\ \E k \in Kinds :
       /\ kind' = [kind EXCEPT ![s] = k]
       /\ dbStep' = IF k = "write" THEN "build" ELSE "execute"
  /\ stmt' = s
  /\ UNCHANGED <<connected, lost, applied, dbResult>>

Disconnect ==
  /\ dbStep = "idle" /\ connected
  /\ connected' = FALSE
  /\ UNCHANGED <<kind, dbStep, stmt, lost, applied, dbResult>>

(* connect() closes what there is first; a failure throws. *)
Connect(next) ==
  \/ connected' = TRUE /\ Go(next)
  \/ connected' = FALSE /\ CallEnds("thrown")

(* buildInsertSQL and its like: escapeString() of each string. *)
Build ==
  /\ dbStep = "build"
  /\ IF connected THEN Go("execute") /\ UNCHANGED connected ELSE Connect("execute")
  /\ UNCHANGED <<kind, lost, applied>>

(* execute() and queryRecord() connect when there is no connection. *)
ConnectFirst ==
  /\ dbStep = "execute" /\ ~connected
  /\ Connect("execute")
  /\ UNCHANGED <<kind, lost, applied>>

Applied == applied' = [applied EXCEPT ![stmt] = @ + 1]

Answered(next) ==
  /\ Applied /\ Go(next) /\ UNCHANGED lost

Refused ==
  /\ CallEnds("thrown") /\ UNCHANGED <<lost, applied>>

(* 2006. *)
NoConnection(next) == Go(next) /\ UNCHANGED <<lost, applied>>

(* 2013. *)
ConnectionLost(next) ==
  /\ lost' = lost \cup {stmt}
  /\ Applied \/ UNCHANGED applied
  /\ Go(next)

(* Mutant: an error of the first try is taken for a lost connection. *)
FirstTryAlwaysRetries ==
  /\ dbStep = "execute" /\ connected
  /\ \/ Answered("results")
     \/ Applied /\ Go("again") /\ UNCHANGED lost
     \/ NoConnection("again") \/ ConnectionLost("again")
  /\ UNCHANGED <<kind, connected>>

FirstTry ==
  /\ dbStep = "execute" /\ connected
  /\ \/ Answered("results") \/ Refused
     \/ NoConnection("again") \/ ConnectionLost("again")
  /\ UNCHANGED <<kind, connected>>

ConnectAgain ==
  /\ dbStep = "again"
  /\ Connect("second")
  /\ UNCHANGED <<kind, lost, applied>>

(* Whatever goes wrong with the second try is thrown. *)
SecondTry ==
  /\ dbStep = "second"
  /\ \/ Answered("results") \/ Refused
     \/ NoConnection("failed") \/ ConnectionLost("failed")
  /\ UNCHANGED <<kind, connected>>

Throw ==
  /\ dbStep = "failed"
  /\ CallEnds("thrown")
  /\ UNCHANGED <<kind, connected, lost, applied>>

(* mysql_affected_rows(), or mysql_store_result(), which throws when it has*)
(* nothing, as for a statement without a result set.                       *)
Results ==
  /\ dbStep = "results"
  /\ IF kind[stmt] = "read"
     THEN CallEnds("rows") \/ CallEnds("thrown")
     ELSE CallEnds("affected")
  /\ UNCHANGED <<kind, connected, lost, applied>>

MysqlNext ==
  \/ \E s \in Statements : Call(s)
  \/ Disconnect \/ Build \/ ConnectFirst \/ FirstTry \/ ConnectAgain
  \/ SecondTry \/ Throw \/ Results

MysqlSpec == MysqlInit /\ [][MysqlNext]_dbVars
-----------------------------------------------------------------------------
MysqlTypeOK ==
  /\ kind \in [Statements -> Kinds \cup {"none"}]
  /\ connected \in BOOLEAN
  /\ dbStep \in {"idle", "build", "execute", "again", "second", "failed", "results"}
  /\ stmt \in Statements \cup {NoStatement}
  /\ (stmt = NoStatement) <=> (dbStep = "idle")
  /\ lost \subseteq Statements
  /\ applied \in [Statements -> 0 .. 2]
  /\ dbResult \in [Statements -> {"none", "thrown", "affected", "rows"}]

Finished(s) == dbResult[s] \notin {"none", "thrown"}

(* What a caller may conclude: a statement that did not throw was run; one *)
(* that threw was not, unless an answer was lost or it was given to        *)
(* queryRecord(); and only after a lost answer is a statement run twice.   *)
Reported ==
  \A s \in Statements :
    /\ Finished(s) => applied[s] >= 1
    /\ dbResult[s] = "thrown" /\ s \notin lost /\ kind[s] # "read" => applied[s] = 0
    /\ applied[s] = 2 => s \in lost

=============================================================================

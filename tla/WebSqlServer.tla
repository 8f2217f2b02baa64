---------------------------- MODULE WebSqlServer ----------------------------
(***************************************************************************)
(* The transaction server of websql/websql.go and websql/handler.go: the   *)
(* two maps of open databases and transactions behind one mutex, the       *)
(* goroutine that serves each websocket (transactionHandler), the          *)
(* five-minute timers, and the HTTP requests that open and close           *)
(* databases.                                                              *)
(*                                                                         *)
(* Critical sections that cannot wait inside are one step, guarded by the  *)
(* mutex being free.  Only closeConnectionsLocked keeps the mutex while it *)
(* waits, so the mutex is a variable that names the request that holds it. *)
(*                                                                         *)
(* database/sql and SQLite are external: a sql.Tx is a state in txState,   *)
(* Commit and Rollback take effect only on an open one, Rollback waits for *)
(* the query in flight on it, and compiling a statement that inserts calls *)
(* the authorizer the server registered.                                   *)
(***************************************************************************)
EXTENDS Naturals, FiniteSets

CONSTANTS
  Conns,     (* the websocket connections on /websql/transaction           *)
  Requests,  (* the HTTP requests that open and close databases            *)
  Closers,   (* those that may ask for closeAll or removeAllWebSQLDB       *)
  Statements,(* the statement commands that pages send                     *)
  MaxId,     (* bound on the ids handed out (2^32 - 1 in the code)         *)
  NoOne      (* nobody holds the mutex                                     *)

ASSUME ServerAssumption ==
  /\ MaxId \in Nat
  /\ NoOne \notin Requests
  /\ Closers \subseteq Requests
  /\ Statements \subseteq {"exec", "insert", "changeVersion"}

VARIABLES
  nextId,        (* the last id handed out, to a database or a transaction *)
  lock,          (* the request inside closeConnectionsLocked, or NoOne    *)
  databases,     (* the ids in the map of databases                        *)
  closed,        (* the databases whose sql.DB has been closed             *)
  transactions,  (* the ids in the map of transactions                     *)
  txState,       (* what has become of each sql.Tx                         *)
  querying,      (* the transactions with a query in flight                *)
  timer,         (* the timer of each transaction                          *)
  pc, cmd,       (* where each handler is, and in which command            *)
  txId,          (* the handler's variable txId; 0 is none                 *)
  connDb,        (* the dbId in the connection's query string              *)
  reply,         (* the answer the client has still to read                *)
  rpc, rid,      (* where each HTTP request is, and about which id         *)
  acked          (* history: the transactions whose commit was answered ok *)

handlerVars == <<pc, cmd, txId, connDb, reply>>
requestVars == <<rpc, rid>>
serverVars == <<nextId, lock, databases, closed, transactions, txState,
                querying, timer, pc, cmd, txId, connDb, reply, rpc, rid, acked>>

Ids == 1..MaxId

TxStates == {"none", "open", "committing", "rollingback", "committed",
             "rolledback"}
TimerStates == {"off", "armed", "rollback", "waiting", "over"}
Commands == {"begin", "commit", "abort"} \cup Statements
Internal == {"none", "gone", "setVersion"}
HandlerStates == {"off", "reading", "take", "finish", "committing", "lookupDb",
                  "beginTx", "register", "lookupTx", "getConn", "query",
                  "prepare", "rows", "collect", "ended", "orphan"}
RequestStates == {"idle", "insertDb", "closeDb", "closeAll", "waiting"}

\* Statements whose compilation asks the authorizer about SQLITE_INSERT.
Inserting == {"insert", "setVersion"}

Init ==
  /\ nextId = 0
  /\ lock = NoOne
  /\ databases = {}
  /\ closed = {}
  /\ transactions = {}
  /\ txState = [i \in Ids |-> "none"]
  /\ querying = {}
  /\ timer = [i \in Ids |-> "off"]
  /\ pc = [c \in Conns |-> "off"]
  /\ cmd = [c \in Conns |-> "none"]
  /\ txId = [c \in Conns |-> 0]
  /\ connDb = [c \in Conns |-> 0]
  /\ reply = [c \in Conns |-> "none"]
  /\ rpc = [r \in Requests |-> "idle"]
  /\ rid = [r \in Requests |-> 0]
  /\ acked = {}

Goto(c, l) == pc' = [pc EXCEPT ![c] = l]

\* WriteJSON, and back to ReadJSON.
Answer(c, a) ==
  /\ reply' = [reply EXCEPT ![c] = a]
  /\ Goto(c, "reading")

Forget(c) == txId' = [txId EXCEPT ![c] = 0]

\* The database ids that have been returned to a page.
KnownDbs ==
  {d \in 1..nextId : /\ txState[d] = "none"
                     /\ \A r \in Requests : ~(rpc[r] = "insertDb" /\ rid[r] = d)}

-----------------------------------------------------------------------------
(* transactionHandler: connection and dispatch                             *)

\* The page connects with the id of a database it was given by open.
Connect(c) ==
  /\ pc[c] = "off"
  /\ \E d \in KnownDbs : connDb' = [connDb EXCEPT ![c] = d]
  /\ Goto(c, "reading")
  /\ UNCHANGED <<nextId, lock, databases, closed, transactions, txState,
                 querying, timer, cmd, txId, reply, requestVars, acked>>

\* ReadJSON returns command m.  WsConn.sendMessage awaits an answer before
\* the page sends again, so the previous answer has been read.  Without a
\* transaction a command is refused, and so is an exec of an empty statement.
Receive(c, m) ==
  /\ pc[c] = "reading"
  /\ reply[c] = "none"
  /\ cmd' = [cmd EXCEPT ![c] = m]
  /\ \/ /\ m = "begin"
        /\ Goto(c, IF txId[c] # 0 THEN "take" ELSE "lookupDb")
        /\ UNCHANGED reply
     \/ /\ m # "begin"
        /\ txId[c] = 0 \/ m = "exec"
        /\ Answer(c, "error")
     \/ /\ m \in Statements
        /\ txId[c] # 0
        /\ Goto(c, "lookupTx")
        /\ UNCHANGED reply
     \/ /\ m \in {"commit", "abort"}
        /\ txId[c] # 0
        /\ Goto(c, "take")
        /\ UNCHANGED reply
  /\ UNCHANGED <<nextId, lock, databases, closed, transactions, txState,
                 querying, timer, txId, connDb, requestVars, acked>>

\* Slip: the handler returns without aborting its transaction.
DisconnectNoAbort(c) ==
  /\ pc[c] = "reading"
  /\ cmd' = [cmd EXCEPT ![c] = "gone"]
  /\ Goto(c, "ended")
  /\ UNCHANGED <<nextId, lock, databases, closed, transactions, txState,
                 querying, timer, txId, connDb, reply, requestVars, acked>>

\* ReadJSON fails: the websocket was closed or cut.
Disconnect(c) ==
  /\ pc[c] = "reading"
  /\ cmd' = [cmd EXCEPT ![c] = "gone"]
  /\ Goto(c, IF txId[c] # 0 THEN "take" ELSE "ended")
  /\ UNCHANGED <<nextId, lock, databases, closed, transactions, txState,
                 querying, timer, txId, connDb, reply, requestVars, acked>>

\* The page reads the answer.
ReadReply(c) ==
  /\ reply[c] # "none"
  /\ reply' = [reply EXCEPT ![c] = "none"]
  /\ UNCHANGED <<nextId, lock, databases, closed, transactions, txState,
                 querying, timer, pc, cmd, txId, connDb, requestVars, acked>>

-----------------------------------------------------------------------------
(* BeginTransaction                                                        *)

\* databases[dbId] under the mutex.  On an error the handler answers and
\* returns, and leaves the hijacked connection open behind it.
LookupDb(c) ==
  /\ pc[c] = "lookupDb"
  /\ lock = NoOne
  /\ IF connDb[c] \in databases
     THEN Goto(c, "beginTx") /\ UNCHANGED reply
     ELSE Goto(c, "orphan") /\ reply' = [reply EXCEPT ![c] = "error"]
  /\ UNCHANGED <<nextId, lock, databases, closed, transactions, txState,
                 querying, timer, cmd, txId, connDb, requestVars, acked>>

\* Slip: the id is read before the increment, as "nextId++" would.
BeginTxOldId(c) ==
  /\ pc[c] = "beginTx"
  /\ connDb[c] \notin closed
  /\ nextId < MaxId
  /\ nextId' = nextId + 1
  /\ txState' = [txState EXCEPT ![nextId] = "open"]
  /\ txId' = [txId EXCEPT ![c] = nextId]
  /\ Goto(c, "register")
  /\ UNCHANGED <<lock, databases, closed, transactions, querying, timer, cmd,
                 connDb, reply, requestVars, acked>>

\* db.Begin, RegisterAuthorizer and the atomic increment of nextId.  Begin
\* fails on a closed sql.DB, and may fail on an I/O error.
BeginTx(c) ==
  /\ pc[c] = "beginTx"
  /\ \/ /\ connDb[c] \notin closed
        /\ nextId < MaxId
        /\ nextId' = nextId + 1
        /\ txState' = [txState EXCEPT ![nextId + 1] = "open"]
        /\ txId' = [txId EXCEPT ![c] = nextId + 1]
        /\ Goto(c, "register")
        /\ UNCHANGED reply
     \/ /\ reply' = [reply EXCEPT ![c] = "error"]
        /\ Goto(c, "orphan")
        /\ UNCHANGED <<nextId, txState, txId>>
  /\ UNCHANGED <<lock, databases, closed, transactions, querying, timer, cmd,
                 connDb, requestVars, acked>>

\* Slip: the timer is not started.
RegisterNoTimer(c) ==
  /\ pc[c] = "register"
  /\ lock = NoOne
  /\ transactions' = transactions \cup {txId[c]}
  /\ Answer(c, "ok")
  /\ UNCHANGED <<nextId, lock, databases, closed, txState, querying, timer, cmd,
                 txId, connDb, requestVars, acked>>

\* transactions[txId] = ... under the mutex, and the timer is started.
Register(c) ==
  /\ pc[c] = "register"
  /\ lock = NoOne
  /\ transactions' = transactions \cup {txId[c]}
  /\ timer' = [timer EXCEPT ![txId[c]] = "armed"]
  /\ Answer(c, "ok")
  /\ UNCHANGED <<nextId, lock, databases, closed, txState, querying, cmd, txId,
                 connDb, requestVars, acked>>

-----------------------------------------------------------------------------
(* Exec and ChangeDbVersion                                                *)

\* Slip: a transaction that is gone is not answered.
LookupTxSilent(c) ==
  /\ pc[c] = "lookupTx"
  /\ lock = NoOne
  /\ Goto(c, IF txId[c] \in transactions THEN "query" ELSE "reading")
  /\ UNCHANGED <<nextId, lock, databases, closed, transactions, txState,
                 querying, timer, cmd, txId, connDb, reply, requestVars, acked>>

\* transactions[txId] under the mutex.
LookupTx(c) ==
  /\ pc[c] = "lookupTx"
  /\ lock = NoOne
  /\ IF txId[c] \in transactions
     THEN /\ Goto(c, IF cmd[c] = "changeVersion" THEN "query" ELSE "getConn")
          /\ UNCHANGED reply
     ELSE Answer(c, "error")
  /\ UNCHANGED <<nextId, lock, databases, closed, transactions, txState,
                 querying, timer, cmd, txId, connDb, requestVars, acked>>

\* Exec: getConn follows the tx.dc pointer by reflection.  database/sql has
\* cleared it once the Tx is over: the handler panics, net/http recovers,
\* and the hijacked connection stays open.
GetConn(c) ==
  /\ pc[c] = "getConn"
  /\ Goto(c, IF txState[txId[c]] \in {"committed", "rolledback"}
             THEN "orphan" ELSE "query")
  /\ UNCHANGED <<nextId, lock, databases, closed, transactions, txState,
                 querying, timer, cmd, txId, connDb, reply, requestVars, acked>>

\* tx.Query or tx.Exec: ErrTxDone, or the query holds the Tx until it ends.
StartQuery(c) ==
  /\ pc[c] = "query"
  /\ IF txState[txId[c]] = "open"
     THEN /\ querying' = querying \cup {txId[c]}
          /\ Goto(c, "prepare")
          /\ UNCHANGED reply
     ELSE Answer(c, "error") /\ UNCHANGED querying
  /\ UNCHANGED <<nextId, lock, databases, closed, transactions, txState, timer,
                 cmd, txId, connDb, requestVars, acked>>

\* Slip: the authorizer takes the mutex for every action, not for INSERT only.
PrepareLocked(c) ==
  /\ pc[c] = "prepare"
  /\ lock = NoOne
  /\ Goto(c, "rows")
  /\ UNCHANGED <<nextId, lock, databases, closed, transactions, txState,
                 querying, timer, cmd, txId, connDb, reply, requestVars, acked>>

\* SQLite compiles the statement; the authorizer takes the mutex to note an
\* INSERT.
Prepare(c) ==
  /\ pc[c] = "prepare"
  /\ cmd[c] \in Inserting => lock = NoOne
  /\ Goto(c, "rows")
  /\ UNCHANGED <<nextId, lock, databases, closed, transactions, txState,
                 querying, timer, cmd, txId, connDb, reply, requestVars, acked>>

\* Slip: changeVersion answers for its SELECT and again for its REPLACE.
EndQueryTwice(c) ==
  /\ pc[c] = "rows"
  /\ querying' = querying \ {txId[c]}
  /\ cmd' = [cmd EXCEPT ![c] = IF @ = "changeVersion" THEN "setVersion" ELSE @]
  /\ reply' = [reply EXCEPT ![c] = "ok"]
  /\ Goto(c, IF cmd[c] = "changeVersion" THEN "query" ELSE "reading")
  /\ UNCHANGED <<nextId, lock, databases, closed, transactions, txState, timer,
                 txId, connDb, requestVars, acked>>

\* The rows are read to the end and closed.  The statement may fail; and a
\* changeVersion goes on to its REPLACE only if the version matched.
EndQuery(c) ==
  /\ pc[c] = "rows"
  /\ querying' = querying \ {txId[c]}
  /\ \/ Answer(c, "error") /\ UNCHANGED cmd
     \/ /\ cmd[c] \in {"exec", "insert"}
        /\ Goto(c, "collect")
        /\ UNCHANGED <<cmd, reply>>
     \/ /\ cmd[c] = "changeVersion"
        /\ cmd' = [cmd EXCEPT ![c] = "setVersion"]
        /\ Goto(c, "query")
        /\ UNCHANGED reply
     \/ /\ cmd[c] = "setVersion"
        /\ Answer(c, "ok")
        /\ UNCHANGED cmd
  /\ UNCHANGED <<nextId, lock, databases, closed, transactions, txState, timer,
                 txId, connDb, requestVars, acked>>

\* Exec reads isLastActionInsert under the mutex and returns.
Collect(c) ==
  /\ pc[c] = "collect"
  /\ lock = NoOne
  /\ Answer(c, "ok")
  /\ UNCHANGED <<nextId, lock, databases, closed, transactions, txState,
                 querying, timer, cmd, txId, connDb, requestVars, acked>>

-----------------------------------------------------------------------------
(* Commit and Abort                                                        *)

\* Slip: the transaction stays in the map while it is being finished.
TakeTxKeep(c) ==
  /\ pc[c] = "take"
  /\ lock = NoOne
  /\ txId[c] \in transactions
  /\ Goto(c, "finish")
  /\ UNCHANGED <<nextId, lock, databases, closed, transactions, txState,
                 querying, timer, cmd, txId, connDb, reply, requestVars, acked>>

\* Both start by taking the transaction out of the map: whoever takes it is
\* the only one to finish it.  An Abort that begin or the end of the
\* connection called drops its error.
TakeTx(c) ==
  /\ pc[c] = "take"
  /\ lock = NoOne
  /\ transactions' = transactions \ {txId[c]}
  /\ IF txId[c] \in transactions
     THEN Goto(c, "finish") /\ UNCHANGED <<txId, reply>>
     ELSE \/ /\ cmd[c] \in {"commit", "abort"}
             /\ Answer(c, "error")
             /\ Forget(c)
          \/ /\ cmd[c] = "begin"
             /\ Goto(c, "lookupDb")
             /\ Forget(c)
             /\ UNCHANGED reply
          \/ /\ cmd[c] = "gone"
             /\ Goto(c, "ended")
             /\ UNCHANGED <<txId, reply>>
  /\ UNCHANGED <<nextId, lock, databases, closed, txState, querying, timer,
                 cmd, connDb, requestVars, acked>>

\* tx.Commit: on a Tx that is over it is ErrTxDone, and so is the Rollback
\* that Commit tries next.
StartCommit(c) ==
  /\ pc[c] = "finish"
  /\ cmd[c] = "commit"
  /\ IF txState[txId[c]] = "open"
     THEN /\ txState' = [txState EXCEPT ![txId[c]] = "committing"]
          /\ Goto(c, "committing")
          /\ UNCHANGED <<txId, reply>>
     ELSE /\ Answer(c, "error")
          /\ Forget(c)
          /\ UNCHANGED txState
  /\ UNCHANGED <<nextId, lock, databases, closed, transactions, querying,
                 timer, cmd, connDb, requestVars, acked>>

\* Slip: the error of tx.Commit is not looked at.
EndCommitUnchecked(c) ==
  /\ pc[c] = "committing"
  /\ \E ok \in BOOLEAN :
       txState' = [txState EXCEPT ![txId[c]] = IF ok THEN "committed"
                                               ELSE "rolledback"]
  /\ acked' = acked \cup {txId[c]}
  /\ Answer(c, "ok")
  /\ Forget(c)
  /\ UNCHANGED <<nextId, lock, databases, closed, transactions, querying,
                 timer, cmd, connDb, requestVars>>

\* SQLite's COMMIT succeeds, or fails (busy, full, I/O) and is rolled back.
EndCommit(c) ==
  /\ pc[c] = "committing"
  /\ \E ok \in BOOLEAN :
       /\ txState' = [txState EXCEPT ![txId[c]] = IF ok THEN "committed"
                                                  ELSE "rolledback"]
       /\ acked' = IF ok THEN acked \cup {txId[c]} ELSE acked
       /\ Answer(c, IF ok THEN "ok" ELSE "error")
  /\ Forget(c)
  /\ UNCHANGED <<nextId, lock, databases, closed, transactions, querying,
                 timer, cmd, connDb, requestVars>>

\* tx.Rollback, called for abort, for begin and for the end of a connection.
FinishAbort(c) ==
  /\ pc[c] = "finish"
  /\ cmd[c] # "commit"
  /\ txState' = [txState EXCEPT ![txId[c]] = IF @ = "open" THEN "rolledback"
                                             ELSE @]
  /\ \/ /\ cmd[c] = "abort"
        /\ \/ Answer(c, "error")
           \/ txState[txId[c]] = "open" /\ Answer(c, "ok")
        /\ Forget(c)
     \/ /\ cmd[c] = "begin"
        /\ Goto(c, "lookupDb")
        /\ Forget(c)
        /\ UNCHANGED reply
     \/ /\ cmd[c] = "gone"
        /\ Goto(c, "ended")
        /\ UNCHANGED <<txId, reply>>
  /\ UNCHANGED <<nextId, lock, databases, closed, transactions, querying,
                 timer, cmd, connDb, requestVars, acked>>

-----------------------------------------------------------------------------
(* The timer of BeginTransaction                                           *)

\* Slip: the transaction is dropped from the map and not rolled back.
FireDrops(i) ==
  /\ timer[i] = "armed"
  /\ lock = NoOne
  /\ transactions' = transactions \ {i}
  /\ timer' = [timer EXCEPT ![i] = "over"]
  /\ UNCHANGED <<nextId, lock, databases, closed, txState, querying,
                 handlerVars, requestVars, acked>>

\* After five minutes: take the transaction out of the map, under the mutex.
\* The timer is never stopped, so it also fires for a finished transaction.
Fire(i) ==
  /\ timer[i] = "armed"
  /\ lock = NoOne
  /\ transactions' = transactions \ {i}
  /\ timer' = [timer EXCEPT ![i] = IF i \in transactions THEN "rollback"
                                   ELSE "over"]
  /\ UNCHANGED <<nextId, lock, databases, closed, txState, querying,
                 handlerVars, requestVars, acked>>

\* tx.Rollback marks the Tx done, then waits for the query in flight on it.
TimerRollback(i) ==
  /\ timer[i] = "rollback"
  /\ IF txState[i] = "open"
     THEN /\ txState' = [txState EXCEPT ![i] = "rollingback"]
          /\ timer' = [timer EXCEPT ![i] = "waiting"]
     ELSE /\ timer' = [timer EXCEPT ![i] = "over"]
          /\ UNCHANGED txState
  /\ UNCHANGED <<nextId, lock, databases, closed, transactions, querying,
                 handlerVars, requestVars, acked>>

TimerRolledBack(i) ==
  /\ timer[i] = "waiting"
  /\ i \notin querying
  /\ txState' = [txState EXCEPT ![i] = "rolledback"]
  /\ timer' = [timer EXCEPT ![i] = "over"]
  /\ UNCHANGED <<nextId, lock, databases, closed, transactions, querying,
                 handlerVars, requestVars, acked>>

-----------------------------------------------------------------------------
(* Open, Close, CloseAllConnections                                        *)

\* Open once the database file is ready: the id is handed out, then the
\* database is put in the map.
Open(r) ==
  /\ rpc[r] = "idle"
  /\ nextId < MaxId
  /\ nextId' = nextId + 1
  /\ rpc' = [rpc EXCEPT ![r] = "insertDb"]
  /\ rid' = [rid EXCEPT ![r] = nextId + 1]
  /\ UNCHANGED <<lock, databases, closed, transactions, txState, querying,
                 timer, handlerVars, acked>>

InsertDb(r) ==
  /\ rpc[r] = "insertDb"
  /\ lock = NoOne
  /\ databases' = databases \cup {rid[r]}
  /\ rpc' = [rpc EXCEPT ![r] = "idle"]
  /\ UNCHANGED <<nextId, lock, closed, transactions, txState, querying, timer,
                 handlerVars, rid, acked>>

\* Close takes the database out of the map, then closes its sql.DB.  The
\* transactions begun on it go on.  For an id not in the map it does nothing.
Close(r) ==
  /\ rpc[r] = "idle"
  /\ lock = NoOne
  /\ \E d \in databases :
       /\ databases' = databases \ {d}
       /\ rid' = [rid EXCEPT ![r] = d]
  /\ rpc' = [rpc EXCEPT ![r] = "closeDb"]
  /\ UNCHANGED <<nextId, lock, closed, transactions, txState, querying, timer,
                 handlerVars, acked>>

CloseDb(r) ==
  /\ rpc[r] = "closeDb"
  /\ closed' = closed \cup {rid[r]}
  /\ rpc' = [rpc EXCEPT ![r] = "idle"]
  /\ UNCHANGED <<nextId, lock, databases, transactions, txState, querying,
                 timer, handlerVars, rid, acked>>

\* CloseAllConnections and DeleteAllDatabases hold the mutex throughout
\* closeConnectionsLocked.
CloseAll(r) ==
  /\ r \in Closers
  /\ rpc[r] = "idle"
  /\ lock = NoOne
  /\ lock' = r
  /\ rpc' = [rpc EXCEPT ![r] = "closeAll"]
  /\ UNCHANGED <<nextId, databases, closed, transactions, txState, querying,
                 timer, handlerVars, rid, acked>>

\* The loop over the map of transactions: tx.Rollback on each, in any order.
RollbackNext(r) ==
  /\ rpc[r] = "closeAll"
  /\ \E i \in transactions :
       /\ txState[i] = "open"
       /\ txState' = [txState EXCEPT ![i] = "rollingback"]
       /\ rid' = [rid EXCEPT ![r] = i]
  /\ rpc' = [rpc EXCEPT ![r] = "waiting"]
  /\ UNCHANGED <<nextId, lock, databases, closed, transactions, querying,
                 timer, handlerVars, acked>>

RolledBack(r) ==
  /\ rpc[r] = "waiting"
  /\ rid[r] \notin querying
  /\ txState' = [txState EXCEPT ![rid[r]] = "rolledback"]
  /\ rpc' = [rpc EXCEPT ![r] = "closeAll"]
  /\ UNCHANGED <<nextId, lock, databases, closed, transactions, querying,
                 timer, handlerVars, rid, acked>>

\* Both maps are emptied, every sql.DB closed, and the mutex released.
CloseAllEnd(r) ==
  /\ rpc[r] = "closeAll"
  /\ \A i \in transactions : txState[i] # "open"
  /\ transactions' = {}
  /\ closed' = closed \cup databases
  /\ databases' = {}
  /\ lock' = NoOne
  /\ rpc' = [rpc EXCEPT ![r] = "idle"]
  /\ UNCHANGED <<nextId, txState, querying, timer, handlerVars, rid, acked>>

-----------------------------------------------------------------------------
\* What a handler does by itself once it has a command.
HandlerStep(c) ==
  \/ LookupDb(c) \/ BeginTx(c) \/ Register(c)
  \/ LookupTx(c) \/ GetConn(c) \/ StartQuery(c) \/ Prepare(c) \/ EndQuery(c)
  \/ Collect(c) \/ TakeTx(c) \/ StartCommit(c) \/ EndCommit(c)
  \/ FinishAbort(c)

ConnNext(c) ==
  \/ Connect(c) \/ Disconnect(c) \/ ReadReply(c)
  \/ \E m \in Commands : Receive(c, m)
  \/ HandlerStep(c)

TimerNext(i) == Fire(i) \/ TimerRollback(i) \/ TimerRolledBack(i)

\* What a request does by itself once it has started.
RequestStep(r) ==
  InsertDb(r) \/ CloseDb(r) \/ RollbackNext(r) \/ RolledBack(r) \/ CloseAllEnd(r)

RequestNext(r) == Open(r) \/ Close(r) \/ CloseAll(r) \/ RequestStep(r)

Next ==
  \/ \E c \in Conns : ConnNext(c)
  \/ \E i \in Ids : TimerNext(i)
  \/ \E r \in Requests : RequestNext(r)

Spec == Init /\ [][Next]_serverVars

(***************************************************************************)
(* A goroutine that has work does it, and a timer that is due fires.  The  *)
(* mutex is taken off and on by others, and Go's mutex hands over to a     *)
(* waiter that has waited 1ms: SF.  Commands, connections, departures and  *)
(* new HTTP requests come from the outside: no fairness.                   *)
(***************************************************************************)
Fairness ==
  /\ \A c \in Conns : SF_serverVars(HandlerStep(c))
  /\ \A i \in Ids : SF_serverVars(TimerNext(i))
  /\ \A r \in Requests : SF_serverVars(RequestStep(r))

FairSpec == Spec /\ Fairness

-----------------------------------------------------------------------------
\* Nothing more happens to a sql.Tx in one of these states.
Finished == {"committed", "rolledback"}

\* Who is about to finish transaction i, having taken it out of the map.
HandlerFinishes(c, i) == pc[c] \in {"finish", "committing"} /\ txId[c] = i
TimerFinishes(i) == timer[i] \in {"rollback", "waiting"}
RequestFinishes(r, i) == rpc[r] = "waiting" /\ rid[r] = i

\* The types of the variables; databases and transactions draw their ids from
\* one counter, and an id never names both (websql.go:195 and 277).
TypeOK ==
  /\ nextId \in 0..MaxId
  /\ lock \in Requests \cup {NoOne}
  /\ databases \subseteq Ids
  /\ closed \subseteq Ids
  /\ transactions \subseteq Ids
  /\ txState \in [Ids -> TxStates]
  /\ querying \subseteq Ids
  /\ timer \in [Ids -> TimerStates]
  /\ pc \in [Conns -> HandlerStates]
  /\ cmd \in [Conns -> Commands \cup Internal]
  /\ txId \in [Conns -> Ids \cup {0}]
  /\ connDb \in [Conns -> Ids \cup {0}]
  /\ reply \in [Conns -> {"none", "ok", "error"}]
  /\ rpc \in [Requests -> RequestStates]
  /\ rid \in [Requests -> Ids \cup {0}]
  /\ acked \subseteq Ids
  /\ \A i \in databases \cup closed : txState[i] = "none"

(***************************************************************************)
(* No sql.Tx is leaked: an open one is in the map, where a timer will find *)
(* it, or with the handler that just began it, or with the one goroutine   *)
(* that took it out of the map to finish it.                               *)
(***************************************************************************)
NoTxLeaked ==
  \A i \in Ids : txState[i] \in {"open", "committing", "rollingback"} =>
    \/ i \in transactions
    \/ TimerFinishes(i)
    \/ \E c \in Conns : \/ pc[c] = "register" /\ txId[c] = i
                        \/ HandlerFinishes(c, i)

(***************************************************************************)
(* "commit中にRollback()を呼ばない事を保証するため" (websql.go:289): while a   *)
(* handler commits a transaction nobody else is about to roll it back, and *)
(* in general at most one goroutine finishes a transaction.                *)
(***************************************************************************)
SingleFinisher ==
  \A i \in Ids, c \in Conns : HandlerFinishes(c, i) =>
    /\ txState[i] = IF pc[c] = "committing" THEN "committing" ELSE "open"
    /\ i \notin transactions
    /\ ~TimerFinishes(i)
    /\ \A r \in Requests : ~RequestFinishes(r, i)
    /\ \A d \in Conns \ {c} : txId[d] # i

\* A commit is answered ok exactly when SQLite committed: no answer is made
\* up for a transaction that a timer or a closeAll rolled back.
AckedIffCommitted == \A i \in Ids : i \in acked <=> txState[i] = "committed"

\* When a handler has ended, none of its transactions is still registered:
\* nothing is left for a five-minute timer to find.
EndedLeavesNothing ==
  \A c \in Conns : pc[c] \in {"ended", "orphan"} =>
    txId[c] = 0 \/ txState[txId[c]] \in Finished \cup {"rollingback"}
                \/ TimerFinishes(txId[c])

\* "DBを強制closeするために使っている" (handler.go:282): closeAll closes the
\* databases by force, so it must come to an end.
CloseAllEnds == \A r \in Requests : rpc[r] = "closeAll" ~> rpc[r] = "idle"

\* The one way in which that fails: a request rolls back, with the mutex held, a
\* transaction whose query waits for the mutex in the authorizer.
Stuck ==
  \E r \in Requests, c \in Conns :
    /\ RequestFinishes(r, txId[c])
    /\ pc[c] = "prepare"
    /\ cmd[c] \in Inserting

\* But for that, closeAll ends, whatever statements and timers run beside it
\* (closeConnectionsLocked).
CloseAllReturns ==
  \A r \in Requests : rpc[r] = "closeAll" ~> rpc[r] = "idle" \/ Stuck

\* "いつまでも呼ばれなかったらtransactionをabortする" (websql.go:282): but for
\* that, a transaction ends, whatever its page does or fails to do.
TransactionsEnd ==
  \A i \in Ids : txState[i] = "open" ~> txState[i] \in Finished \/ Stuck

\* But for that, a command that was received is answered, or its handler has
\* ended (transactionHandler's branches all end in WriteJSON, return or panic).
CommandsAnswered ==
  \A c \in Conns :
    pc[c] \notin {"off", "reading", "ended", "orphan"}
      ~> reply[c] # "none" \/ pc[c] \in {"ended", "orphan"} \/ Stuck
=============================================================================

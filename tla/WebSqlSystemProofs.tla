------------------------- MODULE WebSqlSystemProofs -------------------------
(***************************************************************************)
(* Theorems about WebSqlSystem for any DB objects, requests and bounds.    *)
(*                                                                         *)
(* The system implements each of its two parts: its steps are steps of the *)
(* page of WebSqlPage, and steps of the server of WebSqlServer.  So what   *)
(* WebSqlPageProofs and WebSqlServerProofs prove of them holds here, and   *)
(* Inv adds what relates the two: the command that a handler works on is   *)
(* the one its page awaits, and the transaction the handler has is that of *)
(* the page's task.                                                        *)
(***************************************************************************)
EXTENDS WebSqlSystem, TLAPS

PP == INSTANCE WebSqlPageProofs WITH busy <- [c \in Conns |-> Working(c)]

SP == INSTANCE WebSqlServerProofs WITH
  Statements <- {"exec", "insert", "changeVersion"}

\* The server's commands for a page's step.
Carries(s, m) ==
  \/ m = s
  \/ s = "exec" /\ m = "insert"
  \/ s = "changeVersion" /\ m = "setVersion"

\* A commit of the transaction has been made, or is being made.
Committing == {"committing", "committed"}

\* Where a handler is in which command, and what it has answered by then.
HandlerInv(c) ==
  /\ cmd[c] = "gone" => pc[c] \in {"take", "finish", "ended"}
  /\ pc[c] \in {"lookupDb", "beginTx", "register"} => cmd[c] = "begin"
  /\ pc[c] \in {"lookupTx", "getConn", "query", "prepare", "rows", "collect"} =>
       cmd[c] \in {"exec", "insert", "changeVersion", "setVersion"}
  /\ pc[c] \in {"take", "finish"} => cmd[c] \in {"begin", "commit", "abort", "gone"}
  /\ pc[c] = "committing" => cmd[c] = "commit"
  /\ Working(c) => reply[c] = "none"
  /\ txId[c] # 0 => txId[c] \notin acked
  /\ ws[c] \in {"new", "connecting"} => pc[c] = "off"
  /\ pc[c] = "off" => txId[c] = 0 /\ cmd[c] = "none"

\* While the socket is open the handler works for the step the task awaits.
CommandInv(c) ==
  ws[c] = "open" =>
    /\ cmd[c] # "gone" /\ pc[c] \notin {"off", "ended"}
    /\ Working(c) \/ reply[c] # "none" => Carries(step[c], cmd[c])

BeginInv(c) ==
  /\ out[c] = "begin" => txId[c] = 0
  /\ Working(c) => pc[c] \in {"lookupDb", "beginTx", "register"}
  /\ reply[c] = "ok" => txId[c] # 0
  /\ reply[c] = "error" => txId[c] = 0
  /\ \A n \in 1..MaxTasks : txId[c] # 0 => ran[c][n] # txId[c]

CommitInv(c) ==
  LET tx == ran[c][current[c]]
  IN /\ tx # 0
     /\ txId[c] = IF reply[c] = "none" THEN tx ELSE 0
     /\ reply[c] = "ok" => tx \in acked
     /\ reply[c] = "error" => txState[tx] \notin Committing

\* While the socket is open the handler's transaction is the task's.
TxInv(c) ==
  ws[c] = "open" =>
    /\ step[c] \in {"idle", "posted", "connect"} => txId[c] = 0
    /\ step[c] = "begin" => BeginInv(c)
    /\ step[c] \in {"changeVersion", "exec"} =>
         txId[c] # 0 /\ txId[c] = ran[c][current[c]]
    /\ step[c] = "commit" => CommitInv(c)
    /\ step[c] = "abort" => /\ txId[c] = 0 \/ txId[c] = ran[c][current[c]]
                            /\ reply[c] # "none" => txId[c] = 0

\* How many tasks may have had a transaction.
HadTx(c) ==
  Len(finished[c]) +
    IF step[c] \in {"changeVersion", "exec", "commit", "abort", "unloaded"}
    THEN 1 ELSE 0

NotYetOpen(c) == ws[c] \in {"new", "connecting"}

\* No two tasks, and no task and another's handler, have the same transaction.
RanInv(c) ==
  /\ \A n \in 1..MaxTasks : ran[c][n] \in 0..nextId
  /\ \A n \in 1..MaxTasks : n > HadTx(c) => ran[c][n] = 0
  /\ \A m, n \in 1..MaxTasks : m # n /\ ran[c][m] = ran[c][n] => ran[c][n] = 0
  /\ \A d \in Conns \ {c} : \A n \in 1..MaxTasks :
       ran[c][n] = txId[d] => ran[c][n] = 0
  /\ NotYetOpen(c) => \A n \in 1..MaxTasks : ran[c][n] = 0

OutcomeInv(c) ==
  \A n \in 1..MaxTasks :
    /\ Succeeded(c, n) => ran[c][n] # 0 /\ ran[c][n] \in acked
    /\ Failed(c, n) /\ ran[c][n] # 0 /\ ws[c] = "open" =>
         txState[ran[c][n]] \notin Committing

ConnInv(c) ==
  HandlerInv(c) /\ CommandInv(c) /\ TxInv(c) /\ RanInv(c) /\ OutcomeInv(c)

Inv ==
  /\ PP!Inv /\ SP!Inv
  /\ ran \in [Conns -> [1..MaxTasks -> Nat]]
  /\ \A c \in Conns : ConnInv(c)

-----------------------------------------------------------------------------
(* The parts have the same steps under either name                         *)

LEMMA SamePage ==
  /\ Page!Init <=> PP!Init
  /\ [Page!Next]_<<Page!pageVars, [c \in Conns |-> Working(c)]>> <=>
       [PP!Next]_<<PP!pageVars, [c \in Conns |-> Working(c)]>>
<1>1. ASSUME NEW c \in Conns
      PROVE  /\ Page!Tick(c) <=> PP!Tick(c)
             /\ Page!RunForced(c) <=> PP!RunForced(c)
             /\ Page!RunTx(c) <=> PP!RunTx(c)
  BY DEF Page!Tick, PP!Tick, Page!RunForced, PP!RunForced, Page!RunTx, PP!RunTx,
     Page!Running, PP!Running, Page!Settle, PP!Settle, Page!Finish, PP!Finish,
     Page!sqlVars, PP!sqlVars, Page!queueVars, PP!queueVars
<1>2. ASSUME NEW c \in Conns PROVE Page!RunCreation(c) <=> PP!RunCreation(c)
  <2>1. ASSUME NEW queue PROVE Page!Finish(c, queue) <=> PP!Finish(c, queue)
    BY DEF Page!Finish, PP!Finish
  <2> QED
    BY <2>1 DEF Page!RunCreation, PP!RunCreation, Page!sqlVars, PP!sqlVars,
       Page!BoundedSeq, PP!BoundedSeq, Page!SeqOf, PP!SeqOf
<1>3. ASSUME NEW c \in Conns PROVE Page!Connected(c) <=> PP!Connected(c)
  BY DEF Page!Connected, PP!Connected, Page!Advance, PP!Advance, Page!Say, PP!Say,
     Page!Fail, PP!Fail, Page!Settle, PP!Settle, Page!Finish, PP!Finish,
     Page!sqlVars, PP!sqlVars
<1>4. ASSUME NEW c \in Conns PROVE Page!Answered(c) <=> PP!Answered(c)
  BY DEF Page!Answered, PP!Answered, Page!Callback, PP!Callback,
     Page!NextStatement, PP!NextStatement, Page!AfterCommit, PP!AfterCommit,
     Page!Advance, PP!Advance, Page!Say, PP!Say, Page!Fail, PP!Fail,
     Page!Settle, PP!Settle, Page!Finish, PP!Finish, Page!Sent, PP!Sent,
     Page!sqlVars, PP!sqlVars
<1>5. ASSUME NEW c \in Conns
      PROVE  /\ Page!NewDb(c) <=> PP!NewDb(c)
             /\ Page!UserCalls(c) <=> PP!UserCalls(c)
             /\ Page!UserSql(c) <=> PP!UserSql(c)
             /\ Page!Unload(c) <=> PP!Unload(c)
  BY DEF Page!NewDb, PP!NewDb, Page!UserCalls, PP!UserCalls, Page!UserSql,
     PP!UserSql, Page!Unload, PP!Unload, Page!RoomForTask, PP!RoomForTask,
     Page!NewTask, PP!NewTask, Page!Running, PP!Running, Page!sqlVars, PP!sqlVars,
     Page!queueVars, PP!queueVars
<1>6. ASSUME NEW c \in Conns
      PROVE  /\ Page!Accept(c) <=> PP!Accept(c)
             /\ Page!Refuse(c) <=> PP!Refuse(c)
             /\ Page!Take(c) <=> PP!Take(c)
             /\ Page!Serve(c) <=> PP!Serve(c)
  BY DEF Page!Accept, PP!Accept, Page!Refuse, PP!Refuse, Page!Take, PP!Take,
     Page!Serve, PP!Serve, Page!sqlVars, PP!sqlVars, Page!queueVars, PP!queueVars
<1>7. ASSUME NEW c \in Conns PROVE Page!SocketClosed(c) <=> PP!SocketClosed(c)
  BY DEF Page!SocketClosed, PP!SocketClosed, Page!Fail, PP!Fail, Page!Say, PP!Say,
     Page!Settle, PP!Settle, Page!Finish, PP!Finish, Page!Sent, PP!Sent,
     Page!sqlVars, PP!sqlVars
<1>8. ASSUME NEW c \in Conns
      PROVE  /\ Page!PageStep(c) <=> PP!PageStep(c)
             /\ Page!WireStep(c) <=> PP!WireStep(c)
  BY <1>1, <1>2, <1>3, <1>4, <1>5, <1>6, <1>7 DEF Page!PageStep, PP!PageStep,
     Page!Turn, PP!Turn, Page!WireStep, PP!WireStep
<1>9. Page!Next <=> PP!Next
  BY <1>6, <1>8 DEF Page!Next, PP!Next
<1>10. Page!Init <=> PP!Init
  BY DEF Page!Init, PP!Init, Page!Tasks, PP!Tasks
<1> QED
  BY <1>9, <1>10 DEF Page!pageVars, PP!pageVars

LEMMA SameServer ==
  /\ Server!Init <=> SP!Init
  /\ [Server!Next]_Server!serverVars <=> [SP!Next]_SP!serverVars
<1>1. ASSUME NEW c \in Conns
      PROVE  /\ Server!Connect(c) <=> SP!Connect(c)
             /\ Server!Disconnect(c) <=> SP!Disconnect(c)
             /\ Server!ReadReply(c) <=> SP!ReadReply(c)
  BY DEF Server!Connect, SP!Connect, Server!Disconnect, SP!Disconnect,
     Server!ReadReply, SP!ReadReply, Server!KnownDbs, SP!KnownDbs,
     Server!Goto, SP!Goto, Server!requestVars, SP!requestVars
<1>2. ASSUME NEW c \in Conns, NEW m PROVE Server!Receive(c, m) <=> SP!Receive(c, m)
  BY DEF Server!Receive, SP!Receive, Server!Goto, SP!Goto, Server!Answer,
     SP!Answer, Server!requestVars, SP!requestVars
<1>3. ASSUME NEW c \in Conns
      PROVE  /\ Server!LookupDb(c) <=> SP!LookupDb(c)
             /\ Server!BeginTx(c) <=> SP!BeginTx(c)
             /\ Server!Register(c) <=> SP!Register(c)
             /\ Server!LookupTx(c) <=> SP!LookupTx(c)
  BY DEF Server!LookupDb, SP!LookupDb, Server!BeginTx, SP!BeginTx,
     Server!Register, SP!Register, Server!LookupTx, SP!LookupTx, Server!Goto,
     SP!Goto, Server!Answer, SP!Answer, Server!requestVars, SP!requestVars
<1>4. ASSUME NEW c \in Conns
      PROVE  /\ Server!GetConn(c) <=> SP!GetConn(c)
             /\ Server!StartQuery(c) <=> SP!StartQuery(c)
             /\ Server!Prepare(c) <=> SP!Prepare(c)
             /\ Server!EndQuery(c) <=> SP!EndQuery(c)
             /\ Server!Collect(c) <=> SP!Collect(c)
  BY DEF Server!GetConn, SP!GetConn, Server!StartQuery, SP!StartQuery,
     Server!Prepare, SP!Prepare, Server!EndQuery, SP!EndQuery, Server!Collect,
     SP!Collect, Server!Inserting, SP!Inserting, Server!Goto, SP!Goto,
     Server!Answer, SP!Answer, Server!requestVars, SP!requestVars
<1>5. ASSUME NEW c \in Conns
      PROVE  /\ Server!TakeTx(c) <=> SP!TakeTx(c)
             /\ Server!StartCommit(c) <=> SP!StartCommit(c)
             /\ Server!EndCommit(c) <=> SP!EndCommit(c)
             /\ Server!FinishAbort(c) <=> SP!FinishAbort(c)
  BY DEF Server!TakeTx, SP!TakeTx, Server!StartCommit, SP!StartCommit,
     Server!EndCommit, SP!EndCommit, Server!FinishAbort, SP!FinishAbort,
     Server!Forget, SP!Forget, Server!Goto, SP!Goto, Server!Answer, SP!Answer,
     Server!requestVars, SP!requestVars
<1>6. ASSUME NEW i \in 1..MaxId PROVE Server!TimerNext(i) <=> SP!TimerNext(i)
  BY DEF Server!TimerNext, SP!TimerNext, Server!Fire, SP!Fire,
     Server!TimerRollback, SP!TimerRollback, Server!TimerRolledBack,
     SP!TimerRolledBack, Server!handlerVars, SP!handlerVars, Server!requestVars,
     SP!requestVars
<1>7. ASSUME NEW r \in Requests
      PROVE  /\ Server!Open(r) <=> SP!Open(r)
             /\ Server!Close(r) <=> SP!Close(r)
             /\ Server!CloseAll(r) <=> SP!CloseAll(r)
             /\ Server!InsertDb(r) <=> SP!InsertDb(r)
             /\ Server!CloseDb(r) <=> SP!CloseDb(r)
  BY DEF Server!Open, SP!Open, Server!Close, SP!Close, Server!CloseAll,
     SP!CloseAll, Server!InsertDb, SP!InsertDb, Server!CloseDb, SP!CloseDb,
     Server!handlerVars, SP!handlerVars, Server!requestVars, SP!requestVars
<1>8. ASSUME NEW r \in Requests
      PROVE  /\ Server!RollbackNext(r) <=> SP!RollbackNext(r)
             /\ Server!RolledBack(r) <=> SP!RolledBack(r)
             /\ Server!CloseAllEnd(r) <=> SP!CloseAllEnd(r)
  BY DEF Server!RollbackNext, SP!RollbackNext, Server!RolledBack, SP!RolledBack,
     Server!CloseAllEnd, SP!CloseAllEnd, Server!handlerVars, SP!handlerVars,
     Server!requestVars, SP!requestVars
<1>9. ASSUME NEW c \in Conns PROVE Server!HandlerStep(c) <=> SP!HandlerStep(c)
  BY <1>3, <1>4, <1>5 DEF Server!HandlerStep, SP!HandlerStep
<1>10. Server!Commands = SP!Commands
  BY DEF Server!Commands, SP!Commands
<1>11. ASSUME NEW c \in Conns PROVE Server!ConnNext(c) <=> SP!ConnNext(c)
  BY <1>1, <1>2, <1>9, <1>10 DEF Server!ConnNext, SP!ConnNext
<1>12. ASSUME NEW r \in Requests PROVE Server!RequestNext(r) <=> SP!RequestNext(r)
  BY <1>7, <1>8 DEF Server!RequestNext, SP!RequestNext, Server!RequestStep,
     SP!RequestStep
<1>13. Server!Next <=> SP!Next
  BY <1>6, <1>11, <1>12 DEF Server!Next, SP!Next, Server!Ids, SP!Ids
<1>14. Server!Init <=> SP!Init
  BY DEF Server!Init, SP!Init, Server!Ids, SP!Ids
<1> QED
  BY <1>13, <1>14 DEF Server!serverVars, SP!serverVars

-----------------------------------------------------------------------------
(* Every step is a step of the server, or leaves the server alone          *)

LEMMA PageReply ==
  ASSUME NEW c \in Conns, Page!PageStep(c)
  PROVE  \/ reply' = reply
         \/ reply[c] # "none" /\ reply' = [reply EXCEPT ![c] = "none"]
BY DEF Page!PageStep, Page!Turn, Page!Tick, Page!RunCreation, Page!RunForced,
   Page!RunTx, Page!Connected, Page!Answered, Page!NewDb, Page!UserCalls,
   Page!UserSql, Page!Unload

LEMMA WireReply ==
  ASSUME NEW c \in Conns, Page!WireStep(c) PROVE reply' = reply
BY DEF Page!WireStep, Page!Accept, Page!Refuse, Page!SocketClosed

LEMMA ServerNext ==
  ASSUME PP!Inv, [Next]_systemVars PROVE [Server!Next]_Server!serverVars
<1>1. ASSUME UNCHANGED <<serverOnly, reply>>
      PROVE  UNCHANGED Server!serverVars
  BY <1>1 DEF serverOnly, Server!serverVars
<1>2. ASSUME NEW c \in Conns, PageMoves(c) PROVE [Server!Next]_Server!serverVars
  <2>1. CASE reply' = reply
    BY <1>1, <1>2, <2>1 DEF PageMoves
  <2>2. CASE reply[c] # "none" /\ reply' = [reply EXCEPT ![c] = "none"]
    <3>1. Server!ReadReply(c)
      BY <1>2, <2>2 DEF PageMoves, Server!ReadReply, Server!requestVars, serverOnly
    <3> QED
      BY <3>1 DEF Server!Next, Server!ConnNext
  <2> QED
    BY <1>2, <2>1, <2>2, PageReply DEF PageMoves
<1>3. ASSUME NEW c \in Conns, Upgraded(c) PROVE Server!Next
  BY <1>3 DEF Upgraded, Server!Next, Server!ConnNext
<1>4. ASSUME NEW c \in Conns, Refused(c) \/ Cut(c) PROVE UNCHANGED Server!serverVars
  BY <1>1, <1>4, WireReply DEF Refused, Cut, Page!WireStep
<1>5. ASSUME NEW c \in Conns, Received(c) PROVE Server!Next
  <2>1. out[c] \in {"begin", "changeVersion", "exec", "commit", "abort", "none"}
    BY DEF PP!Inv, PP!Shape, PP!Sent
  <2>2. PICK m : /\ IF out[c] = "exec" THEN m \in {"exec", "insert"} ELSE m = out[c]
                 /\ Server!Receive(c, m)
    BY <1>5 DEF Received
  <2>3. m \in Server!Commands
    BY <1>5, <2>1, <2>2 DEF Received, Server!Commands
  <2> QED
    BY <2>2, <2>3 DEF Server!Next, Server!ConnNext
<1>6. ASSUME NEW c \in Conns, Hangup(c) \/ Handles(c) PROVE Server!Next
  BY <1>6 DEF Hangup, Handles, Server!Next, Server!ConnNext
<1>7. ASSUME NEW i \in 1..MaxId, TimerRuns(i) PROVE Server!Next
  BY <1>7 DEF TimerRuns, Server!Next, Server!Ids
<1>8. ASSUME NEW r \in Requests, Requested(r) PROVE Server!Next
  BY <1>8 DEF Requested, Server!Next
<1>9. CASE UNCHANGED systemVars
  BY <1>1, <1>9 DEF systemVars
<1> QED
  BY <1>2, <1>3, <1>4, <1>5, <1>6, <1>7, <1>8, <1>9 DEF Next

-----------------------------------------------------------------------------
(* Every step is a step of the page, or leaves the page alone              *)

busy == [c \in Conns |-> Working(c)]

\* The handlers of other connections are as they were.
OtherHandlers(c) ==
  \A d \in Conns \ {c} :
    pc'[d] = pc[d] /\ cmd'[d] = cmd[d] /\ txId'[d] = txId[d] /\ reply'[d] = reply[d]

LEMMA BusyStays ==
  ASSUME \A c \in Conns : Working(c)' <=> Working(c)
  PROVE  busy' = busy
BY DEF busy, Working

LEMMA BusyChanges ==
  ASSUME NEW c \in Conns, OtherHandlers(c)
  PROVE  busy' = [busy EXCEPT ![c] = Working(c)']
BY DEF busy, Working, OtherHandlers

\* What a handler's step does to it: it goes on, or has answered, or gives up.
LEMMA HandlerEffect ==
  ASSUME SP!Inv, NEW c \in Conns, HandlerInv(c), Server!HandlerStep(c)
  PROVE  /\ OtherHandlers(c)
         /\ pc[c] \notin {"off", "reading", "ended", "orphan"}
         /\ cmd[c] # "gone" => cmd'[c] # "gone"
         /\ cmd[c] = "gone" => /\ pc'[c] \in {"take", "finish", "ended"}
                               /\ cmd'[c] = "gone" /\ reply' = reply
         /\ \/ pc'[c] \notin {"off", "reading", "ended", "orphan"} /\ reply' = reply
            \/ cmd[c] = "gone" /\ reply' = reply
            \/ /\ pc'[c] \in {"reading", "orphan"}
               /\ \E a \in {"ok", "error"} : reply' = [reply EXCEPT ![c] = a]
            \/ pc'[c] = "orphan" /\ reply' = reply
<1> USE DEF SP!Inv, SP!HandlerTypes, OtherHandlers, Server!Goto, Server!Answer,
      Server!Forget
<1>1. CASE Server!LookupDb(c)
  BY <1>1 DEF HandlerInv, Server!LookupDb
<1>2. CASE Server!BeginTx(c)
  BY <1>2 DEF HandlerInv, Server!BeginTx
<1>3. CASE Server!Register(c)
  BY <1>3 DEF HandlerInv, Server!Register
<1>4. CASE Server!LookupTx(c)
  BY <1>4 DEF HandlerInv, Server!LookupTx
<1>5. CASE Server!GetConn(c)
  BY <1>5 DEF HandlerInv, Server!GetConn
<1>6. CASE Server!StartQuery(c)
  BY <1>6 DEF HandlerInv, Server!StartQuery
<1>7. CASE Server!Prepare(c)
  BY <1>7 DEF HandlerInv, Server!Prepare
<1>8. CASE Server!EndQuery(c)
  BY <1>8 DEF HandlerInv, Server!EndQuery
<1>9. CASE Server!Collect(c)
  BY <1>9 DEF HandlerInv, Server!Collect
<1>10. CASE Server!TakeTx(c)
  BY <1>10 DEF HandlerInv, Server!TakeTx
<1>11. CASE Server!StartCommit(c)
  BY <1>11 DEF HandlerInv, Server!StartCommit
<1>12. CASE Server!EndCommit(c)
  BY <1>12 DEF HandlerInv, Server!EndCommit
<1>13. CASE Server!FinishAbort(c)
  BY <1>13 DEF HandlerInv, Server!FinishAbort
<1> QED
  BY <1>1, <1>2, <1>3, <1>4, <1>5, <1>6, <1>7, <1>8, <1>9, <1>10, <1>11, <1>12,
     <1>13 DEF Server!HandlerStep

LEMMA PageNext ==
  ASSUME Inv, [Next]_systemVars PROVE [Page!Next]_<<Page!pageVars, busy>>
<1>1. ASSUME UNCHANGED <<pc, cmd>> PROVE busy' = busy
  BY <1>1, BusyStays DEF Working
<1>2. ASSUME UNCHANGED <<pageOnly, reply, out>>, busy' = busy
      PROVE  UNCHANGED <<Page!pageVars, busy>>
  BY <1>2 DEF pageOnly, Page!pageVars
<1>3. ASSUME NEW c \in Conns, PageMoves(c) PROVE Page!Next
  <2>1. busy' = busy
    BY <1>1, <1>3 DEF PageMoves, serverOnly
  <2> QED
    BY <1>3, <2>1 DEF PageMoves, Page!Next, busy
<1>4. ASSUME NEW c \in Conns, Upgraded(c) PROVE Page!Next
  <2>1. pc[c] = "off" /\ pc' = [pc EXCEPT ![c] = "reading"] /\ cmd' = cmd
    BY <1>4 DEF Upgraded, Server!Connect, Server!Goto
  <2>2. \A d \in Conns : Working(d)' <=> Working(d)
    BY <2>1 DEF Working, Inv, SP!Inv, SP!HandlerTypes
  <2> QED
    BY <1>4, <2>2, BusyStays DEF Upgraded, Page!Next, Page!WireStep, busy
<1>5. ASSUME NEW c \in Conns, Refused(c) \/ Cut(c) PROVE Page!Next
  <2>1. busy' = busy
    BY <1>1, <1>5 DEF Refused, Cut, serverOnly
  <2> QED
    BY <1>5, <2>1 DEF Refused, Cut, Page!Next, Page!WireStep, busy
<1>6. ASSUME NEW c \in Conns, Received(c) PROVE Page!Next
  <2>1. /\ out[c] \in {"begin", "changeVersion", "exec", "commit", "abort"}
        /\ out' = [out EXCEPT ![c] = "none"]
        /\ UNCHANGED pageOnly
    BY <1>6 DEF Received, Inv, PP!Inv, PP!Shape, PP!Sent
  <2>2. PICK m : /\ IF out[c] = "exec" THEN m \in {"exec", "insert"} ELSE m = out[c]
                 /\ Server!Receive(c, m)
    BY <1>6 DEF Received
  <2>3. /\ m # "gone" /\ pc[c] = "reading" /\ cmd' = [cmd EXCEPT ![c] = m]
        /\ OtherHandlers(c)
        /\ \/ /\ pc' = [pc EXCEPT ![c] = "reading"]
              /\ reply' = [reply EXCEPT ![c] = "error"]
           \/ /\ pc'[c] \in {"take", "lookupDb", "lookupTx"}
              /\ reply' = reply
    BY <2>1, <2>2 DEF Server!Receive, Server!Goto, Server!Answer, OtherHandlers,
       Inv, SP!Inv, SP!HandlerTypes
  <2>4. ~Working(c) /\ cmd'[c] # "gone"
    BY <2>3 DEF Working, Inv, SP!Inv, SP!HandlerTypes
  <2>5. busy' = [busy EXCEPT ![c] = Working(c)']
    BY <2>3, BusyChanges
  <2>6. /\ ~busy[c] /\ out[c] # "none" /\ out' = [out EXCEPT ![c] = "none"]
        /\ UNCHANGED <<ws, kinds, Page!queueVars, step, Page!sqlVars, forceFail, calls>>
    BY <2>1, <2>4 DEF busy, pageOnly, Page!queueVars, Page!sqlVars
  <2>7. CASE /\ pc' = [pc EXCEPT ![c] = "reading"]
             /\ reply' = [reply EXCEPT ![c] = "error"]
    <3>1. ~Working(c)'
      BY <2>3, <2>7 DEF Working, Inv, SP!Inv, SP!HandlerTypes
    <3>2. busy' = busy
      BY <2>3, <2>4, <3>1, BusyStays DEF Working, OtherHandlers
    <3>3. Page!Take(c)
      BY <2>6, <2>7, <3>2 DEF Page!Take, busy
    <3> QED
      BY <3>3 DEF Page!Next
  <2>8. CASE pc'[c] \in {"take", "lookupDb", "lookupTx"} /\ reply' = reply
    <3>1. Working(c)'
      BY <2>4, <2>8 DEF Working
    <3>2. busy' = [busy EXCEPT ![c] = TRUE]
      BY <2>5, <3>1
    <3>3. Page!Take(c)
      BY <2>6, <2>8, <3>2 DEF Page!Take, busy
    <3> QED
      BY <3>3 DEF Page!Next
  <2> QED
    BY <2>3, <2>7, <2>8
<1>7. ASSUME NEW c \in Conns, Hangup(c) PROVE UNCHANGED <<Page!pageVars, busy>>
  <2>1. /\ pc[c] = "reading" /\ cmd' = [cmd EXCEPT ![c] = "gone"]
        /\ UNCHANGED <<out, reply, pageOnly>> /\ OtherHandlers(c)
    BY <1>7 DEF Hangup, Server!Disconnect, Server!Goto, OtherHandlers, Inv, SP!Inv,
       SP!HandlerTypes
  <2>2. ~Working(c) /\ ~Working(c)'
    BY <2>1 DEF Working, Inv, SP!Inv, SP!HandlerTypes
  <2>3. busy' = busy
    BY <2>1, <2>2, BusyStays DEF Working, OtherHandlers
  <2> QED
    BY <1>2, <2>1, <2>3
<1>8. ASSUME NEW c \in Conns, Handles(c)
      PROVE  Page!Next \/ UNCHANGED <<Page!pageVars, busy>>
  <2>1. UNCHANGED <<out, pageOnly>> /\ HandlerInv(c) /\ Server!HandlerStep(c)
    BY <1>8 DEF Handles, Inv, ConnInv
  <2>2. /\ OtherHandlers(c)
        /\ pc[c] \notin {"off", "reading", "ended", "orphan"}
        /\ cmd[c] # "gone" => cmd'[c] # "gone"
        /\ cmd[c] = "gone" => cmd'[c] = "gone" /\ reply' = reply
        /\ \/ pc'[c] \notin {"off", "reading", "ended", "orphan"} /\ reply' = reply
           \/ cmd[c] = "gone" /\ reply' = reply
           \/ /\ pc'[c] \in {"reading", "orphan"}
              /\ \E a \in {"ok", "error"} : reply' = [reply EXCEPT ![c] = a]
           \/ pc'[c] = "orphan" /\ reply' = reply
    BY <2>1, HandlerEffect DEF Inv
  <2>3. CASE cmd[c] = "gone"
    <3>1. \A d \in Conns : Working(d)' <=> Working(d)
      BY <2>2, <2>3 DEF Working, OtherHandlers
    <3> QED
      BY <1>2, <2>1, <2>2, <2>3, <3>1, BusyStays
  <2>4. CASE /\ cmd[c] # "gone" /\ reply' = reply
             /\ pc'[c] \notin {"off", "reading", "ended", "orphan"}
    <3>1. \A d \in Conns : Working(d)' <=> Working(d)
      BY <2>2, <2>4 DEF Working, OtherHandlers
    <3> QED
      BY <1>2, <2>1, <2>4, <3>1, BusyStays
  <2>5. CASE /\ cmd[c] # "gone" /\ pc'[c] \in {"reading", "orphan"}
             /\ \/ reply' = reply
                \/ \E a \in {"ok", "error"} : reply' = [reply EXCEPT ![c] = a]
    <3>1. Working(c) /\ ~Working(c)'
      BY <2>2, <2>5 DEF Working
    <3>2. busy' = [busy EXCEPT ![c] = FALSE] /\ busy[c]
      <4>1. busy' = [busy EXCEPT ![c] = Working(c)']
        BY <2>2, BusyChanges
      <4>2. Working(c)' = FALSE
        BY <3>1 DEF Working
      <4>3. busy[c]
        BY <3>1 DEF busy
      <4> QED
        BY <4>1, <4>2, <4>3
    <3>3. reply[c] = "none" /\ reply = [reply EXCEPT ![c] = reply[c]]
      BY <2>1, <3>1 DEF HandlerInv, Inv, SP!Inv, SP!HandlerTypes
    <3>4. \E a \in {"ok", "error", "none"} : reply' = [reply EXCEPT ![c] = a]
      BY <2>5, <3>3
    <3>5. UNCHANGED <<ws, out, kinds, Page!queueVars, step, Page!sqlVars, forceFail,
                      calls>>
      BY <2>1 DEF pageOnly, Page!queueVars, Page!sqlVars
    <3>6. Page!Serve(c)
      BY <3>2, <3>4, <3>5 DEF Page!Serve, busy
    <3> QED
      BY <3>6 DEF Page!Next
  <2> QED
    BY <2>2, <2>3, <2>4, <2>5
<1>9. ASSUME NEW i \in 1..MaxId, TimerRuns(i) PROVE UNCHANGED <<Page!pageVars, busy>>
  <2>1. UNCHANGED <<pc, cmd, reply, out, pageOnly>>
    BY <1>9 DEF TimerRuns, Server!TimerNext, Server!Fire, Server!TimerRollback,
       Server!TimerRolledBack, Server!handlerVars
  <2> QED
    BY <1>1, <1>2, <2>1
<1>10. ASSUME NEW r \in Requests, Requested(r) PROVE UNCHANGED <<Page!pageVars, busy>>
  <2>1. UNCHANGED <<pc, cmd, reply, out, pageOnly>>
    BY <1>10 DEF Requested, Server!RequestNext, Server!RequestStep, Server!Open,
       Server!Close, Server!CloseAll, Server!InsertDb, Server!CloseDb,
       Server!RollbackNext, Server!RolledBack, Server!CloseAllEnd,
       Server!handlerVars
  <2> QED
    BY <1>1, <1>2, <2>1
<1>11. CASE UNCHANGED systemVars
  <2>1. UNCHANGED <<pc, cmd, reply, out, pageOnly>>
    BY <1>11 DEF systemVars, serverOnly
  <2> QED
    BY <1>1, <1>2, <2>1
<1> QED
  BY <1>3, <1>4, <1>5, <1>6, <1>7, <1>8, <1>9, <1>10, <1>11 DEF Next

-----------------------------------------------------------------------------
(* What is proved of the parts holds of the system                         *)

LEMMA PartsStep == ASSUME Inv, [Next]_systemVars PROVE PP!Inv' /\ SP!Inv'
<1>1. PP!PageAssumption /\ SP!ServerAssumption
  BY SystemAssumption DEF PP!PageAssumption, SP!ServerAssumption
<1>2. PP!Inv'
  <2>1. [PP!Next]_<<PP!pageVars, [c \in Conns |-> Working(c)]>>
    BY PageNext, SamePage DEF busy
  <2> QED
    BY <1>1, <2>1, PP!InvStep DEF Inv
<1>3. SP!Inv'
  <2>1. [SP!Next]_SP!serverVars
    BY ServerNext, SameServer DEF Inv
  <2> QED
    BY <1>1, <2>1, SP!NextStep DEF Inv
<1> QED
  BY <1>2, <1>3

\* The page of d and its handler do nothing, and its page does nothing.
Idle(d) ==
  /\ pc'[d] = pc[d] /\ cmd'[d] = cmd[d] /\ txId'[d] = txId[d]
  /\ reply'[d] = reply[d] /\ out'[d] = out[d] /\ ws'[d] = ws[d]
  /\ step'[d] = step[d] /\ current'[d] = current[d]
  /\ calls'[d] = calls[d] /\ finished'[d] = finished[d] /\ ran'[d] = ran[d]

\* Nobody else is given a transaction of the tasks of d.
IdsKept(d) ==
  /\ nextId <= nextId'
  /\ \A n \in 1..MaxTasks : \A e \in Conns \ {d} :
       ran[d][n] = txId'[e] => ran[d][n] = 0 \/ ran[d][n] = txId[e]

\* Nor is one of them committed.
TxKept(d) ==
  /\ IdsKept(d)
  /\ acked \subseteq acked'
  /\ txId[d] # 0 => txId[d] \notin acked' \ acked
  /\ \A n \in 1..MaxTasks :
       ran[d][n] # 0 /\ txState'[ran[d][n]] \in Committing =>
         txState[ran[d][n]] \in Committing

LEMMA ConnFacts ==
  ASSUME Inv, NEW c \in Conns
  PROVE  /\ nextId \in Nat /\ MaxTasks \in Nat /\ ran[c] \in [1..MaxTasks -> Nat]
         /\ current[c] \in 0..MaxTasks /\ Len(finished[c]) \in Nat
         /\ HadTx(c) \in Nat
         /\ reply[c] \in {"none", "ok", "error"}
         /\ step[c] \notin {"idle", "unloaded"} =>
              current[c] \in 1..MaxTasks /\ current[c] = Len(finished[c]) + 1
<1>1. PP!PageAssumption
  BY SystemAssumption DEF PP!PageAssumption
<1>2. Len(finished[c]) \in Nat /\ current[c] \in 0..MaxTasks
  BY <1>1, PP!ConnFacts DEF Inv
<1>3. step[c] \notin {"idle", "unloaded"} =>
        current[c] \in 1..MaxTasks /\ current[c] = Len(finished[c]) + 1
  BY <1>1, PP!CurrentTask DEF Inv, PP!Tasks
<1>4. nextId \in Nat /\ ran[c] \in [1..MaxTasks -> Nat] /\ MaxTasks \in Nat
  BY SystemAssumption DEF Inv, SP!Inv, SP!RequestTypes
<1>5. reply[c] \in {"none", "ok", "error"}
  BY DEF Inv, SP!Inv, SP!HandlerTypes
<1>6. HadTx(c) \in Nat
  <2>1. PICK m \in Nat : m = Len(finished[c])
    BY <1>2
  <2>2. HadTx(c) = m + 1 \/ HadTx(c) = m + 0
    BY <2>1 DEF HadTx
  <2> QED
    BY <2>2
<1> QED
  BY <1>2, <1>3, <1>4, <1>5, <1>6

LEMMA RanKept ==
  ASSUME Inv, NEW d \in Conns, RanInv(d), ran'[d] = ran[d], IdsKept(d),
         nextId' \in Nat,
         \A n \in 1..MaxTasks : n > HadTx(d)' => n > HadTx(d),
         NotYetOpen(d)' => NotYetOpen(d)
  PROVE  RanInv(d)'
<1>1. \A n \in 1..MaxTasks : ran[d][n] \in 0..nextId'
  BY ConnFacts DEF RanInv, IdsKept
<1>2. \A e \in Conns \ {d} : \A n \in 1..MaxTasks :
        ran[d][n] = txId'[e] => ran[d][n] = 0
  BY DEF RanInv, IdsKept
<1> QED
  BY <1>1, <1>2 DEF RanInv

LEMMA IdleKept ==
  ASSUME Inv, NEW d \in Conns, Idle(d), TxKept(d), nextId' \in Nat
  PROVE  ConnInv(d)'
<1>1. HandlerInv(d)'
  BY DEF Inv, ConnInv, HandlerInv, Idle, TxKept, Working
<1>2. CommandInv(d)'
  BY DEF Inv, ConnInv, CommandInv, Idle, Working
<1>3. HadTx(d)' = HadTx(d)
  BY DEF Idle, HadTx
<1>4. RanInv(d)'
  BY <1>3, RanKept DEF Inv, ConnInv, Idle, TxKept, NotYetOpen
<1>5. OutcomeInv(d)'
  BY DEF Inv, ConnInv, OutcomeInv, Idle, TxKept, Succeeded, Failed
<1>6. TxInv(d)'
  <2>1. TxInv(d)
    BY DEF Inv, ConnInv
  <2>2. BeginInv(d)' <=> BeginInv(d)
    BY DEF BeginInv, Idle, Working
  <2>3. ASSUME step[d] = "commit", CommitInv(d) PROVE CommitInv(d)'
    <3>1. current[d] \in 1..MaxTasks
      BY <2>3, ConnFacts
    <3> QED
      BY <2>3, <3>1 DEF CommitInv, Idle, TxKept
  <2> QED
    BY <2>1, <2>2, <2>3 DEF TxInv, Idle
<1> QED
  BY <1>1, <1>2, <1>4, <1>5, <1>6 DEF ConnInv

-----------------------------------------------------------------------------
(* The timers and the HTTP requests commit nothing                         *)

LEMMA TimerCommitsNot ==
  ASSUME SP!Inv, NEW i \in 1..MaxId, Server!TimerNext(i)
  PROVE  /\ UNCHANGED <<pc, cmd, txId, reply, acked, nextId>>
         /\ \A k \in 1..MaxId : txState'[k] \in Committing => txState[k] \in Committing
<1> USE DEF SP!Inv, SP!TxTypes, SP!Ids, Server!handlerVars, Committing
<1>1. CASE Server!Fire(i)
  BY <1>1 DEF Server!Fire
<1>2. CASE Server!TimerRollback(i)
  BY <1>2 DEF Server!TimerRollback
<1>3. CASE Server!TimerRolledBack(i)
  BY <1>3 DEF Server!TimerRolledBack
<1> QED
  BY <1>1, <1>2, <1>3 DEF Server!TimerNext

LEMMA RequestCommitsNot ==
  ASSUME SP!Inv, NEW r \in Requests, Server!RequestNext(r)
  PROVE  /\ UNCHANGED <<pc, cmd, txId, reply, acked>>
         /\ nextId <= nextId'
         /\ \A k \in 1..MaxId : txState'[k] \in Committing => txState[k] \in Committing
<1>0. nextId \in Nat
  BY SystemAssumption DEF SP!Inv, SP!RequestTypes
<1> USE DEF Server!handlerVars
<1>1. CASE Server!Open(r)
  BY <1>0, <1>1 DEF Server!Open
<1>2. CASE \/ Server!InsertDb(r) \/ Server!Close(r) \/ Server!CloseDb(r)
           \/ Server!CloseAll(r) \/ Server!CloseAllEnd(r)
  BY <1>0, <1>2 DEF Server!InsertDb, Server!Close, Server!CloseDb, Server!CloseAll,
     Server!CloseAllEnd
<1>3. CASE Server!RollbackNext(r)
  BY <1>0, <1>3 DEF Server!RollbackNext, SP!Inv, SP!TxTypes, SP!Ids, Committing
<1>4. CASE Server!RolledBack(r)
  BY <1>0, <1>4 DEF Server!RolledBack, SP!Inv, SP!TxTypes, SP!Ids, Committing
<1> QED
  BY <1>1, <1>2, <1>3, <1>4 DEF Server!RequestNext, Server!RequestStep

\* The ids that tasks have noted are ids that were handed out.
LEMMA RanIds ==
  ASSUME Inv, NEW c \in Conns, NEW n \in 1..MaxTasks, ran[c][n] # 0
  PROVE  ran[c][n] \in 1..MaxId /\ ran[c][n] <= nextId
<1>1. ran[c][n] \in 0..nextId /\ nextId \in 0..MaxId /\ MaxId \in Nat
  BY SystemAssumption DEF Inv, ConnInv, RanInv, SP!Inv, SP!RequestTypes
<1> QED
  BY <1>1

LEMMA TxIds ==
  ASSUME Inv, NEW c \in Conns
  PROVE  txId[c] \in 0..MaxId /\ txId[c] <= nextId /\ nextId \in 0..MaxId
         /\ MaxId \in Nat
BY SystemAssumption DEF Inv, SP!Inv, SP!HandlerTypes, SP!RequestTypes, SP!Ids,
   SP!Names, SP!FreshIds

LEMMA NoConnStep ==
  ASSUME Inv, [Next]_systemVars,
         UNCHANGED <<pc, cmd, txId, reply, acked, out, pageOnly>>, nextId <= nextId',
         \A k \in 1..MaxId : txState'[k] \in Committing => txState[k] \in Committing
  PROVE  Inv'
<1>1. PP!Inv' /\ SP!Inv'
  BY PartsStep
<1>2. nextId' \in Nat
  BY <1>1, SystemAssumption DEF SP!Inv, SP!RequestTypes
<1>3. ASSUME NEW d \in Conns PROVE ConnInv(d)'
  <2>1. Idle(d)
    BY DEF Idle, pageOnly
  <2>2. TxKept(d)
    BY RanIds DEF TxKept, IdsKept
  <2> QED
    BY <1>2, <2>1, <2>2, IdleKept
<1>4. ran' \in [Conns -> [1..MaxTasks -> Nat]]
  BY DEF Inv, pageOnly
<1> QED
  BY <1>1, <1>3, <1>4 DEF Inv

LEMMA TimerRunsStep ==
  ASSUME Inv, NEW i \in 1..MaxId, TimerRuns(i) PROVE Inv'
<1>1. Server!TimerNext(i) /\ UNCHANGED <<out, pageOnly>> /\ Next
  BY DEF TimerRuns, Next
<1>2. /\ UNCHANGED <<pc, cmd, txId, reply, acked, nextId>>
      /\ \A k \in 1..MaxId : txState'[k] \in Committing => txState[k] \in Committing
  BY <1>1, TimerCommitsNot DEF Inv
<1>3. nextId <= nextId'
  BY <1>2, SystemAssumption DEF Inv, SP!Inv, SP!RequestTypes
<1> QED
  BY <1>1, <1>2, <1>3, NoConnStep

LEMMA RequestedStep ==
  ASSUME Inv, NEW r \in Requests, Requested(r) PROVE Inv'
<1>1. Server!RequestNext(r) /\ UNCHANGED <<out, pageOnly>> /\ Next
  BY DEF Requested, Next
<1> QED
  BY <1>1, RequestCommitsNot, NoConnStep DEF Inv

-----------------------------------------------------------------------------
(* The handlers                                                            *)

\* What a handler does to transactions: it commits its own only, and gets a
\* new one.
LEMMA HandlerCommits ==
  ASSUME Inv, NEW c \in Conns, Server!HandlerStep(c)
  PROVE  /\ acked \subseteq acked' /\ acked' \subseteq acked \cup {txId[c]}
         /\ nextId <= nextId'
         /\ txId'[c] \in {txId[c], 0} \/ txId'[c] = nextId + 1
         /\ \A k \in 1..MaxId : txState'[k] \in Committing =>
              \/ txState[k] \in Committing
              \/ k = txId[c] /\ pc[c] = "finish" /\ cmd[c] = "commit"
<1>1. nextId \in Nat /\ txState \in [1..MaxId -> SP!TxStates]
      /\ txId \in [Conns -> 0..MaxId] /\ MaxId \in Nat
  BY TxIds DEF Inv, SP!Inv, SP!HandlerTypes, SP!TxTypes, SP!Ids
<1> USE DEF Server!Forget, Committing
<1>2. CASE Server!BeginTx(c)
  BY <1>1, <1>2 DEF Server!BeginTx
<1>3. CASE \/ Server!LookupDb(c) \/ Server!Register(c) \/ Server!LookupTx(c)
           \/ Server!GetConn(c) \/ Server!StartQuery(c) \/ Server!Prepare(c)
           \/ Server!EndQuery(c) \/ Server!Collect(c)
  BY <1>1, <1>3 DEF Server!LookupDb, Server!Register, Server!LookupTx, Server!GetConn,
     Server!StartQuery, Server!Prepare, Server!EndQuery, Server!Collect
<1>4. CASE Server!TakeTx(c)
  BY <1>1, <1>4 DEF Server!TakeTx
<1>5. CASE Server!StartCommit(c)
  BY <1>1, <1>5 DEF Server!StartCommit
<1>6. CASE Server!EndCommit(c)
  <2>1. txState[txId[c]] = "committing"
    BY <1>6 DEF Server!EndCommit, Inv, SP!Inv, SP!Ownership, SP!HandlerOwns
  <2> QED
    BY <1>1, <1>6, <2>1 DEF Server!EndCommit
<1>7. CASE Server!FinishAbort(c)
  BY <1>1, <1>7 DEF Server!FinishAbort
<1> QED
  BY <1>2, <1>3, <1>4, <1>5, <1>6, <1>7 DEF Server!HandlerStep

\* The transaction of a handler that is not committing it is not committed.
LEMMA NotCommitting ==
  ASSUME Inv, NEW c \in Conns, txId[c] # 0, pc[c] # "committing"
  PROVE  txState[txId[c]] \notin Committing
<1>1. txId[c] \in 1..MaxId
  BY TxIds
<1>2. txState[txId[c]] # "committed"
  BY <1>1 DEF Inv, ConnInv, HandlerInv, SP!Inv, SP!AckedIffCommitted, SP!Ids
<1>3. ASSUME txState[txId[c]] = "committing" PROVE FALSE
  <2>1. \/ txId[c] \in transactions
        \/ SP!TimerFinishes(txId[c])
        \/ \E d \in Conns : \/ pc[d] = "register" /\ txId[d] = txId[c]
                            \/ SP!HandlerFinishes(d, txId[c])
    BY <1>1, <1>3 DEF Inv, SP!Inv, SP!NoTxLeaked, SP!Ids
  <2>2. txId[c] \notin transactions
    BY <1>3 DEF Inv, SP!Inv, SP!LockProtects
  <2>3. ~SP!TimerFinishes(txId[c])
    BY <1>1, <1>3 DEF Inv, SP!Inv, SP!TimerOwns, SP!TimerFinishes, SP!Ids
  <2>4. \A d \in Conns : txId[d] = txId[c] => d = c
    BY DEF Inv, SP!Inv, SP!Ownership, SP!OwnTx
  <2>5. pc[c] \in {"register", "finish", "committing"}
    BY <2>1, <2>2, <2>3, <2>4 DEF SP!HandlerFinishes
  <2> QED
    BY <1>3, <2>5 DEF Inv, SP!Inv, SP!Ownership, SP!HandlerOwns
<1> QED
  BY <1>2, <1>3 DEF Committing

LEMMA WireFacts ==
  ASSUME Inv, NEW c \in Conns, ws[c] = "open"
  PROVE  /\ out[c] # "none" => out[c] = step[c] /\ ~Working(c) /\ reply[c] = "none"
         /\ Working(c) \/ reply[c] # "none" =>
              step[c] \in {"begin", "changeVersion", "exec", "commit", "abort"}
BY DEF Inv, PP!Inv, PP!ConnInv, PP!WireInv, PP!Sent

\* What the handler of an open socket works on, and with which transaction.
LEMMA AtWork ==
  ASSUME Inv, NEW c \in Conns, Server!HandlerStep(c), ws[c] = "open"
  PROVE  /\ Working(c) /\ cmd[c] # "gone" /\ Carries(step[c], cmd[c])
         /\ reply[c] = "none" /\ out[c] = "none"
         /\ cmd[c] = "begin" => step[c] = "begin" /\ BeginInv(c)
                                /\ pc[c] \in {"lookupDb", "beginTx", "register"}
         /\ cmd[c] \in {"exec", "insert", "changeVersion", "setVersion"} =>
              /\ step[c] \in {"exec", "changeVersion"}
              /\ txId[c] # 0 /\ txId[c] = ran[c][current[c]]
         /\ cmd[c] = "commit" => /\ step[c] = "commit" /\ txId[c] # 0
                                 /\ txId[c] = ran[c][current[c]]
         /\ cmd[c] = "abort" => /\ step[c] = "abort"
                                /\ txId[c] = 0 \/ txId[c] = ran[c][current[c]]
<1>1. pc[c] \notin {"off", "reading", "ended", "orphan"}
  BY HandlerEffect DEF Inv, ConnInv
<1>2. CommandInv(c) /\ HandlerInv(c) /\ TxInv(c)
  BY DEF Inv, ConnInv
<1>3. Working(c) /\ cmd[c] # "gone"
  BY <1>1, <1>2 DEF CommandInv, Working
<1>4. Carries(step[c], cmd[c]) /\ reply[c] = "none"
  BY <1>2, <1>3 DEF CommandInv, HandlerInv
<1>5. out[c] = "none"
        /\ step[c] \in {"begin", "changeVersion", "exec", "commit", "abort"}
  BY <1>3, WireFacts
<1>6. cmd[c] = "begin" => step[c] = "begin"
  BY <1>4 DEF Carries
<1>7. cmd[c] \in {"exec", "insert", "changeVersion", "setVersion"} =>
        step[c] \in {"exec", "changeVersion"}
  BY <1>4, <1>5 DEF Carries
<1>8. cmd[c] \in {"commit", "abort"} => step[c] = cmd[c]
  BY <1>4 DEF Carries
<1> QED
  BY <1>2, <1>3, <1>4, <1>5, <1>6, <1>7, <1>8 DEF TxInv, BeginInv, CommitInv

\* The steps that begin a transaction.
LEMMA BeginSteps ==
  ASSUME Inv, NEW c \in Conns, UNCHANGED <<out, pageOnly>>,
         Server!LookupDb(c) \/ Server!BeginTx(c) \/ Server!Register(c)
  PROVE  HandlerInv(c)' /\ CommandInv(c)' /\ TxInv(c)'
<1>1. /\ HandlerInv(c) /\ cmd[c] = "begin" /\ cmd' = cmd /\ acked' = acked
      /\ pc[c] \in {"lookupDb", "beginTx", "register"} /\ ws'[c] = ws[c]
      /\ ws[c] \notin {"new", "connecting"} /\ Server!HandlerStep(c)
  BY DEF Inv, ConnInv, HandlerInv, Server!LookupDb, Server!BeginTx, Server!Register,
     pageOnly, Server!HandlerStep
<1>2. reply[c] = "none"
  BY <1>1 DEF HandlerInv, Working
<1>3. \/ /\ pc[c] = "lookupDb" /\ txId' = txId /\ txId[c] = 0
         /\ \/ pc'[c] = "beginTx" /\ reply'[c] = "none"
            \/ pc'[c] = "orphan" /\ reply'[c] = "error"
      \/ /\ pc[c] = "beginTx" /\ txId'[c] = nextId + 1 /\ nextId < MaxId
         /\ pc'[c] = "register" /\ reply'[c] = "none"
      \/ /\ pc[c] = "beginTx" /\ txId' = txId /\ txId[c] = 0
         /\ pc'[c] = "orphan" /\ reply'[c] = "error"
      \/ /\ pc[c] = "register" /\ txId' = txId /\ txId[c] # 0
         /\ pc'[c] = "reading" /\ reply'[c] = "ok"
  BY <1>2 DEF Server!LookupDb, Server!BeginTx, Server!Register, Server!Goto,
     Server!Answer, Inv, SP!Inv, SP!HandlerTypes, SP!Ownership, SP!HandlerHasTx
<1>4. nextId + 1 \notin acked /\ nextId + 1 # 0
  <2>1. nextId \in Nat /\ MaxId \in Nat
    BY TxIds
  <2>2. ASSUME nextId + 1 \in acked PROVE FALSE
    <3>1. nextId + 1 \in 1..MaxId
      BY <2>2 DEF Inv, SP!Inv, SP!TxTypes, SP!Ids
    <3>2. txState[nextId + 1] = "none"
      BY <2>1, <3>1 DEF Inv, SP!Inv, SP!Names, SP!FreshIds, SP!Ids
    <3> QED
      BY <2>2, <3>1, <3>2 DEF Inv, SP!Inv, SP!AckedIffCommitted, SP!Ids
  <2> QED
    BY <2>1, <2>2
<1>5. HandlerInv(c)'
  BY <1>1, <1>3, <1>4 DEF HandlerInv, Working
<1>6. ASSUME ws[c] = "open" PROVE CommandInv(c)' /\ TxInv(c)'
  <2>1. /\ step[c] = "begin" /\ step'[c] = "begin" /\ out'[c] = "none"
        /\ BeginInv(c) /\ ran' = ran
    BY <1>1, <1>6, AtWork DEF pageOnly
  <2>2. CommandInv(c)'
    BY <1>1, <1>3, <2>1 DEF CommandInv, Carries
  <2>3. \A n \in 1..MaxTasks : ran[c][n] # nextId + 1
    BY TxIds, RanIds
  <2>4. \A n \in 1..MaxTasks : txId'[c] # 0 => ran'[c][n] # txId'[c]
    BY <1>3, <2>1, <2>3 DEF BeginInv
  <2>5. BeginInv(c)'
    BY <1>3, <1>4, <2>1, <2>4 DEF BeginInv, Working
  <2> QED
    BY <2>1, <2>2, <2>5 DEF TxInv
<1> QED
  BY <1>1, <1>5, <1>6 DEF CommandInv, TxInv

\* The steps of a statement.
LEMMA StatementSteps ==
  ASSUME Inv, NEW c \in Conns, UNCHANGED <<out, pageOnly>>,
         \/ Server!LookupTx(c) \/ Server!GetConn(c) \/ Server!StartQuery(c)
         \/ Server!Prepare(c) \/ Server!EndQuery(c) \/ Server!Collect(c)
  PROVE  HandlerInv(c)' /\ CommandInv(c)' /\ TxInv(c)'
<1>1. /\ HandlerInv(c) /\ ws'[c] = ws[c] /\ Server!HandlerStep(c)
      /\ pc[c] \in {"lookupTx", "getConn", "query", "prepare", "rows", "collect"}
      /\ UNCHANGED <<acked, txId>>
  BY DEF Inv, ConnInv, Server!LookupTx, Server!GetConn, Server!StartQuery,
     Server!Prepare, Server!EndQuery, Server!Collect, pageOnly, Server!HandlerStep
<1>2. /\ reply[c] = "none" /\ ws[c] \notin {"new", "connecting"}
      /\ cmd[c] \in {"exec", "insert", "changeVersion", "setVersion"}
  BY <1>1 DEF HandlerInv, Working
<1>3. /\ \/ pc'[c] \in {"getConn", "query", "prepare", "rows", "collect"}
            /\ reply'[c] = "none"
         \/ pc'[c] = "reading"
         \/ pc'[c] = "orphan" /\ reply'[c] = "none"
      /\ \/ cmd'[c] = cmd[c]
         \/ cmd[c] = "changeVersion" /\ cmd'[c] = "setVersion"
  BY <1>2 DEF Server!LookupTx, Server!GetConn, Server!StartQuery, Server!Prepare,
     Server!EndQuery, Server!Collect, Server!Goto, Server!Answer, Inv, SP!Inv,
     SP!HandlerTypes
<1>4. HandlerInv(c)'
  BY <1>1, <1>2, <1>3 DEF HandlerInv, Working
<1>5. ASSUME ws[c] = "open" PROVE CommandInv(c)' /\ TxInv(c)'
  <2>1. /\ step[c] \in {"exec", "changeVersion"} /\ Carries(step[c], cmd[c])
        /\ txId[c] # 0 /\ txId[c] = ran[c][current[c]]
        /\ UNCHANGED <<ran, current, step>>
    BY <1>1, <1>2, <1>5, AtWork DEF pageOnly
  <2>2. CommandInv(c)'
    BY <1>2, <1>3, <2>1 DEF CommandInv, Carries
  <2>3. TxInv(c)'
    BY <1>1, <2>1 DEF TxInv
  <2> QED
    BY <2>2, <2>3
<1> QED
  BY <1>1, <1>4, <1>5 DEF CommandInv, TxInv

\* The steps that end a transaction.
LEMMA TakeStep ==
  ASSUME Inv, NEW c \in Conns, UNCHANGED <<out, pageOnly>>, Server!TakeTx(c)
  PROVE  HandlerInv(c)' /\ CommandInv(c)' /\ TxInv(c)'
<1>1. /\ HandlerInv(c) /\ ws'[c] = ws[c] /\ pc[c] = "take" /\ txId[c] # 0
      /\ UNCHANGED <<acked, cmd, txState>> /\ Server!HandlerStep(c)
  BY DEF Inv, ConnInv, Server!TakeTx, pageOnly, Server!HandlerStep, SP!Inv,
     SP!Ownership, SP!HandlerHasTx
<1>2. /\ cmd[c] \in {"begin", "commit", "abort", "gone"}
      /\ cmd[c] # "gone" => reply[c] = "none"
      /\ ws[c] \notin {"new", "connecting"}
  BY <1>1 DEF HandlerInv, Working
<1>3. \/ pc'[c] = "finish" /\ txId' = txId /\ reply' = reply
      \/ /\ cmd[c] \in {"commit", "abort"} /\ txId'[c] = 0
         /\ pc'[c] = "reading" /\ reply'[c] = "error"
      \/ cmd[c] = "begin" /\ txId'[c] = 0 /\ pc'[c] = "lookupDb" /\ reply' = reply
      \/ cmd[c] = "gone" /\ txId' = txId /\ pc'[c] = "ended" /\ reply' = reply
  BY DEF Server!TakeTx, Server!Goto, Server!Answer, Server!Forget, Inv, SP!Inv,
     SP!HandlerTypes
<1>4. HandlerInv(c)'
  BY <1>1, <1>2, <1>3 DEF HandlerInv, Working
<1>5. ASSUME ws[c] = "open" PROVE CommandInv(c)' /\ TxInv(c)'
  <2>1. /\ cmd[c] \in {"commit", "abort"} /\ step[c] = cmd[c]
        /\ cmd[c] = "commit" => txId[c] = ran[c][current[c]]
        /\ cmd[c] = "abort" => txId[c] = 0 \/ txId[c] = ran[c][current[c]]
        /\ UNCHANGED <<ran, current, step>>
    BY <1>1, <1>2, <1>5, AtWork DEF pageOnly
  <2>2. CommandInv(c)'
    BY <1>3, <2>1, <1>1 DEF CommandInv, Carries
  <2>3. txState'[txId[c]] \notin Committing
    BY <1>1, NotCommitting
  <2>4. step[c] = "commit" => CommitInv(c)'
    BY <1>1, <1>2, <1>3, <2>1, <2>3 DEF CommitInv
  <2>5. TxInv(c)'
    BY <1>2, <1>3, <2>1, <2>4 DEF TxInv
  <2> QED
    BY <2>2, <2>5
<1> QED
  BY <1>1, <1>4, <1>5 DEF CommandInv, TxInv

LEMMA CommitSteps ==
  ASSUME Inv, NEW c \in Conns, UNCHANGED <<out, pageOnly>>,
         Server!StartCommit(c) \/ Server!EndCommit(c)
  PROVE  HandlerInv(c)' /\ CommandInv(c)' /\ TxInv(c)'
<1>1. /\ HandlerInv(c) /\ ws'[c] = ws[c] /\ pc[c] \in {"finish", "committing"}
      /\ txId[c] # 0 /\ cmd' = cmd /\ Server!HandlerStep(c)
  BY DEF Inv, ConnInv, Server!StartCommit, Server!EndCommit, pageOnly,
     Server!HandlerStep, SP!Inv, SP!Ownership, SP!HandlerHasTx
<1>2. /\ cmd[c] = "commit" /\ reply[c] = "none" /\ ws[c] \notin {"new", "connecting"}
  BY <1>1 DEF HandlerInv, Working, Server!StartCommit, Server!EndCommit
<1>3. txId[c] \in 1..MaxId /\ txState \in [1..MaxId -> SP!TxStates]
  BY <1>1, TxIds DEF Inv, SP!Inv, SP!TxTypes, SP!Ids
<1>4. pc[c] = "finish" => txState[txId[c]] = "open"
  BY DEF Inv, SP!Inv, SP!Ownership, SP!HandlerOwns
<1>5. \/ /\ pc'[c] = "committing" /\ txId' = txId /\ reply' = reply /\ acked' = acked
      \/ /\ pc'[c] = "reading" /\ txId'[c] = 0 /\ reply'[c] = "ok"
         /\ txId[c] \in acked'
      \/ /\ pc'[c] = "reading" /\ txId'[c] = 0 /\ reply'[c] = "error"
         /\ txState'[txId[c]] \notin Committing
  <2>1. CASE Server!StartCommit(c)
    BY <1>4, <2>1 DEF Server!StartCommit, Server!Goto, Inv, SP!Inv, SP!HandlerTypes
  <2>2. CASE Server!EndCommit(c)
    BY <1>3, <2>2 DEF Server!EndCommit, Server!Goto, Server!Answer, Server!Forget,
       Committing, Inv, SP!Inv, SP!HandlerTypes
  <2> QED
    BY <2>1, <2>2
<1>6. HandlerInv(c)'
  BY <1>1, <1>2, <1>5 DEF HandlerInv, Working
<1>7. ASSUME ws[c] = "open" PROVE CommandInv(c)' /\ TxInv(c)'
  <2>1. /\ step[c] = "commit" /\ txId[c] = ran[c][current[c]]
        /\ UNCHANGED <<ran, current, step>>
    BY <1>1, <1>2, <1>7, AtWork DEF pageOnly
  <2>2. CommandInv(c)'
    BY <1>1, <1>2, <1>5, <2>1 DEF CommandInv, Carries
  <2>3. CommitInv(c)'
    BY <1>1, <1>2, <1>5, <2>1 DEF CommitInv
  <2>4. TxInv(c)'
    BY <2>1, <2>3 DEF TxInv
  <2> QED
    BY <2>2, <2>4
<1> QED
  BY <1>1, <1>6, <1>7 DEF CommandInv, TxInv

LEMMA AbortStep ==
  ASSUME Inv, NEW c \in Conns, UNCHANGED <<out, pageOnly>>, Server!FinishAbort(c)
  PROVE  HandlerInv(c)' /\ CommandInv(c)' /\ TxInv(c)'
<1>1. /\ HandlerInv(c) /\ ws'[c] = ws[c] /\ pc[c] = "finish" /\ cmd[c] # "commit"
      /\ UNCHANGED <<acked, cmd>> /\ Server!HandlerStep(c)
  BY DEF Inv, ConnInv, Server!FinishAbort, pageOnly, Server!HandlerStep
<1>2. /\ cmd[c] \in {"begin", "abort", "gone"}
      /\ cmd[c] # "gone" => reply[c] = "none"
      /\ ws[c] \notin {"new", "connecting"}
  BY <1>1 DEF HandlerInv, Working
<1>3. \/ /\ cmd[c] = "abort" /\ txId'[c] = 0 /\ pc'[c] = "reading"
      \/ cmd[c] = "begin" /\ txId'[c] = 0 /\ pc'[c] = "lookupDb" /\ reply' = reply
      \/ cmd[c] = "gone" /\ txId' = txId /\ pc'[c] = "ended" /\ reply' = reply
  BY DEF Server!FinishAbort, Server!Goto, Server!Answer, Server!Forget, Inv, SP!Inv,
     SP!HandlerTypes
<1>4. HandlerInv(c)'
  BY <1>1, <1>2, <1>3 DEF HandlerInv, Working
<1>5. ASSUME ws[c] = "open" PROVE CommandInv(c)' /\ TxInv(c)'
  <2>1. cmd[c] = "abort" /\ step[c] = "abort" /\ UNCHANGED <<ran, current, step>>
    BY <1>1, <1>2, <1>5, AtWork DEF pageOnly
  <2>2. CommandInv(c)'
    BY <1>1, <1>3, <2>1 DEF CommandInv, Carries
  <2>3. TxInv(c)'
    BY <1>3, <2>1 DEF TxInv
  <2> QED
    BY <2>2, <2>3
<1> QED
  BY <1>1, <1>4, <1>5 DEF CommandInv, TxInv

\* The current task of an open socket has been told nothing before its end.
LEMMA NotToldYet ==
  ASSUME Inv, NEW c \in Conns, step[c] \notin {"idle", "unloaded", "abort"}
  PROVE  /\ current[c] \in 1..MaxTasks /\ calls[c][current[c]] = <<>>
         /\ ~Succeeded(c, current[c]) /\ ~Failed(c, current[c])
<1>1. current[c] \in 1..MaxTasks
  BY ConnFacts
<1>2. calls[c][current[c]] = <<>>
  BY <1>1 DEF Inv, PP!Inv, PP!ConnInv, PP!TaskInv, PP!CallInv, PP!Tasks
<1> QED
  BY <1>1, <1>2 DEF Succeeded, Failed, ToSet

\* A step that neither commits nor tells anything keeps what was told right.
LEMMA OutcomesKept ==
  ASSUME Inv, NEW d \in Conns, acked \subseteq acked',
         \A n \in 1..MaxTasks :
           Failed(d, n) /\ ran[d][n] # 0 /\ txState'[ran[d][n]] \in Committing =>
             txState[ran[d][n]] \in Committing \/ ws[d] # "open",
         calls'[d] = calls[d], ran'[d] = ran[d],
         ws'[d] = "open" => ws[d] = "open"
  PROVE  OutcomeInv(d)'
BY DEF Inv, ConnInv, OutcomeInv, Succeeded, Failed

LEMMA HandlesStep ==
  ASSUME Inv, NEW c \in Conns, Handles(c) PROVE Inv'
<1>1. Server!HandlerStep(c) /\ UNCHANGED <<out, pageOnly>> /\ Next
  BY DEF Handles, Next
<1>2. PP!Inv' /\ SP!Inv'
  BY <1>1, PartsStep
<1>3. /\ acked \subseteq acked' /\ acked' \subseteq acked \cup {txId[c]}
      /\ nextId <= nextId'
      /\ txId'[c] \in {txId[c], 0} \/ txId'[c] = nextId + 1
      /\ \A k \in 1..MaxId : txState'[k] \in Committing =>
           \/ txState[k] \in Committing
           \/ k = txId[c] /\ pc[c] = "finish" /\ cmd[c] = "commit"
  BY <1>1, HandlerCommits
<1>4. OtherHandlers(c)
  BY <1>1, HandlerEffect DEF Inv, ConnInv
<1>5. nextId \in Nat /\ nextId' \in Nat
  BY <1>2, TxIds, SystemAssumption DEF SP!Inv, SP!RequestTypes
<1>6. ASSUME NEW d \in Conns PROVE IdsKept(d)
  <2> SUFFICES ASSUME NEW n \in 1..MaxTasks, NEW e \in Conns \ {d},
                      ran[d][n] = txId'[e], ran[d][n] # 0
               PROVE  ran[d][n] = txId[e]
    BY <1>3 DEF IdsKept
  <2>1. ran[d][n] \in Nat /\ ran[d][n] <= nextId
    BY RanIds
  <2> QED
    BY <1>3, <1>4, <1>5, <2>1 DEF OtherHandlers
<1>7. ASSUME NEW d \in Conns, d # c PROVE ConnInv(d)'
  <2>1. Idle(d)
    BY <1>1, <1>4, <1>7 DEF Idle, OtherHandlers, pageOnly
  <2>2. txId[d] # 0 => txId[d] # txId[c]
    BY <1>7 DEF Inv, SP!Inv, SP!Ownership, SP!OwnTx
  <2>3. \A n \in 1..MaxTasks : ran[d][n] # 0 => ran[d][n] # txId[c]
    BY <1>7 DEF Inv, ConnInv, RanInv
  <2>4. TxKept(d)
    BY <1>3, <1>6, <2>2, <2>3, RanIds DEF TxKept
  <2> QED
    BY <1>5, <2>1, <2>4, IdleKept
<1>8. HandlerInv(c)' /\ CommandInv(c)' /\ TxInv(c)'
  BY <1>1, BeginSteps, StatementSteps, TakeStep, CommitSteps, AbortStep
     DEF Server!HandlerStep
<1>9. RanInv(c)'
  <2>1. HadTx(c)' = HadTx(c) /\ ran'[c] = ran[c] /\ NotYetOpen(c)' = NotYetOpen(c)
    BY <1>1 DEF HadTx, pageOnly, NotYetOpen
  <2> QED
    BY <1>5, <1>6, <2>1, RanKept DEF Inv, ConnInv
<1>10. OutcomeInv(c)'
  <2>1. ASSUME NEW n \in 1..MaxTasks, Failed(c, n), ran[c][n] # 0, ws[c] = "open",
               ran[c][n] = txId[c], cmd[c] = "commit"
        PROVE  FALSE
    <3>1. step[c] = "commit" /\ txId[c] = ran[c][current[c]]
      BY <1>1, <2>1, AtWork
    <3>2. current[c] \in 1..MaxTasks /\ ~Failed(c, current[c])
      BY <3>1, NotToldYet
    <3>3. n = current[c]
      BY <2>1, <3>1, <3>2 DEF Inv, ConnInv, RanInv
    <3> QED
      BY <2>1, <3>2, <3>3
  <2>2. UNCHANGED <<calls, ran, ws>>
    BY <1>1 DEF pageOnly
  <2> QED
    BY <1>3, <2>1, <2>2, RanIds, OutcomesKept
<1>11. ran' \in [Conns -> [1..MaxTasks -> Nat]]
  BY <1>1 DEF Inv, pageOnly
<1> QED
  BY <1>2, <1>7, <1>8, <1>9, <1>10, <1>11 DEF Inv, ConnInv

-----------------------------------------------------------------------------
(* The wire                                                                *)

\* A step that touches neither transactions nor what their tasks are told.
LEMMA NoTxStep ==
  ASSUME Inv, [Next]_systemVars, NEW c \in Conns,
         UNCHANGED <<txId, acked, txState, nextId, ran, calls>>,
         \A d \in Conns \ {c} : Idle(d),
         ws'[c] = "open" => ws[c] = "open", NotYetOpen(c)' => NotYetOpen(c),
         \A n \in 1..MaxTasks : n > HadTx(c)' => n > HadTx(c),
         HandlerInv(c)' /\ CommandInv(c)' /\ TxInv(c)'
  PROVE  Inv'
<1>1. PP!Inv' /\ SP!Inv'
  BY PartsStep
<1>2. nextId' \in Nat
  BY TxIds
<1>3. ASSUME NEW d \in Conns PROVE TxKept(d)
  BY <1>2 DEF TxKept, IdsKept
<1>4. ASSUME NEW d \in Conns \ {c} PROVE ConnInv(d)'
  BY <1>2, <1>3, IdleKept
<1>5. RanInv(c)'
  BY <1>2, <1>3, RanKept DEF Inv, ConnInv, TxKept
<1>6. OutcomeInv(c)'
  BY OutcomesKept
<1> QED
  BY <1>1, <1>4, <1>5, <1>6 DEF Inv, ConnInv

LEMMA ReceivedStep ==
  ASSUME Inv, NEW c \in Conns, Received(c) PROVE Inv'
<1>1. /\ out[c] # "none" /\ out' = [out EXCEPT ![c] = "none"]
      /\ UNCHANGED pageOnly /\ Next
  BY DEF Received, Next
<1>2. PICK m : /\ IF out[c] = "exec" THEN m \in {"exec", "insert"} ELSE m = out[c]
               /\ Server!Receive(c, m)
  BY DEF Received
<1>3. /\ pc[c] = "reading" /\ reply[c] = "none" /\ cmd' = [cmd EXCEPT ![c] = m]
      /\ OtherHandlers(c) /\ UNCHANGED <<txId, acked, txState, nextId>>
      /\ cmd'[c] = m
      /\ \/ /\ m = "begin" /\ reply' = reply
            /\ pc'[c] = IF txId[c] # 0 THEN "take" ELSE "lookupDb"
         \/ /\ m # "begin" /\ (txId[c] = 0 \/ m = "exec")
            /\ pc'[c] = "reading" /\ reply'[c] = "error"
         \/ /\ m \in {"exec", "insert", "changeVersion"} /\ txId[c] # 0
            /\ pc'[c] = "lookupTx" /\ reply' = reply
         \/ /\ m \in {"commit", "abort"} /\ txId[c] # 0
            /\ pc'[c] = "take" /\ reply' = reply
  BY <1>2 DEF Server!Receive, Server!Goto, Server!Answer, OtherHandlers, Inv, SP!Inv,
     SP!HandlerTypes
<1>4. out[c] \in {"begin", "changeVersion", "exec", "commit", "abort"}
      /\ out'[c] = "none"
  BY <1>1 DEF Inv, PP!Inv, PP!Shape, PP!Sent
<1>5. HandlerInv(c) /\ CommandInv(c) /\ TxInv(c) /\ m # "gone"
  BY <1>2, <1>4 DEF Inv, ConnInv
<1>6. ws[c] \notin {"new", "connecting"} /\ ws'[c] = ws[c]
  BY <1>1, <1>3, <1>5 DEF HandlerInv, pageOnly
<1>7. HandlerInv(c)'
  BY <1>3, <1>5, <1>6 DEF HandlerInv, Working
<1>8. ASSUME ws[c] = "open" PROVE CommandInv(c)' /\ TxInv(c)'
  <2>1. step[c] = out[c] /\ UNCHANGED <<step, ran, current>>
    BY <1>1, <1>8, WireFacts DEF pageOnly
  <2>2. Carries(step[c], m)
    BY <1>2, <2>1 DEF Carries
  <2>3. CommandInv(c)'
    BY <1>3, <1>5, <2>1, <2>2 DEF CommandInv
  <2>4. ASSUME step[c] = "begin" PROVE TxInv(c)'
    <3>1. txId[c] = 0 /\ m = "begin"
      BY <1>2, <1>5, <1>8, <2>1, <2>4 DEF TxInv, BeginInv
    <3>2. BeginInv(c)'
      BY <1>3, <1>4, <3>1 DEF BeginInv, Working
    <3> QED
      BY <2>1, <2>4, <3>2 DEF TxInv
  <2>5. ASSUME step[c] \in {"changeVersion", "exec"} PROVE TxInv(c)'
    BY <1>3, <1>5, <1>8, <2>1, <2>5 DEF TxInv
  <2>6. ASSUME step[c] = "commit" PROVE TxInv(c)'
    <3>1. m = "commit" /\ CommitInv(c)
      BY <1>2, <1>5, <1>8, <2>1, <2>6 DEF TxInv
    <3>2. CommitInv(c)'
      BY <1>3, <2>1, <3>1 DEF CommitInv
    <3> QED
      BY <2>1, <2>6, <3>2 DEF TxInv
  <2>7. ASSUME step[c] = "abort" PROVE TxInv(c)'
    <3>1. m = "abort"
      BY <1>2, <2>1, <2>7
    <3> QED
      BY <1>3, <1>5, <1>8, <2>1, <2>7, <3>1 DEF TxInv
  <2> QED
    BY <1>4, <2>1, <2>3, <2>4, <2>5, <2>6, <2>7
<1>9. CommandInv(c)' /\ TxInv(c)'
  BY <1>6, <1>8 DEF CommandInv, TxInv
<1>10. \A d \in Conns \ {c} : Idle(d)
  BY <1>1, <1>3 DEF Idle, OtherHandlers, pageOnly, Inv, PP!Inv, PP!Shape
<1>11. HadTx(c)' = HadTx(c) /\ UNCHANGED <<ran, calls>>
  BY <1>1 DEF HadTx, pageOnly
<1> QED
  BY <1>1, <1>3, <1>6, <1>7, <1>9, <1>10, <1>11, NoTxStep DEF NotYetOpen

LEMMA HangupStep ==
  ASSUME Inv, NEW c \in Conns, Hangup(c) PROVE Inv'
<1>1. /\ ws[c] \in {"closed", "failed"} /\ UNCHANGED <<out, pageOnly>> /\ Next
      /\ pc[c] = "reading" /\ cmd' = [cmd EXCEPT ![c] = "gone"]
      /\ pc' = [pc EXCEPT ![c] = IF txId[c] # 0 THEN "take" ELSE "ended"]
      /\ UNCHANGED <<txId, acked, txState, nextId, reply>>
  BY DEF Hangup, Server!Disconnect, Server!Goto, Next
<1>2. /\ cmd'[c] = "gone" /\ pc'[c] \in {"take", "ended"}
      /\ \A d \in Conns \ {c} : pc'[d] = pc[d] /\ cmd'[d] = cmd[d]
  BY <1>1 DEF Inv, SP!Inv, SP!HandlerTypes
<1>3. UNCHANGED <<ws, ran, calls, step, current, finished>>
  BY <1>1 DEF pageOnly
<1>4. HandlerInv(c)'
  BY <1>1, <1>2, <1>3 DEF HandlerInv, Working, Inv, ConnInv
<1>5. CommandInv(c)' /\ TxInv(c)'
  BY <1>1, <1>3 DEF CommandInv, TxInv
<1>6. \A d \in Conns \ {c} : Idle(d)
  BY <1>1, <1>2, <1>3 DEF Idle
<1>7. HadTx(c)' = HadTx(c)
  BY <1>3 DEF HadTx
<1> QED
  BY <1>1, <1>3, <1>4, <1>5, <1>6, <1>7, NoTxStep DEF NotYetOpen

LEMMA RefusedStep ==
  ASSUME Inv, NEW c \in Conns, Refused(c) PROVE Inv'
<1>1. /\ ws[c] = "connecting" /\ ws' = [ws EXCEPT ![c] = "failed"] /\ Next
      /\ UNCHANGED <<serverOnly, out, reply, step, current, calls, finished, ran>>
  BY DEF Refused, Page!Refuse, Page!queueVars, Next
<1>2. UNCHANGED <<pc, cmd, txId, acked, txState, nextId>>
  BY <1>1 DEF serverOnly
<1>3. ws'[c] = "failed" /\ \A d \in Conns \ {c} : ws'[d] = ws[d]
  BY <1>1 DEF Inv, PP!Inv, PP!Shape
<1>4. HandlerInv(c)'
  BY <1>1, <1>2, <1>3 DEF HandlerInv, Working, Inv, ConnInv
<1>5. CommandInv(c)' /\ TxInv(c)'
  BY <1>3 DEF CommandInv, TxInv
<1>6. \A d \in Conns \ {c} : Idle(d)
  BY <1>1, <1>2, <1>3 DEF Idle
<1>7. HadTx(c)' = HadTx(c)
  BY <1>1 DEF HadTx
<1> QED
  BY <1>1, <1>2, <1>3, <1>4, <1>5, <1>6, <1>7, NoTxStep DEF NotYetOpen

LEMMA UpgradedStep ==
  ASSUME Inv, NEW c \in Conns, Upgraded(c) PROVE Inv'
<1>1. /\ ws[c] = "connecting" /\ ws' = [ws EXCEPT ![c] = "open"] /\ Next
      /\ pc[c] = "off" /\ pc' = [pc EXCEPT ![c] = "reading"]
      /\ UNCHANGED <<out, reply, step, current, calls, finished, ran>>
      /\ UNCHANGED <<cmd, txId, acked, txState, nextId>>
  BY DEF Upgraded, Page!Accept, Page!queueVars, Server!Connect, Server!Goto, Next
<1>2. /\ ws'[c] = "open" /\ pc'[c] = "reading"
      /\ \A d \in Conns \ {c} : ws'[d] = ws[d] /\ pc'[d] = pc[d]
  BY <1>1 DEF Inv, PP!Inv, PP!Shape, SP!Inv, SP!HandlerTypes
<1>3. PP!Inv' /\ SP!Inv' /\ nextId' \in Nat
  BY <1>1, PartsStep, TxIds
<1>4. ASSUME NEW d \in Conns PROVE TxKept(d)
  BY <1>1, <1>3 DEF TxKept, IdsKept
<1>5. ASSUME NEW d \in Conns \ {c} PROVE ConnInv(d)'
  <2>1. Idle(d)
    BY <1>1, <1>2 DEF Idle
  <2> QED
    BY <1>3, <1>4, <2>1, IdleKept
<1>6. txId[c] = 0 /\ cmd[c] = "none" /\ out[c] = "none" /\ reply[c] = "none"
  BY <1>1 DEF Inv, ConnInv, HandlerInv, PP!Inv, PP!ConnInv, PP!WireInv
<1>7. step[c] \in {"idle", "posted", "connect"}
  BY <1>1 DEF Inv, PP!Inv, PP!ConnInv, PP!WireInv, PP!Shape, PP!Steps, PP!Sent
<1>8. HandlerInv(c)' /\ CommandInv(c)' /\ TxInv(c)'
  BY <1>1, <1>2, <1>6, <1>7 DEF HandlerInv, CommandInv, TxInv, Working
<1>9. RanInv(c)'
  <2>1. HadTx(c)' = HadTx(c)
    BY <1>1 DEF HadTx
  <2> QED
    BY <1>1, <1>2, <1>3, <1>4, <2>1, RanKept DEF Inv, ConnInv, TxKept, NotYetOpen
<1>10. OutcomeInv(c)'
  <2>1. \A n \in 1..MaxTasks : ran[c][n] = 0
    BY <1>1 DEF Inv, ConnInv, RanInv, NotYetOpen
  <2> QED
    BY <1>1, <2>1 DEF Inv, ConnInv, OutcomeInv, Succeeded, Failed
<1> QED
  BY <1>1, <1>3, <1>5, <1>8, <1>9, <1>10 DEF Inv, ConnInv

-----------------------------------------------------------------------------
(* What a page does to its task                                            *)

TxSteps == {"changeVersion", "exec", "commit", "abort", "unloaded"}
SentSteps == {"begin", "changeVersion", "exec", "commit", "abort"}

\* The task of c and what its page was told, in a step of another object.
OtherPages(c) ==
  \A d \in Conns \ {c} :
    /\ out'[d] = out[d] /\ step'[d] = step[d] /\ current'[d] = current[d]
    /\ calls'[d] = calls[d] /\ finished'[d] = finished[d]

Same(c) == current'[c] = current[c] /\ finished'[c] = finished[c]
Ends(c) == /\ step'[c] \in {"idle", "posted"}
           /\ finished'[c] = Append(finished[c], current[c])
Told(c, how) ==
  /\ calls'[c][current[c]] = <<how>>
  /\ \A n \in 1..MaxTasks : n # current[c] => calls'[c][n] = calls[c][n]
LEMMA PageTypes ==
  ASSUME Inv
  PROVE  /\ Conns = DOMAIN ws /\ Conns = DOMAIN out /\ Conns = DOMAIN step
         /\ Conns = DOMAIN current /\ Conns = DOMAIN finished /\ Conns = DOMAIN calls
         /\ Conns = DOMAIN reply
         /\ \A c \in Conns : /\ step[c] \in {"idle", "posted", "connect", "unloaded"}
                                              \cup SentSteps
                             /\ out[c] \in SentSteps \cup {"none"}
                             /\ ws[c] \in {"new", "connecting", "open", "failed",
                                           "closed"}
BY DEF Inv, PP!Inv, PP!Shape, PP!Steps, PP!Sent, PP!Sockets, SentSteps

LEMMA SettleTells ==
  ASSUME Inv, NEW c \in Conns, step[c] \notin {"idle", "unloaded", "abort"},
         NEW how \in {"success", "error"}, Page!Settle(c, how)
  PROVE  /\ Told(c, how) /\ \A d \in Conns \ {c} : calls'[d] = calls[d]
<1>1. PP!PageAssumption /\ PP!Settle(c, how) /\ how \in PP!Outcomes
  BY SystemAssumption DEF PP!PageAssumption, Page!Settle, PP!Settle, PP!Outcomes
<1>2. current[c] \in 1..MaxTasks
  BY ConnFacts
<1>3. /\ \A d \in Conns \ {c} : calls'[d] = calls[d]
      /\ calls'[c] = [calls[c] EXCEPT ![current[c]] = <<how>>]
      /\ \A n \in PP!Tasks : n # current[c] => calls'[c][n] = calls[c][n]
  BY <1>1, PP!SettleResult DEF Inv
<1>4. calls[c] \in [1..MaxTasks -> Seq(PP!Outcomes)]
  BY DEF Inv, PP!Inv, PP!Shape, PP!Tasks
<1> QED
  BY <1>2, <1>3, <1>4 DEF Told, PP!Tasks

LEMMA FinishEnds ==
  ASSUME Inv, NEW c \in Conns, NEW queue, Page!Finish(c, queue)
  PROVE  /\ Ends(c)
         /\ \A d \in Conns \ {c} : /\ finished'[d] = finished[d]
                                   /\ current'[d] = current[d] /\ step'[d] = step[d]
<1>1. finished' = [finished EXCEPT ![c] = Append(finished[c], current[c])]
  BY DEF Page!Finish
<1>2. \/ /\ current' = [current EXCEPT ![c] = 0]
         /\ step' = [step EXCEPT ![c] = "idle"]
      \/ /\ current' = [current EXCEPT ![c] = Head(queue)]
         /\ step' = [step EXCEPT ![c] = "posted"]
  BY DEF Page!Finish
<1> QED
  BY <1>1, <1>2, PageTypes DEF Ends

LEMMA FailEffect ==
  ASSUME Inv, NEW c \in Conns, step[c] \notin {"idle", "unloaded", "abort"},
         NEW open \in BOOLEAN, Page!Fail(c, open)
  PROVE  /\ Told(c, "error") /\ OtherPages(c)
         /\ open => step'[c] = "abort" /\ Same(c)
         /\ ~open => Ends(c) /\ out' = out
<1>1. Told(c, "error") /\ \A d \in Conns \ {c} : calls'[d] = calls[d]
  BY SettleTells DEF Page!Fail
<1>2. CASE open
  BY <1>1, <1>2, PageTypes DEF Page!Fail, Page!Say, OtherPages, Same
<1>3. CASE ~open
  BY <1>1, <1>3, FinishEnds DEF Page!Fail, OtherPages
<1> QED
  BY <1>1, <1>2, <1>3

LEMMA AdvanceEffect ==
  ASSUME Inv, NEW c \in Conns, ws[c] = "open", NEW m \in SentSteps, Page!Advance(c, m)
  PROVE  step'[c] = m /\ out'[c] = m /\ Same(c) /\ calls' = calls /\ OtherPages(c)
BY PageTypes DEF Page!Advance, Page!Say, OtherPages, Same

\* What a page makes of an answer.
LEMMA AnsweredEffect ==
  ASSUME Inv, NEW c \in Conns, Page!Answered(c)
  PROVE  /\ ws[c] = "open" /\ ws' = ws /\ reply[c] # "none" /\ OtherPages(c)
         /\ reply' = [reply EXCEPT ![c] = "none"]
         /\ \/ /\ step[c] \in {"begin", "changeVersion", "exec"}
               /\ step[c] = "begin" => reply[c] = "ok"
               /\ step'[c] \in {"changeVersion", "exec", "commit"}
               /\ Same(c) /\ calls' = calls
            \/ /\ step[c] \in {"begin", "changeVersion", "exec", "commit"}
               /\ step[c] = "commit" => reply[c] = "error"
               /\ step'[c] = "abort" /\ Same(c) /\ Told(c, "error")
            \/ /\ step[c] = "commit" /\ reply[c] = "ok"
               /\ Ends(c) /\ Told(c, "success")
            \/ step[c] = "abort" /\ Ends(c) /\ calls' = calls
<1>1. /\ ws[c] = "open" /\ ws' = ws /\ reply[c] # "none"
      /\ reply' = [reply EXCEPT ![c] = "none"]
  BY DEF Page!Answered
<1>2. ASSUME Page!Fail(c, TRUE), step[c] \in SentSteps \ {"abort"}
      PROVE  step'[c] = "abort" /\ Same(c) /\ Told(c, "error") /\ OtherPages(c)
  <2>1. step[c] \notin {"idle", "unloaded", "abort"} /\ TRUE \in BOOLEAN
    BY <1>2 DEF SentSteps
  <2> QED
    BY <1>2, <2>1, FailEffect
<1>3. ASSUME NEW m \in {"changeVersion", "exec", "commit"}, Page!Advance(c, m)
      PROVE  /\ step'[c] \in {"changeVersion", "exec", "commit"}
             /\ Same(c) /\ calls' = calls /\ OtherPages(c)
  BY <1>1, <1>3, AdvanceEffect DEF SentSteps
<1>4. ASSUME Page!Callback(c), step[c] \in SentSteps \ {"abort"}
      PROVE  /\ OtherPages(c) /\ Same(c)
             /\ \/ step'[c] \in {"changeVersion", "exec", "commit"} /\ calls' = calls
                \/ step'[c] = "abort" /\ Told(c, "error")
  <2>1. Page!Advance(c, "exec") \/ Page!Advance(c, "commit") \/ Page!Fail(c, TRUE)
    BY <1>4 DEF Page!Callback, Page!NextStatement
  <2> QED
    BY <1>2, <1>3, <1>4, <2>1
<1>5. ASSUME Page!AfterCommit(c), step[c] = "commit"
      PROVE  Ends(c) /\ Told(c, "success") /\ OtherPages(c)
  <2>1. Page!Settle(c, "success") /\ Page!Finish(c, pending[c]) /\ out' = out
    BY <1>5 DEF Page!AfterCommit
  <2> QED
    BY <1>5, <2>1, SettleTells, FinishEnds DEF OtherPages
<1>6. ASSUME Page!Finish(c, pending[c]), out' = out, calls' = calls
      PROVE  Ends(c) /\ OtherPages(c)
  BY <1>6, FinishEnds DEF OtherPages
<1>7. reply[c] \in {"ok", "error"}
  BY <1>1, ConnFacts
<1>8. CASE step[c] = "begin" /\ reply[c] = "ok" /\ Page!Advance(c, "changeVersion")
  BY <1>1, <1>3, <1>8
<1>9. CASE /\ step[c] \in {"begin", "changeVersion", "exec"}
           /\ step[c] = "begin" => reply[c] = "ok"
           /\ Page!Callback(c)
  BY <1>1, <1>4, <1>9 DEF SentSteps
<1>10. CASE step[c] = "commit" /\ reply[c] = "ok" /\ Page!AfterCommit(c)
  BY <1>1, <1>5, <1>10
<1>11. CASE /\ step[c] \in {"begin", "changeVersion", "commit"}
            /\ reply[c] = "error" /\ Page!Fail(c, TRUE)
  BY <1>1, <1>2, <1>11 DEF SentSteps
<1>12. CASE /\ step[c] = "abort" /\ Page!Finish(c, pending[c])
            /\ UNCHANGED <<out, calls>>
  BY <1>1, <1>6, <1>12
<1> QED
  BY <1>8, <1>9, <1>10, <1>11, <1>12 DEF Page!Answered

\* What a page does on its own, and what the close of its socket makes of a
\* task: no command but a first begin is sent on a socket that stays open, and
\* only a task without a transaction is told that it failed.
Unanswered(c) ==
  /\ OtherPages(c)
  /\ ws'[c] = "open" => ws[c] = "open"
  /\ NotYetOpen(c)' => NotYetOpen(c)
  /\ \A d \in Conns \ {c} : ws'[d] = ws[d]
  /\ ws'[c] = "open" /\ step[c] \in SentSteps =>
       step'[c] = step[c] /\ out'[c] = out[c] /\ current'[c] = current[c]
  /\ ws'[c] = "open" /\ step[c] \notin SentSteps =>
       \/ step'[c] \in {"idle", "posted", "connect"}
       \/ step'[c] = "begin" /\ Same(c)
  /\ \/ Ends(c)
     \/ finished'[c] = finished[c] /\ (step[c] \in TxSteps => step'[c] \in TxSteps)
  /\ \/ calls'[c] = calls[c]
     \/ /\ Told(c, "error") /\ step[c] \notin {"idle", "unloaded", "abort"}
        /\ step[c] \in {"posted", "connect"} \/ ws'[c] # "open"

LEMMA UnansweredSteps ==
  ASSUME Inv, NEW c \in Conns,
         \/ Page!Tick(c) \/ Page!RunTx(c) \/ Page!NewDb(c) \/ Page!UserCalls(c)
         \/ Page!UserSql(c) \/ Page!Unload(c)
  PROVE  Unanswered(c) /\ reply' = reply
<1> USE PageTypes DEF Unanswered, OtherPages, Same, NotYetOpen, TxSteps, SentSteps,
        Page!queueVars, Page!sqlVars, Page!Running
<1>1. CASE Page!Tick(c)
  <2>1. /\ \/ UNCHANGED <<current, step>>
           \/ /\ step[c] = "idle" /\ step' = [step EXCEPT ![c] = "posted"]
              /\ current' = [current EXCEPT ![c] = Head(pending[c])]
        /\ UNCHANGED <<ws, out, reply, calls, finished>>
    BY <1>1 DEF Page!Tick
  <2>2. /\ \/ step'[c] = step[c] /\ current'[c] = current[c]
           \/ step[c] = "idle" /\ step'[c] = "posted"
        /\ \A d \in Conns \ {c} : step'[d] = step[d] /\ current'[d] = current[d]
    BY <2>1
  <2>3. OtherPages(c)
    BY <2>1, <2>2
  <2>4. step[c] \notin SentSteps /\ ws[c] = "open" =>
          step[c] \in {"idle", "posted", "connect"}
    BY DEF Inv, PP!Inv, PP!ConnInv, PP!WireInv
  <2> QED
    BY <2>1, <2>2, <2>3, <2>4
<1>2. CASE Page!RunTx(c)
  BY <1>2 DEF Page!RunTx
<1>3. CASE Page!NewDb(c)
  <2>1. ws[c] = "new" /\ ws' = [ws EXCEPT ![c] = "connecting"]
        /\ UNCHANGED <<out, reply, current, step, calls, finished>>
    BY <1>3 DEF Page!NewDb
  <2> QED
    BY <2>1
<1>4. CASE Page!UserCalls(c)
  BY <1>4 DEF Page!UserCalls
<1>5. CASE Page!UserSql(c)
  BY <1>5 DEF Page!UserSql
<1>6. CASE Page!Unload(c)
  BY <1>6 DEF Page!Unload
<1> QED
  BY <1>1, <1>2, <1>3, <1>4, <1>5, <1>6

LEMMA UnansweredEnds ==
  ASSUME Inv, NEW c \in Conns,
         \/ Page!RunCreation(c) \/ Page!RunForced(c) \/ Page!Connected(c)
         \/ Page!SocketClosed(c)
  PROVE  Unanswered(c) /\ reply' = reply
<1> USE DEF Unanswered, NotYetOpen, SentSteps
<1>1. CASE Page!RunCreation(c)
  <2>1. PICK queue : Page!Finish(c, queue)
    BY <1>1 DEF Page!RunCreation
  <2>2. /\ step[c] = "posted" /\ UNCHANGED <<ws, out, reply, calls>>
    BY <1>1 DEF Page!RunCreation
  <2> QED
    BY <2>1, <2>2, FinishEnds DEF OtherPages, Ends
<1>2. CASE Page!RunForced(c)
  <2>1. /\ step[c] = "posted" /\ UNCHANGED <<ws, out, reply>>
        /\ Page!Settle(c, "error") /\ Page!Finish(c, pending[c])
    BY <1>2 DEF Page!RunForced
  <2> QED
    BY <2>1, SettleTells, FinishEnds DEF OtherPages, Ends
<1>3. CASE Page!Connected(c)
  <2>1. /\ step[c] = "connect" /\ UNCHANGED <<ws, reply>>
        /\ \/ ws[c] = "open" /\ Page!Advance(c, "begin")
           \/ ws[c] # "open" /\ Page!Fail(c, FALSE)
    BY <1>3 DEF Page!Connected, Page!Advance
  <2>2. CASE ws[c] = "open" /\ Page!Advance(c, "begin")
    <3>1. step'[c] = "begin" /\ Same(c) /\ calls' = calls /\ OtherPages(c)
      BY <2>2, AdvanceEffect
    <3> QED
      BY <2>1, <3>1 DEF Same, TxSteps
  <2>3. CASE ws[c] # "open" /\ Page!Fail(c, FALSE)
    <3>1. Told(c, "error") /\ OtherPages(c) /\ Ends(c)
      BY <2>1, <2>3, FailEffect
    <3> QED
      BY <2>1, <2>3, <3>1
  <2> QED
    BY <2>1, <2>2, <2>3
<1>4. CASE Page!SocketClosed(c)
  <2>1. /\ ws[c] = "open" /\ ws'[c] = "closed" /\ reply' = reply
        /\ \A d \in Conns \ {c} : ws'[d] = ws[d]
    BY <1>4, PageTypes DEF Page!SocketClosed
  <2>2. CASE step[c] \in SentSteps \ {"abort"} /\ Page!Fail(c, FALSE)
    <3>1. step[c] \notin {"idle", "unloaded", "abort"}
      BY <2>2
    <3>2. Told(c, "error") /\ OtherPages(c) /\ Ends(c)
      BY <2>2, <3>1, FailEffect
    <3> QED
      BY <2>1, <3>1, <3>2
  <2>3. CASE step[c] = "abort" /\ Page!Finish(c, pending[c]) /\ UNCHANGED <<out, calls>>
    BY <2>1, <2>3, FinishEnds DEF OtherPages
  <2>4. CASE UNCHANGED <<out, calls, pending, current, finished, step>>
    BY <2>1, <2>4 DEF OtherPages
  <2> QED
    BY <1>4, <2>2, <2>3, <2>4 DEF Page!SocketClosed, Page!Sent
<1> QED
  BY <1>1, <1>2, <1>3, <1>4

-----------------------------------------------------------------------------
(* The pages                                                               *)

LEMMA HadTxGrows ==
  ASSUME Inv, NEW c \in Conns,
         \/ finished'[c] = Append(finished[c], current[c])
         \/ finished'[c] = finished[c] /\ (step[c] \in TxSteps => step'[c] \in TxSteps)
  PROVE  HadTx(c)' \in Nat /\ HadTx(c) <= HadTx(c)'
<1>1. PICK m \in Nat : m = Len(finished[c])
  BY ConnFacts
<1>2. HadTx(c) = IF step[c] \in TxSteps THEN m + 1 ELSE m + 0
  BY <1>1 DEF HadTx, TxSteps
<1>3. CASE finished'[c] = Append(finished[c], current[c])
  <2>1. finished[c] \in Seq(Nat) /\ current[c] \in Nat
    BY DEF Inv, PP!Inv, PP!Shape
  <2>2. Len(finished'[c]) = m + 1
    BY <1>1, <1>3, <2>1
  <2>3. HadTx(c)' = (m + 1) + 1 \/ HadTx(c)' = (m + 1) + 0
    BY <2>2 DEF HadTx
  <2> QED
    BY <1>2, <2>3
<1>4. CASE finished'[c] = finished[c] /\ (step[c] \in TxSteps => step'[c] \in TxSteps)
  <2>1. HadTx(c)' = IF step'[c] \in TxSteps THEN m + 1 ELSE m + 0
    BY <1>1, <1>4 DEF HadTx, TxSteps
  <2> QED
    BY <1>2, <1>4, <2>1
<1> QED
  BY <1>3, <1>4

\* A task that has not begun a transaction has noted none.
LEMMA NoTxYet ==
  ASSUME Inv, NEW c \in Conns, step[c] \in {"posted", "connect", "begin"}
  PROVE  current[c] \in 1..MaxTasks /\ ran[c][current[c]] = 0
<1>1. PICK m \in Nat : m = Len(finished[c])
  BY ConnFacts
<1>2. current[c] \in 1..MaxTasks /\ current[c] = m + 1
  BY <1>1, ConnFacts
<1>3. HadTx(c) = m + 0
  BY <1>1 DEF HadTx
<1> QED
  BY <1>2, <1>3 DEF Inv, ConnInv, RanInv

\* The step of a page, when its own part of the invariant is kept.
LEMMA PageMoved ==
  ASSUME Inv, [Next]_systemVars, NEW c \in Conns, UNCHANGED serverOnly, OtherPages(c),
         \A d \in Conns \ {c} : ws'[d] = ws[d] /\ reply'[d] = reply[d] /\ ran'[d] = ran[d],
         ran' \in [Conns -> [1..MaxTasks -> Nat]],
         ConnInv(c)'
  PROVE  Inv'
<1>1. PP!Inv' /\ SP!Inv'
  BY PartsStep
<1>2. UNCHANGED <<pc, cmd, txId, acked, txState, nextId>>
  BY DEF serverOnly
<1>3. nextId' \in Nat /\ nextId <= nextId'
  BY <1>2, TxIds
<1>4. ASSUME NEW d \in Conns \ {c} PROVE ConnInv(d)'
  <2>1. Idle(d)
    BY <1>2 DEF Idle, OtherPages
  <2>2. TxKept(d)
    BY <1>2, <1>3 DEF TxKept, IdsKept
  <2> QED
    BY <1>3, <2>1, <2>2, IdleKept
<1> QED
  BY <1>1, <1>4 DEF Inv

LEMMA UnansweredKeeps ==
  ASSUME Inv, [Next]_systemVars, NEW c \in Conns, Unanswered(c),
         UNCHANGED <<serverOnly, reply, ran>>
  PROVE  Inv'
<1>1. UNCHANGED <<pc, cmd, txId, acked, txState, nextId>>
  BY DEF serverOnly
<1>2. HandlerInv(c) /\ CommandInv(c) /\ TxInv(c) /\ RanInv(c) /\ OutcomeInv(c)
  BY DEF Inv, ConnInv
<1>3. HandlerInv(c)'
  BY <1>1, <1>2 DEF HandlerInv, Working, Unanswered, NotYetOpen
<1>4. ASSUME ws'[c] = "open"
      PROVE  /\ ws[c] = "open"
             /\ \/ /\ step[c] \in SentSteps /\ step'[c] = step[c] /\ out'[c] = out[c]
                   /\ current'[c] = current[c]
                \/ /\ step[c] \in {"idle", "posted", "connect"}
                   /\ ~Working(c) /\ reply[c] = "none" /\ txId[c] = 0
                   /\ step'[c] \in {"idle", "posted", "connect", "begin"}
  <2>1. ws[c] = "open"
    BY <1>4 DEF Unanswered
  <2>2. step[c] # "unloaded"
    BY <2>1 DEF Inv, PP!Inv, PP!ConnInv, PP!WireInv
  <2>3. ASSUME step[c] \notin SentSteps
        PROVE  /\ step[c] \in {"idle", "posted", "connect"}
               /\ ~Working(c) /\ reply[c] = "none"
    BY <2>1, <2>2, <2>3, PageTypes, WireFacts DEF SentSteps
  <2> QED
    BY <1>2, <1>4, <2>1, <2>3 DEF Unanswered, TxInv
<1>5. CommandInv(c)'
  BY <1>1, <1>2, <1>4 DEF CommandInv, Working
<1>6. TxInv(c)'
  <2> SUFFICES ASSUME ws'[c] = "open" PROVE TxInv(c)'
    BY DEF TxInv
  <2>1. CASE /\ step[c] \in SentSteps /\ step'[c] = step[c] /\ out'[c] = out[c]
             /\ current'[c] = current[c]
    <3>1. BeginInv(c) => BeginInv(c)'
      BY <1>1, <2>1 DEF BeginInv, Working
    <3>2. CommitInv(c) => CommitInv(c)'
      BY <1>1, <2>1 DEF CommitInv
    <3> QED
      BY <1>1, <1>2, <1>4, <2>1, <3>1, <3>2 DEF TxInv, SentSteps
  <2>2. CASE /\ ~Working(c) /\ reply[c] = "none" /\ txId[c] = 0
             /\ step'[c] \in {"idle", "posted", "connect", "begin"}
    <3>1. BeginInv(c)'
      BY <1>1, <2>2 DEF BeginInv, Working
    <3> QED
      BY <1>1, <2>2, <3>1 DEF TxInv
  <2> QED
    BY <1>4, <2>1, <2>2
<1>7. RanInv(c)'
  <2>1. HadTx(c)' \in Nat /\ HadTx(c) <= HadTx(c)' /\ HadTx(c) \in Nat
    BY HadTxGrows, ConnFacts DEF Unanswered, Ends
  <2>2. \A n \in 1..MaxTasks : n > HadTx(c)' => n > HadTx(c)
    BY <2>1
  <2>3. nextId' \in Nat /\ IdsKept(c)
    BY <1>1, TxIds DEF IdsKept
  <2> QED
    BY <1>2, <2>2, <2>3, RanKept DEF Unanswered
<1>8. OutcomeInv(c)'
  <2>1. CASE calls'[c] = calls[c]
    BY <1>1, <2>1, OutcomesKept DEF Unanswered
  <2>2. CASE /\ Told(c, "error") /\ step[c] \notin {"idle", "unloaded", "abort"}
             /\ step[c] \in {"posted", "connect"} \/ ws'[c] # "open"
    <3>1. "success" \notin ToSet(calls'[c][current[c]])
      <4>1. "success" \notin ToSet(<<"error">>)
        BY DEF ToSet
      <4> QED
        BY <2>2, <4>1 DEF Told
    <3>2. ws'[c] = "open" => ran[c][current[c]] = 0
      BY <2>2, NoTxYet
    <3>3. \A n \in 1..MaxTasks : n # current[c] => calls'[c][n] = calls[c][n]
      BY <2>2 DEF Told
    <3>4. ASSUME NEW n \in 1..MaxTasks, "success" \in ToSet(calls'[c][n])
          PROVE  Succeeded(c, n)
      BY <3>1, <3>3, <3>4 DEF Succeeded
    <3>5. ASSUME NEW n \in 1..MaxTasks, "error" \in ToSet(calls'[c][n]),
                 ran[c][n] # 0, ws'[c] = "open"
          PROVE  Failed(c, n) /\ ws[c] = "open"
      BY <3>2, <3>3, <3>5 DEF Failed, Unanswered
    <3> QED
      BY <1>1, <1>2, <3>4, <3>5 DEF OutcomeInv, Succeeded, Failed
  <2> QED
    BY <2>1, <2>2 DEF Unanswered
<1> QED
  BY <1>3, <1>5, <1>6, <1>7, <1>8, PageMoved DEF ConnInv, Unanswered, Inv

\* The task of c when it reads an answer: the handler is at rest and has a
\* transaction only if it is the task's, begun and not committed.
LEMMA AtAnswer ==
  ASSUME Inv, NEW c \in Conns, ws[c] = "open", reply[c] # "none"
  PROVE  /\ ~Working(c) /\ out[c] = "none" /\ step[c] \in SentSteps
         /\ pc[c] # "committing" /\ current[c] \in 1..MaxTasks
         /\ step[c] = "begin" => /\ ran[c][current[c]] = 0
                                 /\ reply[c] = "ok" => txId[c] # 0
                                 /\ reply[c] = "error" => txId[c] = 0
         /\ step[c] \in {"changeVersion", "exec"} =>
              txId[c] # 0 /\ txId[c] = ran[c][current[c]]
         /\ step[c] \in {"commit", "abort"} => txId[c] = 0
<1>1. HandlerInv(c) /\ CommandInv(c) /\ TxInv(c)
  BY DEF Inv, ConnInv
<1>2. ~Working(c) /\ pc[c] # "committing"
  BY <1>1 DEF HandlerInv, CommandInv, Working
<1>3. step[c] \in SentSteps /\ out[c] = "none"
  BY WireFacts DEF SentSteps
<1>4. current[c] \in 1..MaxTasks
  BY <1>3, ConnFacts DEF SentSteps
<1> QED
  BY <1>1, <1>2, <1>3, <1>4, NoTxYet DEF TxInv, BeginInv, CommitInv

\* What Note makes of the ids that c's tasks have noted.
LEMMA NotedIds ==
  ASSUME Inv, NEW c \in Conns, current[c] \in 1..MaxTasks, Note(c),
         reply'[c] = "none"
  PROVE  /\ ran' \in [Conns -> [1..MaxTasks -> Nat]]
         /\ \A d \in Conns \ {c} : ran'[d] = ran[d]
         /\ \A n \in 1..MaxTasks : n # current[c] => ran'[c][n] = ran[c][n]
         /\ ran'[c][current[c]] = IF step[c] = "begin" /\ reply[c] = "ok" THEN txId[c]
                                  ELSE ran[c][current[c]]
<1>1. ran \in [Conns -> [1..MaxTasks -> Nat]] /\ txId[c] \in Nat
  BY TxIds DEF Inv
<1>2. CASE step[c] = "begin" /\ reply[c] = "ok"
  <2>1. ran' = [ran EXCEPT ![c] = [ran[c] EXCEPT ![current[c]] = txId[c]]]
    BY <1>1, <1>2 DEF Note
  <2>2. [ran[c] EXCEPT ![current[c]] = txId[c]] \in [1..MaxTasks -> Nat]
    BY <1>1
  <2> QED
    BY <1>1, <1>2, <2>1, <2>2
<1>3. CASE ~(step[c] = "begin" /\ reply[c] = "ok")
  BY <1>1, <1>3 DEF Note
<1> QED
  BY <1>2, <1>3

LEMMA AnsweredKeeps ==
  ASSUME Inv, [Next]_systemVars, NEW c \in Conns, Page!Answered(c), Note(c),
         UNCHANGED serverOnly
  PROVE  Inv'
<1> DEFINE k == current[c]
           goes == /\ step[c] \in {"begin", "changeVersion", "exec"}
                   /\ step[c] = "begin" => reply[c] = "ok"
                   /\ step'[c] \in {"changeVersion", "exec", "commit"}
                   /\ Same(c) /\ calls' = calls
           fails == /\ step[c] \in {"begin", "changeVersion", "exec", "commit"}
                    /\ step[c] = "commit" => reply[c] = "error"
                    /\ step'[c] = "abort" /\ Same(c) /\ Told(c, "error")
           succeeds == /\ step[c] = "commit" /\ reply[c] = "ok"
                       /\ Ends(c) /\ Told(c, "success")
           aborted == step[c] = "abort" /\ Ends(c) /\ calls' = calls
<1>1. /\ ws[c] = "open" /\ ws' = ws /\ reply[c] # "none" /\ OtherPages(c)
      /\ reply' = [reply EXCEPT ![c] = "none"]
      /\ goes \/ fails \/ succeeds \/ aborted
  BY AnsweredEffect
<1>2. /\ ~Working(c) /\ out[c] = "none" /\ step[c] \in SentSteps
      /\ pc[c] # "committing" /\ k \in 1..MaxTasks
      /\ step[c] = "begin" => /\ ran[c][k] = 0
                              /\ reply[c] = "ok" => txId[c] # 0
                              /\ reply[c] = "error" => txId[c] = 0
      /\ step[c] \in {"changeVersion", "exec"} => txId[c] # 0 /\ txId[c] = ran[c][k]
      /\ step[c] \in {"commit", "abort"} => txId[c] = 0
  BY <1>1, AtAnswer
<1>3. UNCHANGED <<pc, cmd, txId, acked, txState, nextId>>
  BY DEF serverOnly
<1>4. /\ reply'[c] = "none" /\ \A d \in Conns \ {c} : reply'[d] = reply[d]
      /\ reply[c] \in {"ok", "error"}
  BY <1>1, PageTypes, ConnFacts
<1>5. /\ ran' \in [Conns -> [1..MaxTasks -> Nat]]
      /\ \A d \in Conns \ {c} : ran'[d] = ran[d]
      /\ \A n \in 1..MaxTasks : n # k => ran'[c][n] = ran[c][n]
      /\ ran'[c][k] = IF step[c] = "begin" /\ reply[c] = "ok" THEN txId[c] ELSE ran[c][k]
  BY <1>2, <1>4, NotedIds
<1>6. /\ HandlerInv(c) /\ CommandInv(c) /\ TxInv(c) /\ RanInv(c) /\ OutcomeInv(c)
  BY DEF Inv, ConnInv
<1>7. ~Working(c)'
  BY <1>2, <1>3 DEF Working
<1>8. HandlerInv(c)' /\ CommandInv(c)'
  BY <1>1, <1>3, <1>4, <1>6, <1>7 DEF HandlerInv, CommandInv
<1>9. TxInv(c)'
  <2>1. CASE goes
    <3>1. txId'[c] # 0 /\ txId'[c] = ran'[c][k] /\ current'[c] = k
      BY <1>2, <1>3, <1>4, <1>5, <2>1 DEF Same
    <3>2. CommitInv(c)'
      BY <1>4, <3>1 DEF CommitInv
    <3> QED
      BY <2>1, <3>1, <3>2 DEF TxInv
  <2>2. CASE fails
    <3>1. current'[c] = k /\ (txId'[c] = 0 \/ txId'[c] = ran'[c][k])
      BY <1>2, <1>3, <1>4, <1>5, <2>2 DEF Same
    <3> QED
      BY <1>4, <2>2, <3>1 DEF TxInv
  <2>3. CASE succeeds \/ aborted
    BY <1>2, <1>3, <2>3 DEF TxInv, Ends
  <2> QED
    BY <1>1, <2>1, <2>2, <2>3
<1>10. RanInv(c)'
  <2>1. HadTx(c)' \in Nat /\ HadTx(c) <= HadTx(c)' /\ HadTx(c) \in Nat
    BY <1>1, HadTxGrows, ConnFacts DEF Same, Ends, TxSteps
  <2>2. CASE step[c] = "begin" /\ reply[c] = "ok"
    <3>1. ran'[c][k] = txId[c] /\ txId[c] # 0 /\ txId[c] \in 0..nextId /\ nextId \in Nat
      BY <1>2, <1>5, <2>2, TxIds
    <3>2. k <= HadTx(c)'
      <4>1. step'[c] \in TxSteps /\ Same(c)
        BY <1>1, <2>2 DEF TxSteps
      <4>2. PICK m \in Nat : m = Len(finished[c])
        BY ConnFacts
      <4>3. HadTx(c)' = m + 1
        BY <4>1, <4>2 DEF HadTx, TxSteps, Same
      <4>4. k = m + 1
        BY <2>2, <4>2, ConnFacts
      <4> QED
        BY <4>3, <4>4
    <3>3. \A n \in 1..MaxTasks : n # k => ran'[c][n] # txId[c]
      BY <1>1, <1>5, <1>6, <2>2, <3>1 DEF TxInv, BeginInv
    <3>4. \A d \in Conns \ {c} : txId[d] # txId[c]
      BY <3>1 DEF Inv, SP!Inv, SP!Ownership, SP!OwnTx
    <3>5. \A n \in 1..MaxTasks : ran'[c][n] \in 0..nextId
      BY <1>5, <1>6, <3>1 DEF RanInv
    <3>6. \A n \in 1..MaxTasks : n > HadTx(c)' => ran'[c][n] = 0
      <4>1. \A n \in 1..MaxTasks : n > HadTx(c)' => n > HadTx(c) /\ n # k
        BY <1>2, <2>1, <3>2
      <4> QED
        BY <1>5, <1>6, <4>1 DEF RanInv
    <3>7. \A m, n \in 1..MaxTasks : m # n /\ ran'[c][m] = ran'[c][n] => ran'[c][n] = 0
      BY <1>5, <1>6, <3>1, <3>3 DEF RanInv
    <3>8. \A d \in Conns \ {c} : \A n \in 1..MaxTasks :
            ran'[c][n] = txId[d] => ran'[c][n] = 0
      BY <1>5, <1>6, <3>1, <3>4 DEF RanInv
    <3> QED
      BY <1>1, <1>3, <3>5, <3>6, <3>7, <3>8 DEF RanInv, NotYetOpen
  <2>3. CASE ~(step[c] = "begin" /\ reply[c] = "ok")
    <3>1. ran'[c] = ran[c]
      BY <1>4, <2>3, <1>5 DEF Note
    <3>2. \A n \in 1..MaxTasks : n > HadTx(c)' => n > HadTx(c)
      BY <2>1
    <3>3. nextId' \in Nat /\ IdsKept(c)
      BY <1>3, TxIds DEF IdsKept
    <3> QED
      BY <1>1, <1>6, <3>1, <3>2, <3>3, RanKept DEF NotYetOpen
  <2> QED
    BY <2>2, <2>3
<1>11. OutcomeInv(c)'
  <2>1. ASSUME NEW n \in 1..MaxTasks, n # k, calls'[c][n] = calls[c][n]
        PROVE  /\ Succeeded(c, n)' => ran'[c][n] # 0 /\ ran'[c][n] \in acked'
               /\ Failed(c, n)' /\ ran'[c][n] # 0 /\ ws'[c] = "open" =>
                    txState'[ran'[c][n]] \notin Committing
    BY <1>1, <1>3, <1>5, <1>6, <2>1 DEF OutcomeInv, Succeeded, Failed
  <2>2. /\ "success" \in ToSet(calls'[c][k]) => ran'[c][k] # 0 /\ ran'[c][k] \in acked'
        /\ "error" \in ToSet(calls'[c][k]) /\ ran'[c][k] # 0 =>
             txState'[ran'[c][k]] \notin Committing
    <3>1. ToSet(<<"success">>) = {"success"} /\ ToSet(<<"error">>) = {"error"}
      BY DEF ToSet
    <3>2. CASE goes
      <4>1. ~Succeeded(c, k) /\ ~Failed(c, k)
        BY <3>2, NotToldYet
      <4> QED
        BY <3>2, <4>1 DEF Succeeded, Failed
    <3>3. CASE fails
      <4>1. calls'[c][k] = <<"error">>
        BY <3>3 DEF Told
      <4>2. CASE step[c] = "commit"
        <5>1. txState[ran[c][k]] \notin Committing /\ ran'[c][k] = ran[c][k]
          BY <1>1, <1>5, <1>6, <3>3, <4>2 DEF TxInv, CommitInv
        <5> QED
          BY <1>3, <3>1, <4>1, <5>1
      <4>3. CASE step[c] # "commit"
        <5>1. ran'[c][k] # 0 => ran'[c][k] = txId[c] /\ txId[c] # 0
          BY <1>2, <1>4, <1>5, <3>3, <4>3
        <5>2. txId[c] # 0 => txState[txId[c]] \notin Committing
          BY <1>2, NotCommitting
        <5> QED
          BY <1>3, <3>1, <4>1, <5>1, <5>2
      <4> QED
        BY <4>2, <4>3
    <3>4. CASE succeeds
      <4>1. ran'[c][k] # 0 /\ ran'[c][k] \in acked
        BY <1>1, <1>5, <1>6, <3>4 DEF TxInv, CommitInv
      <4> QED
        BY <1>3, <3>1, <3>4, <4>1 DEF Told
    <3>5. CASE aborted
      <4>1. ran'[c][k] = ran[c][k]
        BY <1>5, <3>5
      <4> QED
        BY <1>1, <1>2, <1>3, <1>6, <3>5, <4>1 DEF OutcomeInv, Succeeded, Failed
    <3> QED
      BY <1>1, <3>2, <3>3, <3>4, <3>5
  <2>3. \A n \in 1..MaxTasks : n # k => calls'[c][n] = calls[c][n]
    BY <1>1 DEF Told
  <2> QED
    BY <2>1, <2>2, <2>3 DEF OutcomeInv, Succeeded, Failed
<1> QED
  BY <1>1, <1>4, <1>5, <1>8, <1>9, <1>10, <1>11, PageMoved DEF ConnInv

LEMMA PageMovesStep ==
  ASSUME Inv, NEW c \in Conns, PageMoves(c) PROVE Inv'
<1>1. Page!PageStep(c) /\ Note(c) /\ UNCHANGED serverOnly /\ Next
  BY DEF PageMoves, Next
<1>2. CASE Page!Answered(c)
  BY <1>1, <1>2, AnsweredKeeps
<1>3. CASE Unanswered(c) /\ reply' = reply
  <2>1. ran' = ran
    BY <1>1, <1>3 DEF Note
  <2> QED
    BY <1>1, <1>3, <2>1, UnansweredKeeps
<1> QED
  BY <1>1, <1>2, <1>3, UnansweredSteps, UnansweredEnds DEF Page!PageStep, Page!Turn

LEMMA CutStep ==
  ASSUME Inv, NEW c \in Conns, Cut(c) PROVE Inv'
<1>1. Page!SocketClosed(c) /\ UNCHANGED <<serverOnly, ran>> /\ Next
  BY DEF Cut, Next
<1> QED
  BY <1>1, UnansweredEnds, UnansweredKeeps

-----------------------------------------------------------------------------
(* The invariant                                                           *)

LEMMA InvInit == ASSUME Init PROVE Inv
<1>1. PP!PageAssumption /\ SP!ServerAssumption
  BY SystemAssumption DEF PP!PageAssumption, SP!ServerAssumption
<1>2. PP!Init /\ SP!Init
  BY SamePage, SameServer DEF Init
<1>3. PP!Inv /\ SP!Inv
  BY <1>1, <1>2, PP!InvInit, SP!InitInv
<1>4. ran \in [Conns -> [1..MaxTasks -> Nat]]
  BY DEF Init
<1> SUFFICES ASSUME NEW c \in Conns PROVE ConnInv(c)
  BY <1>3, <1>4 DEF Inv
<1>5. /\ pc[c] = "off" /\ cmd[c] = "none" /\ txId[c] = 0 /\ reply[c] = "none"
      /\ nextId = 0 /\ acked = {} /\ \A d \in Conns : txId[d] = 0
  BY <1>2 DEF SP!Init
<1>6. /\ ws[c] = "new" /\ step[c] = "idle" /\ finished[c] = <<>>
      /\ \A n \in 1..MaxTasks : calls[c][n] = <<>>
  BY <1>2 DEF PP!Init, PP!Tasks
<1>7. \A n \in 1..MaxTasks : ran[c][n] = 0
  BY DEF Init
<1>8. HandlerInv(c)
  BY <1>5, <1>6 DEF HandlerInv, Working
<1>9. CommandInv(c) /\ TxInv(c)
  BY <1>6 DEF CommandInv, TxInv
<1>10. RanInv(c)
  BY <1>5, <1>7 DEF RanInv
<1>11. OutcomeInv(c)
  BY <1>6, <1>7 DEF OutcomeInv, Succeeded, Failed, ToSet
<1> QED
  BY <1>8, <1>9, <1>10, <1>11 DEF ConnInv

LEMMA InvStep == ASSUME Inv, [Next]_systemVars PROVE Inv'
<1>1. ASSUME NEW c \in Conns,
             \/ PageMoves(c) \/ Upgraded(c) \/ Refused(c) \/ Cut(c)
             \/ Received(c) \/ Hangup(c) \/ Handles(c)
      PROVE  Inv'
  BY <1>1, PageMovesStep, UpgradedStep, RefusedStep, CutStep, ReceivedStep,
     HangupStep, HandlesStep
<1>2. CASE UNCHANGED systemVars
  <2>1. UNCHANGED <<pc, cmd, txId, reply, acked, out, pageOnly, nextId, txState>>
    BY <1>2 DEF systemVars, serverOnly
  <2>2. nextId <= nextId'
    BY <2>1, SystemAssumption DEF Inv, SP!Inv, SP!RequestTypes
  <2> QED
    BY <2>1, <2>2, NoConnStep
<1> QED
  BY <1>1, <1>2, TimerRunsStep, RequestedStep DEF Next

LEMMA Invariance == Spec => []Inv
<1>1. Init => Inv
  BY InvInit
<1>2. Inv /\ [Next]_systemVars => Inv'
  BY InvStep
<1> QED
  BY <1>1, <1>2, PTL DEF Spec

-----------------------------------------------------------------------------
(* transactionAsync and Commit: when onSuccess was called for a task, the  *)
(* transaction the server began for it was committed, for any number of    *)
(* pages, timers and closeAll requests that interfere.                     *)
THEOREM SuccessIsCommitted == Spec => []SuccessMeansCommitted
<1>1. Inv => SuccessMeansCommitted
  <2> SUFFICES ASSUME Inv, NEW c \in Conns, NEW n \in 1..MaxTasks, Succeeded(c, n)
               PROVE  ran[c][n] # 0 /\ txState[ran[c][n]] = "committed"
    BY DEF SuccessMeansCommitted
  <2>1. ran[c][n] # 0 /\ ran[c][n] \in acked
    BY DEF Inv, ConnInv, OutcomeInv
  <2>2. ran[c][n] \in 1..MaxId
    BY <2>1, RanIds
  <2> QED
    BY <2>1, <2>2 DEF Inv, SP!Inv, SP!AckedIffCommitted, SP!Ids
<1> QED
  BY <1>1, Invariance, PTL

(* transactionAsync and Commit: as long as the connection is there, a task *)
(* whose onError was called has no transaction that was or is being        *)
(* committed, and none that a later step will commit.                      *)
THEOREM FailureIsTrue == Spec => []NoFalseFailure
<1>1. Inv => NoFalseFailure
  BY DEF Inv, ConnInv, OutcomeInv, NoFalseFailure, Committing
<1> QED
  BY <1>1, Invariance, PTL

(* handleBegin: no page sends a begin while its handler still has the      *)
(* transaction of the task before.                                         *)
THEOREM BeginIsClean == Spec => []BeginFindsNone
<1>1. Inv => BeginFindsNone
  <2> SUFFICES ASSUME Inv, NEW c \in Conns, out[c] = "begin", ws[c] = "open"
               PROVE  txId[c] = 0
    BY DEF BeginFindsNone
  <2>1. step[c] = "begin"
    BY WireFacts
  <2> QED
    BY <2>1 DEF Inv, ConnInv, TxInv, BeginInv
<1> QED
  BY <1>1, Invariance, PTL

(* handleMessages and sendMessage: with the real server at the other end   *)
(* of the websocket every step is a step of the page and the wire as       *)
(* WebSqlPage describes them, so what is proved there holds of the system. *)
THEOREM PageImplemented == Spec => PageRespected
<1>1. Init => Page!Init
  BY DEF Init
<1>2. Inv /\ [Next]_systemVars =>
        [Page!Next]_<<Page!pageVars, [c \in Conns |-> Working(c)]>>
  BY PageNext DEF busy
<1> QED
  BY <1>1, <1>2, Invariance, PTL DEF Spec, PageRespected, Page!Spec

(* Every step of the system is a step of the server as WebSqlServer        *)
(* describes it, with any statements: what is proved there holds here.     *)
THEOREM ServerImplemented == Spec => Server!Spec
<1>1. Init => Server!Init
  BY DEF Init
<1>2. Inv /\ [Next]_systemVars => [Server!Next]_Server!serverVars
  BY ServerNext DEF Inv
<1> QED
  BY <1>1, <1>2, Invariance, PTL DEF Spec, Server!Spec
=============================================================================

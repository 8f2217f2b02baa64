---------------------------- MODULE WebSqlSystem ----------------------------
(***************************************************************************)
(* Pages and server together: each DB object of WebSqlPage talks to its    *)
(* own transactionHandler of WebSqlServer over one websocket.  The page    *)
(* fills out and empties reply, the server the other way round; the steps  *)
(* of each are the steps of its own module.                                *)
(***************************************************************************)
EXTENDS Naturals, Sequences, SequencesExt

CONSTANTS
  Conns,                    (* the DB objects and their connections        *)
  Requests, Closers, NoOne, (* the HTTP requests, as in WebSqlServer       *)
  Carried,                  (* the server commands that pages send         *)
  MaxId, MaxTasks, MaxSql   (* the bounds of the two modules               *)

ASSUME SystemAssumption ==
  /\ MaxId \in Nat /\ MaxTasks \in Nat /\ MaxSql \in Nat
  /\ NoOne \notin Requests
  /\ Closers \subseteq Requests

VARIABLES
  nextId, lock, databases, closed, transactions, txState, querying, timer,
  pc, cmd, txId, connDb, rpc, rid, acked,          (* the server's          *)
  reply, out,                                      (* the wires             *)
  ws, kinds, pending, ticks, current, step, sql, asked, forceFail, calls,
  finished,                                        (* the pages'            *)
  ran     (* history: the server's id for the transaction of each task      *)

serverOnly == <<nextId, lock, databases, closed, transactions, txState, querying,
                timer, pc, cmd, txId, connDb, rpc, rid, acked>>
pageOnly == <<ws, kinds, pending, ticks, current, step, sql, asked, forceFail,
              calls, finished, ran>>
systemVars == <<serverOnly, reply, out, pageOnly>>

Server == INSTANCE WebSqlServer WITH
  Statements <- {"exec", "insert", "changeVersion"}

\* What a page cannot see of the server but for its answer: a handler is
\* between ReadJSON and WriteJSON.
Working(c) ==
  /\ pc[c] \notin {"off", "reading", "ended", "orphan"}
  /\ cmd[c] # "gone"

Page == INSTANCE WebSqlPage WITH busy <- [c \in Conns |-> Working(c)]

Init ==
  /\ Server!Init
  /\ Page!Init
  /\ ran = [c \in Conns |-> [k \in 1..MaxTasks |-> 0]]

-----------------------------------------------------------------------------
\* openDatabase needs the answer of open, hence a database.
Opened(c) == ws[c] = "new" => Server!KnownDbs # {}

\* The transaction the server began for the task is noted when the page reads
\* the answer to its begin.
Note(c) ==
  ran' = IF step[c] = "begin" /\ reply[c] = "ok" /\ reply'[c] = "none"
         THEN [ran EXCEPT ![c][current[c]] = txId[c]]
         ELSE ran

PageMoves(c) ==
  /\ Opened(c)
  /\ Page!PageStep(c)
  /\ Note(c)
  /\ UNCHANGED serverOnly

\* The upgrade: the handler starts and the page's onopen is called.
Upgraded(c) ==
  /\ Page!Accept(c)
  /\ Server!Connect(c)
  /\ UNCHANGED ran

Refused(c) ==
  /\ Page!Refuse(c)
  /\ UNCHANGED <<serverOnly, ran>>

\* The network is cut, or the server's end of an abandoned connection is closed.
Cut(c) ==
  /\ Page!SocketClosed(c)
  /\ UNCHANGED <<serverOnly, ran>>

\* The server reads a command.  The page's "exec" carries any statement.
Received(c) ==
  /\ out[c] # "none"
  /\ out' = [out EXCEPT ![c] = "none"]
  /\ \E m \in Carried :
       /\ IF out[c] = "exec" THEN m \in {"exec", "insert"} ELSE m = out[c]
       /\ Server!Receive(c, m)
  /\ UNCHANGED pageOnly

\* ReadJSON fails once the page's end is closed; what was in flight may have
\* been received before, or is lost.
Hangup(c) ==
  /\ ws[c] \in {"closed", "failed"}
  /\ Server!Disconnect(c)
  /\ UNCHANGED <<out, pageOnly>>

Handles(c) == Server!HandlerStep(c) /\ UNCHANGED <<out, pageOnly>>

TimerRuns(i) == Server!TimerNext(i) /\ UNCHANGED <<out, pageOnly>>

Requested(r) == Server!RequestNext(r) /\ UNCHANGED <<out, pageOnly>>

Next ==
  \/ \E c \in Conns : \/ PageMoves(c) \/ Upgraded(c) \/ Refused(c) \/ Cut(c)
                      \/ Received(c) \/ Hangup(c) \/ Handles(c)
  \/ \E i \in 1..MaxId : TimerRuns(i)
  \/ \E r \in Requests : Requested(r)

Spec == Init /\ [][Next]_systemVars

(***************************************************************************)
(* The browser runs its turns, the handlers theirs, and the wire carries   *)
(* what is on it.  A connection the server has abandoned (its handler      *)
(* panicked or failed to begin) is closed by the finalizer of Go's netFD   *)
(* at a garbage collection, which the runtime forces every two minutes.    *)
(***************************************************************************)
Abandoned(c) == pc[c] = "orphan" /\ reply[c] = "none" /\ Cut(c)

Fairness ==
  \A c \in Conns :
    /\ WF_systemVars(Page!Turn(c) /\ PageMoves(c))
    /\ WF_systemVars(Upgraded(c) \/ Refused(c))
    /\ WF_systemVars(Received(c))
    /\ WF_systemVars(Abandoned(c))
    /\ SF_systemVars(Handles(c))

FairSpec == Spec /\ Fairness

-----------------------------------------------------------------------------
Succeeded(c, n) == "success" \in ToSet(calls[c][n])
Failed(c, n) == "error" \in ToSet(calls[c][n])

\* onSuccess is called only for a transaction that SQLite committed, whatever
\* timers, closeAll and cuts do meanwhile (transactionAsync and Commit).
SuccessMeansCommitted ==
  \A c \in Conns : \A n \in 1..MaxTasks :
    Succeeded(c, n) => ran[c][n] # 0 /\ txState[ran[c][n]] = "committed"

\* onError is called only for a transaction that is not committed, unless the
\* connection was lost: then a commit may have been made and its answer lost.
NoFalseFailure ==
  \A c \in Conns : \A n \in 1..MaxTasks :
    Failed(c, n) /\ ran[c][n] # 0 /\ ws[c] = "open" =>
      txState[ran[c][n]] \notin {"committing", "committed"}

\* "beginTransaction before commit or abort" (handler.go:118) is never logged
\* for a page: a task whose transaction failed has had it ended on the server
\* before the next task begins one.
BeginFindsNone ==
  \A c \in Conns : out[c] = "begin" /\ ws[c] = "open" => txId[c] = 0

\* The server answers every command at most once and never unasked: seen from
\* the page it is a server as WebSqlPage assumes.
PageRespected == Page!Spec

\* Every task that was scheduled ends, also when the server gives up on its
\* connection, unless the page is unloaded (ret.finally in doNext).
TasksFinish ==
  \A c \in Conns : \A n \in 1..MaxTasks :
    n \in ToSet(pending[c]) ~> n \in ToSet(finished[c]) \/ step[c] = "unloaded"
=============================================================================

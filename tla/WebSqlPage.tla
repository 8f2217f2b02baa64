----------------------------- MODULE WebSqlPage -----------------------------
(***************************************************************************)
(* The page's side of a database: the DB object of pjf/websql.js with its  *)
(* queue of tasks (schedule, doNext), the transaction each task runs       *)
(* (transactionAsync) and the websocket that carries its commands.         *)
(*                                                                         *)
(* JavaScript runs one turn at a time, so a step here is what the code     *)
(* does between two awaits.  A task is its number in the order in which    *)
(* it was scheduled.  The server is an environment that takes a command    *)
(* and may answer it; WebSqlSystem puts WebSqlServer in its place.         *)
(***************************************************************************)
EXTENDS Naturals, Sequences, SequencesExt

CONSTANTS
  Conns,     (* the DB objects, one websocket each                         *)
  MaxTasks,  (* bound on the tasks scheduled on a DB object                *)
  MaxSql     (* bound on the executeSql calls of a transaction             *)

ASSUME PageAssumption == MaxTasks \in Nat /\ MaxSql \in Nat

VARIABLES
  ws,         (* the websocket of the object                               *)
  out, reply, (* the command sent and not received, the answer not read    *)
  busy,       (* the server is working on a command                        *)
  kinds,      (* what the tasks scheduled so far are, in order             *)
  pending,    (* pendingFuncs                                              *)
  ticks,      (* the doNext calls posted with setTimeout                   *)
  current,    (* the task taken from the queue, 0 for none                 *)
  step,       (* where that task is                                        *)
  sql, asked, (* executeSql calls not yet run, and made so far             *)
  forceFail,  (* changeVersionForceFail                                    *)
  calls,      (* history: the transaction callbacks of each task           *)
  finished    (* history: the tasks that ended, in order                   *)

queueVars == <<pending, ticks, current, finished>>
sqlVars == <<sql, asked>>
pageVars == <<ws, out, reply, kinds, pending, ticks, current, step, sql, asked,
              forceFail, calls, finished>>

Sockets == {"new", "connecting", "open", "failed", "closed"}
Kinds == {"create", "tx", "changeVersion", "forced"}
Sent == {"begin", "changeVersion", "exec", "commit", "abort"}
Steps == {"idle", "posted", "connect", "unloaded"} \cup Sent
Tasks == 1..MaxTasks

Init ==
  /\ ws = [c \in Conns |-> "new"]
  /\ out = [c \in Conns |-> "none"]
  /\ reply = [c \in Conns |-> "none"]
  /\ busy = [c \in Conns |-> FALSE]
  /\ kinds = [c \in Conns |-> <<>>]
  /\ pending = [c \in Conns |-> <<>>]
  /\ ticks = [c \in Conns |-> 0]
  /\ current = [c \in Conns |-> 0]
  /\ step = [c \in Conns |-> "idle"]
  /\ sql = [c \in Conns |-> 0]
  /\ asked = [c \in Conns |-> 0]
  /\ forceFail = [c \in Conns |-> FALSE]
  /\ calls = [c \in Conns |-> [n \in Tasks |-> <<>>]]
  /\ finished = [c \in Conns |-> <<>>]

Running(c) == step[c] # "idle"

\* The number that the next task will have.
NewTask(c) == Len(kinds[c]) + 1
RoomForTask(c) == Len(kinds[c]) < MaxTasks

-----------------------------------------------------------------------------
(* The queue: schedule and doNext                                          *)

\* Slip: a doNext that finds a task running takes another one.
TickUnguarded(c) ==
  /\ ticks[c] > 0
  /\ step[c] # "unloaded"
  /\ ticks' = [ticks EXCEPT ![c] = @ - 1]
  /\ IF pending[c] = <<>>
     THEN UNCHANGED <<pending, current, step>>
     ELSE /\ current' = [current EXCEPT ![c] = Head(pending[c])]
          /\ pending' = [pending EXCEPT ![c] = Tail(@)]
          /\ step' = [step EXCEPT ![c] = "posted"]
  /\ UNCHANGED <<ws, out, reply, kinds, sqlVars, forceFail, calls, finished>>

\* A posted doNext: it does nothing while a task is running, else it takes the
\* first function of the queue and posts it.
Tick(c) ==
  /\ ticks[c] > 0
  /\ ticks' = [ticks EXCEPT ![c] = @ - 1]
  /\ IF Running(c) \/ pending[c] = <<>>
     THEN UNCHANGED <<pending, current, step>>
     ELSE /\ current' = [current EXCEPT ![c] = Head(pending[c])]
          /\ pending' = [pending EXCEPT ![c] = Tail(@)]
          /\ step' = [step EXCEPT ![c] = "posted"]
  /\ UNCHANGED <<ws, out, reply, kinds, sqlVars, forceFail, calls, finished>>

\* Slip: the end of a task does not look for the next one.
FinishOnly(c, queue) ==
  /\ finished' = [finished EXCEPT ![c] = Append(@, current[c])]
  /\ current' = [current EXCEPT ![c] = 0]
  /\ pending' = [pending EXCEPT ![c] = queue]
  /\ step' = [step EXCEPT ![c] = "idle"]

\* ret.finally: the task is over, and doNext takes the next one of the queue.
Finish(c, queue) ==
  /\ finished' = [finished EXCEPT ![c] = Append(@, current[c])]
  /\ IF queue = <<>>
     THEN /\ current' = [current EXCEPT ![c] = 0]
          /\ pending' = [pending EXCEPT ![c] = <<>>]
          /\ step' = [step EXCEPT ![c] = "idle"]
     ELSE /\ current' = [current EXCEPT ![c] = Head(queue)]
          /\ pending' = [pending EXCEPT ![c] = Tail(queue)]
          /\ step' = [step EXCEPT ![c] = "posted"]

-----------------------------------------------------------------------------
(* What a page calls                                                       *)

\* new DB(...) once open has answered: the websocket is started, and the
\* creation callback is scheduled if the database is new.
NewDb(c) ==
  /\ ws[c] = "new"
  /\ ws' = [ws EXCEPT ![c] = "connecting"]
  /\ \/ UNCHANGED <<kinds, pending, ticks>>
     \/ /\ RoomForTask(c)
        /\ kinds' = [kinds EXCEPT ![c] = Append(@, "create")]
        /\ pending' = [pending EXCEPT ![c] = Append(@, NewTask(c))]
        /\ ticks' = [ticks EXCEPT ![c] = @ + 1]
  /\ UNCHANGED <<out, reply, current, step, sqlVars, forceFail, calls, finished>>

\* db.transaction or db.changeVersion, called from anywhere in the page.
UserCalls(c) ==
  /\ ws[c] # "new"
  /\ step[c] # "unloaded"
  /\ RoomForTask(c)
  /\ \E k \in {"tx", IF forceFail[c] THEN "forced" ELSE "changeVersion"} :
       kinds' = [kinds EXCEPT ![c] = Append(@, k)]
  /\ pending' = [pending EXCEPT ![c] = Append(@, NewTask(c))]
  /\ ticks' = [ticks EXCEPT ![c] = IF Running(c) THEN @ ELSE @ + 1]
  /\ UNCHANGED <<ws, out, reply, current, step, sqlVars, forceFail, calls,
                 finished>>

\* executeSql, called outside the transaction's callbacks while its statements
\* are being run: the loop over the queue will meet it.
UserSql(c) ==
  /\ step[c] = "exec"
  /\ asked[c] < MaxSql
  /\ sql' = [sql EXCEPT ![c] = @ + 1]
  /\ asked' = [asked EXCEPT ![c] = @ + 1]
  /\ UNCHANGED <<ws, out, reply, kinds, queueVars, step, forceFail, calls>>

\* The page is unloaded: its websockets close and its code runs no more.
Unload(c) ==
  /\ ws[c] # "new"
  /\ step[c] # "unloaded"
  /\ ws' = [ws EXCEPT ![c] = IF @ \in {"open", "closed"} THEN "closed"
                                  ELSE "failed"]
  /\ step' = [step EXCEPT ![c] = "unloaded"]
  /\ UNCHANGED <<out, reply, kinds, queueVars, sqlVars, forceFail, calls>>

-----------------------------------------------------------------------------
(* The tasks                                                               *)

\* The creation callback: while it runs every changeVersion it calls is
\* scheduled to fail.  If it throws, the flag is not taken back.
RunCreation(c) ==
  /\ step[c] = "posted"
  /\ kinds[c][current[c]] = "create"
  /\ \E throws \in BOOLEAN : forceFail' = [forceFail EXCEPT ![c] = throws]
  /\ \E called \in BoundedSeq({"tx", "forced"}, MaxTasks - Len(kinds[c])) :
       /\ kinds' = [kinds EXCEPT ![c] = @ \o called]
       /\ Finish(c, pending[c] \o [i \in 1..Len(called) |-> Len(kinds[c]) + i])
  /\ UNCHANGED <<ws, out, reply, ticks, sqlVars, calls>>

Settle(c, how) == calls' = [calls EXCEPT ![c][current[c]] = Append(@, how)]

\* A changeVersion that was called while changeVersionForceFail was set.
RunForced(c) ==
  /\ step[c] = "posted"
  /\ kinds[c][current[c]] = "forced"
  /\ Settle(c, "error")
  /\ Finish(c, pending[c])
  /\ UNCHANGED <<ws, out, reply, kinds, ticks, sqlVars, forceFail>>

\* A transaction begins with "await this.ws".
RunTx(c) ==
  /\ step[c] = "posted"
  /\ kinds[c][current[c]] \in {"tx", "changeVersion"}
  /\ step' = [step EXCEPT ![c] = "connect"]
  /\ sql' = [sql EXCEPT ![c] = 0]
  /\ asked' = [asked EXCEPT ![c] = 0]
  /\ UNCHANGED <<ws, out, reply, kinds, queueVars, forceFail, calls>>

\* sendMessage on an open websocket; the task awaits the answer.
Say(c, m) ==
  /\ out' = [out EXCEPT ![c] = m]
  /\ step' = [step EXCEPT ![c] = m]
  /\ UNCHANGED <<pending, current, finished>>

\* Slip: no abort in the finally.
FailNoAbort(c, open) ==
  /\ Settle(c, "error")
  /\ Finish(c, pending[c])
  /\ UNCHANGED out

\* Slip: "ws.abort()" without the await.
FailNoAwait(c, open) ==
  /\ Settle(c, "error")
  /\ out' = IF open THEN [out EXCEPT ![c] = "abort"] ELSE out
  /\ Finish(c, pending[c])

\* catch and finally: onError, then abort.  On a closed websocket sendMessage
\* rejects, and the task is over.
Fail(c, open) ==
  /\ Settle(c, "error")
  /\ IF open THEN Say(c, "abort")
             ELSE Finish(c, pending[c]) /\ UNCHANGED out

\* The next command of a transaction that goes on.
Advance(c, m) ==
  IF ws[c] = "open" THEN Say(c, m) /\ UNCHANGED calls ELSE Fail(c, FALSE)

\* this.ws is resolved, or rejected: then there is nothing to abort.
Connected(c) ==
  /\ step[c] = "connect"
  /\ \/ ws[c] \in {"open", "closed"} /\ Advance(c, "begin")
     \/ ws[c] = "failed" /\ Fail(c, FALSE)
  /\ UNCHANGED <<ws, reply, kinds, ticks, sqlVars, forceFail>>

\* Slip: the loop runs to i <= queue.length.
NextStatementLe(c, n) ==
  /\ Advance(c, "exec")
  /\ sql' = [sql EXCEPT ![c] = n - 1]

\* With n statements in the queue the loop sends one, or the task commits.
NextStatement(c, n) ==
  IF n > 0 THEN /\ Advance(c, "exec")
                /\ sql' = [sql EXCEPT ![c] = n - 1]
           ELSE Advance(c, "commit") /\ UNCHANGED sql

\* A callback of the page returns, having called executeSql any number of
\* times, or it throws.
Callback(c) ==
  \/ \E more \in 0..(MaxSql - asked[c]) :
       /\ asked' = [asked EXCEPT ![c] = @ + more]
       /\ NextStatement(c, sql[c] + more)
  \/ Fail(c, TRUE) /\ UNCHANGED sqlVars

\* Slip: the exception of onSuccess is not caught, and reaches onError.
AfterCommitThrows(c) ==
  /\ Finish(c, pending[c])
  /\ \/ Settle(c, "success")
     \/ calls' = [calls EXCEPT ![c][current[c]] = @ \o <<"success", "error">>]
  /\ UNCHANGED <<out, sqlVars>>

\* ws = null, onSuccess is called and its exception swallowed.
AfterCommit(c) ==
  /\ Settle(c, "success")
  /\ Finish(c, pending[c])
  /\ UNCHANGED <<out, sqlVars>>

\* The answer to the command that the task awaits.  After a statement that
\* failed its onError decides: the transaction stops, or goes on.
Answered(c) ==
  /\ step[c] \in Sent
  /\ ws[c] = "open"
  /\ reply[c] # "none"
  /\ reply' = [reply EXCEPT ![c] = "none"]
  /\ \/ /\ step[c] = "begin"
        /\ reply[c] = "ok"
        /\ IF kinds[c][current[c]] = "changeVersion"
           THEN Advance(c, "changeVersion") /\ UNCHANGED sqlVars
           ELSE Callback(c)
     \/ step[c] = "changeVersion" /\ reply[c] = "ok" /\ Callback(c)
     \/ step[c] = "exec" /\ Callback(c)
     \/ step[c] = "commit" /\ reply[c] = "ok" /\ AfterCommit(c)
     \/ /\ step[c] \in {"begin", "changeVersion", "commit"}
        /\ reply[c] = "error"
        /\ Fail(c, TRUE)
        /\ UNCHANGED sqlVars
     \/ /\ step[c] = "abort"
        /\ Finish(c, pending[c])
        /\ UNCHANGED <<out, calls, sqlVars>>
  /\ UNCHANGED <<ws, kinds, ticks, forceFail>>

-----------------------------------------------------------------------------
(* The websocket                                                           *)

Accept(c) ==
  /\ ws[c] = "connecting"
  /\ ws' = [ws EXCEPT ![c] = "open"]
  /\ UNCHANGED <<out, reply, kinds, queueVars, step, sqlVars, forceFail, calls>>

Refuse(c) ==
  /\ ws[c] = "connecting"
  /\ ws' = [ws EXCEPT ![c] = "failed"]
  /\ UNCHANGED <<out, reply, kinds, queueVars, step, sqlVars, forceFail, calls>>

\* Slip: sendMessage sets no onclose, and connect's promise is settled.
SocketClosedUnheard(c) ==
  /\ ws[c] = "open"
  /\ ws' = [ws EXCEPT ![c] = "closed"]
  /\ UNCHANGED <<out, reply, kinds, queueVars, step, sqlVars, forceFail, calls>>

\* onclose rejects the promise of the command in flight, if any.
SocketClosed(c) ==
  /\ ws[c] = "open"
  /\ ws' = [ws EXCEPT ![c] = "closed"]
  /\ \/ /\ step[c] \in Sent \ {"abort"}
        /\ Fail(c, FALSE)
     \/ /\ step[c] = "abort"
        /\ Finish(c, pending[c])
        /\ UNCHANGED <<out, calls>>
     \/ /\ step[c] \notin Sent
        /\ UNCHANGED <<out, calls, pending, current, finished, step>>
  /\ UNCHANGED <<reply, kinds, ticks, sqlVars, forceFail>>

-----------------------------------------------------------------------------
(* The server, as any server that works on one command at a time           *)

\* A command is received; some are refused at once.
Take(c) ==
  /\ out[c] # "none"
  /\ ~busy[c]
  /\ out' = [out EXCEPT ![c] = "none"]
  /\ \/ busy' = [busy EXCEPT ![c] = TRUE] /\ UNCHANGED reply
     \/ reply' = [reply EXCEPT ![c] = "error"] /\ UNCHANGED busy
  /\ UNCHANGED <<ws, kinds, queueVars, step, sqlVars, forceFail, calls>>

\* The command is answered, or the handler gives up without an answer.
Serve(c) ==
  /\ busy[c]
  /\ busy' = [busy EXCEPT ![c] = FALSE]
  /\ \E a \in {"ok", "error", "none"} : reply' = [reply EXCEPT ![c] = a]
  /\ UNCHANGED <<ws, out, kinds, queueVars, step, sqlVars, forceFail, calls>>

-----------------------------------------------------------------------------
\* What the page does by itself.
Turn(c) ==
  \/ Tick(c) \/ RunCreation(c) \/ RunForced(c) \/ RunTx(c) \/ Connected(c)
  \/ Answered(c)

PageStep(c) == Turn(c) \/ NewDb(c) \/ UserCalls(c) \/ UserSql(c) \/ Unload(c)

WireStep(c) == Accept(c) \/ Refuse(c) \/ SocketClosed(c)

Next ==
  \E c \in Conns : \/ PageStep(c) /\ UNCHANGED busy
                   \/ WireStep(c) /\ UNCHANGED busy
                   \/ Take(c) \/ Serve(c)

Spec == Init /\ [][Next]_<<pageVars, busy>>

-----------------------------------------------------------------------------
\* The types of the variables; a callback queue never outgrows its calls.
TypeOK ==
  /\ ws \in [Conns -> Sockets]
  /\ out \in [Conns -> Sent \cup {"none"}]
  /\ reply \in [Conns -> {"none", "ok", "error"}]
  /\ busy \in [Conns -> BOOLEAN]
  /\ kinds \in [Conns -> Seq(Kinds)]
  /\ pending \in [Conns -> Seq(Tasks)]
  /\ ticks \in [Conns -> 0..MaxTasks]
  /\ current \in [Conns -> 0..MaxTasks]
  /\ step \in [Conns -> Steps]
  /\ sql \in [Conns -> 0..MaxSql]
  /\ asked \in [Conns -> 0..MaxSql]
  /\ forceFail \in [Conns -> BOOLEAN]
  /\ calls \in [Conns -> [Tasks -> Seq({"success", "error"})]]
  /\ finished \in [Conns -> Seq(Tasks)]
  /\ \A c \in Conns : sql[c] <= asked[c]

(***************************************************************************)
(* "実行中のタスクが無かったらlooperに積んで実行する。もしタスク実行中なら   *)
(* queueに入れる" (websql.js:58-59): tasks run one at a time and in the order  *)
(* they were scheduled, none lost and none twice, although schedule and    *)
(* doNext run from several timers.                                         *)
(***************************************************************************)
TasksInOrder ==
  \A c \in Conns :
    finished[c] \o (IF current[c] = 0 THEN <<>> ELSE <<current[c]>>) \o pending[c]
      = [n \in 1..Len(kinds[c]) |-> n]

\* A queue with tasks in it is being worked on: a task is running, whose end
\* will look at the queue, or a doNext is posted (schedule against doNext).
NoTaskStranded ==
  \A c \in Conns : pending[c] # <<>> => Running(c) \/ ticks[c] > 0

\* transactionAsync tells the page the outcome of a transaction once: never
\* onError after onSuccess, and one of the two unless the page was unloaded.
OneOutcome ==
  \A c \in Conns : \A n \in Tasks :
    /\ Len(calls[c][n]) <= 1
    /\ n \in ToSet(finished[c]) /\ kinds[c][n] # "create" => calls[c][n] # <<>>

(***************************************************************************)
(* A page sends a command only when the one before was answered, and the   *)
(* answer it reads is to the command it awaits: sendMessage puts its       *)
(* handlers over the ones of the command before and matches nothing.       *)
(***************************************************************************)
AnswersMatch ==
  \A c \in Conns : ws[c] = "open" =>
    /\ out[c] # "none" => out[c] = step[c] /\ ~busy[c] /\ reply[c] = "none"
    /\ busy[c] \/ reply[c] # "none" => step[c] \in Sent
    /\ busy[c] => reply[c] = "none"

\* "openDatabaseのcreationCallback中のchangeVersionは全て失敗する" (websql.js:10):
\* the flag stands for a creation callback that is running, so it is down
\* between turns and changeVersion goes back to work.
ForceFailOnlyInCreation == \A c \in Conns : ~forceFail[c]
=============================================================================

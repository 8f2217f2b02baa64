# A TLA+ project for the PitTouch Pro3 simulator

The simulator is a small Go server and three JavaScript files that together give
a browser page what the PitTouch Pro terminals give theirs: a Web SQL database, a
`ProOperate` object that receives device events, and file access. The
specifications here are translated from that code. TLC checks them on small
instances; TLAPS proves every safety property that the passing runs check, for all
instances.
`PROJECT.json` holds the machine-readable side: which definition models which
lines, the runs, the mutants (a plausible slip of the code for each property), the
findings and the hazards.

## The system

| Part | Source | State | Operations | Modelled by |
|---|---|---|---|---|
| Event relay | `prooperate/prooperate.go` | the list of Go channels, one mutex, each channel's buffer of 10 | `eventTrigger` (HTTP POST), `eventNotification` (a websocket per page), `addChannel`, `removeChannel` | `EventRelay`, `EventBroadcast` |
| Transaction server | `websql/websql.go`, `websql/handler.go` | the maps `databases` and `transactions`, `nextId`, one lock, a timer per transaction, each handler's `txId` | begin, exec, changeVersion, commit, abort on a websocket; open, close, closeAll, removeAllWebSQLDB over HTTP | `WebSqlServer` |
| Page's Web SQL object | `pjf/websql.js` | the queue of tasks, `running`, `changeVersionForceFail`, the websocket and the promise that waits on it | `openDatabase`, `transaction`, `changeVersion`, `executeSql`, and the page's callbacks | `WebSqlPage` |
| Page and server together | the last two | both | the commands and answers on the wire, cuts | `WebSqlSystem` |
| Database creation and versions | `websql.go` (`Open`, `DatabaseVersion`, `ChangeDbVersion`, `DeleteAllDatabases`...), `handler.go`, `websql.js` (constructor, `getVersion`) | the SQLite files and their version row, the ids | open, version check and change, removal of the files, restart | `OpenDatabase` |
| ProOperate object | `pjf/prooperate.js` | listeners, network state, the event socket | listeners, `handleEvent`, reconnection after 500 ms | `EventSystem` on `EventBroadcast` |
| Content files | `prooperate/profileoperate.go`, `pjf/profileoperate.js` | the files of the content directory | readFile, writeFile | `FileOperate` |
| Server start, static files | `main.go` | none that is shared | flags, routes, `_dev.js` files served in place of others | no: pure I/O |
| Log | `websql/logger.go` | the logger | formatting | no: nothing depends on it |

How they interact. A page opens a database with a synchronous HTTP request, then
holds one websocket for each database object and sends one command at a time on it.
On the server each websocket has a goroutine (`transactionHandler`), each HTTP
request another, each transaction a timer that fires after five minutes; all of them
share the two maps behind one lock, and `database/sql` and SQLite below. SQLite calls
back into the server from the middle of a statement: the authorizer takes the same
lock. Events go the other way: whoever posts to `eventTrigger` (a test script, `curl`)
walks the channels of all pages with a mutex held, and the goroutine of each page
copies its channel to its websocket.

What is hard, and what makes each part correct:

- *Relay*: triggers, registrations and departures interleave, and a trigger may wait
  for a slow page with the mutex held. Correct means that nobody misses, repeats or
  reorders an event while connected, and that nobody waits for ever.
- *Server*: a timer, a command, the end of a connection and a closeAll may all want to
  finish the same transaction; the lookup and the use of a transaction are two critical
  sections. Correct means one finisher, no forgotten transaction, no wrong answer to a
  commit, and that everything ends.
- *Page*: tasks are scheduled from timers and callbacks, callbacks throw, answers are
  matched to commands only by their order. Correct means tasks in order, one outcome
  for each, and no answer taken for another command's.
- *Together*: the outcome the page is told must be what SQLite did, while timers fire
  and the network is cut.
- *Databases*: `Open` is a sequence of statements in no transaction, and inserts its
  result in the map long after it looked at the file; meanwhile others open the same
  name, change the version, close all, remove the files, or the server dies. Correct
  means one creator for a file, no database without its version, that a page of this run of the
  server never gets to another's database, and that a removed file is out of use but for
  those who had it in hand outside the maps.
- *ProOperate object*: sockets fail and are replaced while listeners come and go. Correct
  means events in order and at most once over all the sockets of a page, a network state
  that agrees with them, and a page that comes back.
- *Files*: handlers of different pages open, write and read one file without a lock.
  Correct means what the flags of the opens and the page's blocking calls can give:
  appends stay whole, reads have no gap, a page reads what it wrote.

`hazards` in `PROJECT.json` lists these one by one, each at its line.

## The modules

`EventBroadcast` is the abstract relay: one order of events, each page sees a
gap-free piece of it. It mentions no mutex, channel or goroutine.

`EventRelay` is the code. A trigger goes through `Arrive` (body read), `LockForSend`
(the lock, and the slice that `range` fixes), a `Send` for each channel, and `Unlock`.
A page goes through `Upgrade`, `AddChannel`, then `TakeMessage`/`Write` until
`SeeDisconnect` and `RemoveChannel`; its watcher goroutine is `WatcherReports`. A
`Write` that fails drops its message and goes on serving, as the `break` inside the
`select` does. The select's two cases are two actions, so either may be taken when both are
ready. `WriteReturns` says which pages' `WriteMessage` is sure to return: `Stallers` may
keep their connection and stop reading. `log`, `joined` and `got` are history variables: they record the order of
the events and guard nothing.

`WebSqlServer`: one program counter for each handler (`pc`), timer (`timer`) and HTTP
request (`rpc`). A critical section that cannot wait inside is one step that needs the
lock to be free; only `closeConnectionsLocked` waits with the lock held, so `lock` names
the request that is inside it. `txId[c]` is the handler's local variable of that name. A
`sql.Tx` is the value `txState[i]`: open, being committed or rolled back, over. Of
`database/sql` the model uses what the code depends on: operations on a Tx that is over
fail, `Rollback` first marks the Tx and then waits for the query in flight on it, and
`Begin` fails on a closed `DB`. Of SQLite: a statement may fail at any time, and
compiling one that inserts calls the authorizer. `Exec`'s panic (`getConn` on a Tx that
is over) and `begin`'s early return leave the hijacked connection open with nobody
reading it: `pc = "orphan"`.

| Code | Actions |
|---|---|
| `transactionHandler` reads, dispatches, ends | `Connect`, `Receive`, `Disconnect` |
| `BeginTransaction` | `LookupDb`, `BeginTx`, `Register` |
| `Exec`, `ChangeDbVersion` | `LookupTx`, `GetConn`, `StartQuery`, `Prepare`, `EndQuery`, `Collect` |
| `Commit`, `Abort` | `TakeTx`, `StartCommit`, `EndCommit`, `FinishAbort` |
| the timer | `Fire`, `TimerRollback`, `TimerRolledBack` |
| `Open` (once the file is ready), `Close` | `Open`, `InsertDb`, `Close`, `CloseDb` |
| `CloseAllConnections`, `DeleteAllDatabases` | `CloseAll`, `RollbackNext`, `RolledBack`, `CloseAllEnd` |

`WebSqlPage`: a step is what the JavaScript does between two awaits. A task is its
number in the order of scheduling; `kinds` says what each is, `step` where the current
one is. `Tick` is a posted `doNext`, `Finish` the one in `ret.finally`. `Callback` is the
page's own code: it calls `executeSql` any number of times, or throws. The server is an
environment here (`Take`, `Serve`) that works on one command at a time and may answer
ok, answer with an error, or not at all.

`WebSqlSystem` instantiates both and adds no logic of its own: the page's steps are
`Page!...`, the server's `Server!...`, and the module says only which of them happen
together (`Upgraded`, `Received`) and what the wire does (`Cut`, `Hangup`). The page's
`busy` is mapped to "the handler is between ReadJSON and WriteJSON".

`OpenDatabase` takes over where `WebSqlServer` abstracts: the files. Every object has a name
(names are escaped injectively, so two names share only `nextId` and the maps), and a file
is an inode, because `os.Remove` takes the name away from under whoever has it open.
`obj[o].pc` follows one call of `Open` through its statements, then the page that has the
id. An `sql.DB`, the handle, goes by the object whose `Open` made it: `databases` maps ids
to handles, `open` is the set of those that are not yet closed, and `via` is the handle
that a read of the version, a begin or a close has taken from the map and uses after it has
given the lock back. A page outlives a crash of the server (`stale`) and goes on with its
old id: it may read `db.version`, begin (if its websocket had not been opened before) and
close, and gets to whatever database has that id now. A transaction is followed only as far
as it changes the version; `BeginTransaction` and `Commit` are as many steps as they have
critical sections and calls, so a transaction that is begun and not registered, or that is
being committed, is in no map. `CloseConnections` is one step, since `WebSqlServer` has its
inside; `RemoveAll` then still holds the lock until the last `Unlink`, one for each file, any
of which may fail.

| Code | Actions |
|---|---|
| `new DB(...)`, `Open` | `CallOpen`, `Lookup`, `Check`, `Create`, `SetVersion`, `Insert`, `OpenFails` |
| `BeginTransaction` | `LookupDb`, `Begin`, `Register` |
| `ChangeDbVersion` | `Compare`, `Replace` |
| `Commit`, `Abort` | `TakeTx`, `Commit`, `Abort` |
| `db.version`, `DatabaseVersion` | `AskVersion`, `ReadVersion` |
| `Close` | `Close` (out of the map), `CloseDb` |
| `CloseAllConnections`, `DeleteAllDatabases` | `CloseAll`, `RemoveAll`, `Unlink` |
| the process ends and is started again | `Crash` |

`EventSystem` is `prooperate.js` on top of the relay. It instantiates `EventBroadcast`, not
`EventRelay`: the proofs show that the relay implements it, so the page is checked against
the promise and not once more against mutex and channels. Its pages are connections there,
`<<p, k>>` being the k-th socket of page p. `Handle` is one `onmessage` with the whole of
`handleEvent`; `Reconnect` is the timer that `onclose` sets; `told` records what a page's
listeners were called with.

`FileOperate` has the page's call (`Send`, `Return`, `Break`) and the handler (`OpenFile`, `Write`,
`Read`, `Fail`) of each request. The data are blocks that name who wrote them, so a property
can see whose data are where. The file system is external, with what POSIX gives local
files: an open with `O_TRUNC` empties the file, a write call excludes other write calls but
not reads, `O_APPEND` puts it at the end.

The `...Proofs` modules hold the theorems, one for each module of the code. The `MC...`
modules give the symmetry sets for TLC. Operators introduced by `Slip:` are the mutants; no
specification uses them.

## The runs

| Run | Shows |
|---|---|
| `relay` | 2 triggers, 2 pages of which one may leave or stall, channels of 1, fairness: nothing is lost, repeated or reordered, `EventRelay` implements `EventBroadcast`; events arrive, triggers return and handlers end, unless `Stuck` |
| `relay_stuck` | finding: `Stuck` does happen, `EventReachesPages` is violated |
| `server_safety` | 2 connections, 1 request, 3 ids: one finisher, no leak, truthful commits, clean ends |
| `server_live` | 1 connection, 1 request, 3 ids, fairness: closeAll ends, transactions end, commands are answered, unless `Stuck` |
| `server_stuck` | finding: `Stuck` does happen, `CloseAllEnds` is violated |
| `page_safety` | 1 object, 4 tasks, 3 statements: order, no stranded task, one outcome, answers matched |
| `page_forcefail` | finding: the flag outlives a creation callback that throws |
| `system_safety` | 1 object, its connection, 1 request, 3 ids, 2 tasks, 1 statement: the page is told what happened |
| `system_live` | the same with 2 ids and without closeAll, fairness: every task ends, and the server is one as `WebSqlPage` assumes |
| `open_database` | 2 objects on one name, 2 versions, 2 files, 1 crash: creation, versions, closing, removal, restart |
| `event_system` | 1 page with 2 sockets, 3 events for two listeners, fairness: order, network state, coming back, handling |
| `file_operate` | 2 pages, 5 requests (2 overwrite, 2 append, 1 reads), 2 faults: what the open flags and the blocking calls give |

What the properties except is stated in them, and each exception is a state that the runs
reach. What the maps do not have when `removeAllWebSQLDB` unlinks its file goes on with the removed
file (`RemovedStaysRemoved`: `missed`): an `Open` at work on it, a handle that a `Close` has
taken out and not closed, a transaction between `db.Begin` and the map, and one that `Commit`
has taken out. These four are all, but for transactions on such handles. A page from before a
crash gets to the database of another page (`OwnDatabase`: `stale`); a page of the present run
never does, and what it reads with its id is its own file, if that was not removed from under
its `Open` or while a stale page closed its id (`missed`). A page whose connection was cut may be told of a failure although the
transaction is committed (`NoFalseFailure`). A write that fails half-way is answered as if
it had been done (`KeptWhole`, `ReadsOwnWrites`). The creator of a file sets its version last, over a
`changeVersion` that came before (`ChangesCompared`). An overwriting write spoils what is read or
written while it is open (`FileOperate`'s `spoiled`).

Bounds. A channel of 1 is full after one event, so every wait on a full channel happens
with two triggers, which also race for the mutex; the relay's invariants and the refinement
are proved for any number. Three ids are a database and two transactions (two connections with one each,
or one connection that begins twice), or two databases and a transaction. Four tasks let
a creation callback schedule others behind tasks that are already queued. `MaxSql = 3`
lets a callback add to a queue the loop is walking. Two objects
are enough for every race of two opens, or of two changes of the version; a second file is
what an open after a removal makes, and one crash interrupts an `Open` at any point and
lets the ids start again while a page of the run before is there. One name is enough to tell
handles apart, since a handle goes by its object; with two, TLC also passes, in
three times the time, and the theorems hold for any set of names. With two sockets a page loses its connection and comes back with
the events of the first still under way; the three events are one that sets the network
state, one with another code for the same listener, and a key, which needs two listeners.
The two overwriting writes of `file_operate` have one block and two, so that one can leave
a rest of the other. `MaxId`, `MaxTasks`, `MaxSql`, `MaxFiles`, `MaxCrashes`, `MaxConns` and `MaxFaults`
appear only in guards and types; the theorems hold for every `MaxId`.

Deadlock is not checked: triggers, connections, ids and tasks are bounded and run out,
and a page may leave for good. What deadlock would have shown is stated as liveness.
The relay's and the server's liveness properties name the only state in which
everybody waits for ever (`Stuck`) and hold but for it; `relay_stuck` and
`server_stuck` show that it is reached.

Symmetry (`server_safety`, `open_database`) permutes connections and requests, or
objects and names, of which no definition singles one out; those runs check safety only.

Fairness. A goroutine that can run does: WF where a step stays enabled until it is
taken. The steps that take a mutex are enabled off and on; Go's mutex goes to starvation
mode and hands over to a waiter that has waited 1 ms, and a `select` picks at random
among its ready cases, hence SF for those. Timers do fire. A page of
`Stallers` that has not left need not let `Write` return: then its channel fills, the next trigger
waits and so do all pages, which is the second way to be `Stuck`. In `event_system` the browser
ends every attempt to connect one way or the other, runs `onmessage` and `onclose`, and fires
the timer; the relay registers connections and delivers what it owes, as
`EventsArrive` says of `EventRelay`. In `system_live` the browser
runs its turns and the wire delivers what is on it; a connection the server
has abandoned is closed by the finalizer of Go's `netFD` at a garbage collection, which
the runtime forces every two minutes. Nothing that comes from outside is fair:
triggers, commands, departures, new requests, and what a page's code chooses to do.
`system_live` leaves closeAll out, since `server_stuck` shows that it may block
everything.

### Findings

1. `relay_stuck`. The comment at `prooperate.go:38` says events are delivered to every
   added channel. With a full channel whose page has left, `eventTrigger` (line 47)
   waits in `ch <- data` with the mutex held and that page's handler waits for the mutex
   in `removeChannel` (line 68). No later trigger gets through.
2. `server_stuck`. `closeConnectionsLocked` (`websql.go:473`) calls `Rollback` with the
   lock held, `Rollback` waits for the statement in flight, and the statement's
   authorizer (line 269) waits for the lock. `handler.go:282` says closeAll is used to
   close the databases by force.
3. `page_forcefail`. `websql.js:51-53` sets a flag, calls the creation callback and resets
   the flag without a `finally`; the comment at line 10 says that changeVersion fails
   during the callback.

## The proofs

Each proof module shows `Init => Inv`, one lemma for each action that the action
preserves `Inv`, and `Inv => Property`; the last step of each theorem is PTL.

| Module | Theorems | Assumption on the constants |
|---|---|---|
| `EventRelayProofs` | `TypeOK`, `NoEventLost`, `PagesAgree`, refinement of `EventBroadcast` | `RelayAssumption`: the capacity is positive, the sets are disjoint |
| `WebSqlServerProofs` | `TypeOK`, `SingleFinisher`, `NoTxLeaked`, `AckedIffCommitted`, `EndedLeavesNothing` | `ServerAssumption`: `NoOne` is not a request, the statements are among the three kinds |
| `WebSqlPageProofs` | `TypeOK`, `TasksInOrder`, `NoTaskStranded`, `OneOutcome`, `AnswersMatch` | `PageAssumption`: the bounds are numbers |
| `WebSqlSystemProofs` | `SuccessMeansCommitted`, `NoFalseFailure`, `BeginFindsNone`, refinement of `WebSqlPage` (`PageRespected`) and of `WebSqlServer` | `SystemAssumption`: the bounds are numbers, the closers are requests and `NoOne` is not |
| `OpenDatabaseProofs` | all six properties of its run | `OpenAssumption`: the bounds on files and crashes are numbers, `""` is not among the versions |
| `EventSystemProofs` | `TypeOK`, `ToldInOrder`, `NetworkStatCurrent` | `EventAssumption`: a page has one socket or more, events have an api and a code |
| `FileOperateProofs` | `TypeOK`, `KeptWhole`, `ReadsBeginning`, `ReadsOwnWrites` | `FileAssumption`: a request overwrites, appends or reads, and has a size of 1 or more |

Sets of triggers, pages, connections, requests, objects, names and versions need not be finite.

`EventRelayProofs`. The properties are not inductive: that the copy a trigger sends next
is the next event of the log needs that the holder of the mutex is the last of the log (`MutexInv`), that it still has to serve registered
channels only and each once (`ChannelInv`, `TodoInv`), and that a registered channel
lacks an event exactly when it is still to be served (`CountInv`). `SliceInv` says that
everything put into a channel is a slice of the log, `ReceivedInv` relates what a page
received to what its handler took. The lemmas before it are about sequences: `RemoveFirst`
on an injective sequence, and when a slice stays one. The refinement maps the log to
`published`, and what a page was sent on its websocket to `seen`; only `LockForSend`, `AddChannel`,
a `Write` that succeeds and `PageLeaves` are steps of the broadcast, one lemma for each, and
every other step is a stutter. It uses the invariant for `Write`: the message in hand is
the next event of the log (`ReceivedInv`, `SliceInv`), and for a trigger: it is logged once.

`WebSqlServerProofs`. The invariant says where a transaction can be: which ids are in use
and for what (`Names`), which handler has which transaction and what it then knows
(`Ownership`), that a registered transaction has an armed timer and that a timer that took
it has it for itself (`TimerOwns`), and that the map holds only open transactions unless
the request that has the lock is rolling them back (`LockProtects`).

`OpenDatabaseProofs`, for any number of objects, names, files and crashes. The properties speak
of pages that Open has answered, so the invariant follows Open from its first query: an
object on a file is on the one at its name or has missed its removal (`ObjectInv`); an object
that has come past `CREATE TABLE` is the only one on its file, and whoever is to be given a
file that needs a version row finds one (`CreationInv`); every handle in the map is open and
of the page of this run that has its id, ids of such pages differ, and their reads of the
version have their own handle (`MapInv`). Handles and transactions outside the maps are what
makes `RemovedStaysRemoved` hard: an open handle is in the map or in the hand of a `Close`,
and on the file at its name or has missed its removal (`OpenInv`), so that what
`CloseConnections` leaves open is exactly what the unlinking that follows marks; while the
files are being unlinked both maps are empty, so that nothing registered can lose its file
(`MapInv`, `TxInv`). What a transaction has compared with is still in the file, as it has the
SHARED lock since (`TxInv`, the heart of `ChangesCompared`). Files only ever gain a table and a
row (`Grown`), which is why a crash between the two writes of Open breaks none of it. `Move`,
`MoveMap` and `MoveOpen` say what a step of one object leaves alone in each part of the
invariant, `GotoStep`, `GivenStep` and `TxMove` are the shared arguments for a step of Open, of a
page that has its id and of a transaction.

`WebSqlPageProofs`. Objects share nothing, so the invariant is about one object, and
every step keeps what it says of the others. Tasks are taken up in the order of their
numbers: the ended ones are 1, 2, ..., the current one and the queue go on from there
(`QueueInv`), which is `TasksInOrder` place by place. An idle object with a queue has a
`doNext` posted, and there are never more of those than tasks (`StepInv`). A task has been
told nothing until its catch or its end, and something after it unless it was a creation
callback (`CallInv`); `OneOutcome` alone would not say that a task that goes on has been
told nothing. `WireInv` is `AnswersMatch` with what makes it inductive: a task that awaits
an answer has an open socket, and nothing is on the wire before it is open. Settling,
finishing, failing and going on (`SettleResult`, `FinishResult`, `FailResult`,
`AdvanceResult`) are lemmas of their own, as most actions end in one of them.

`WebSqlSystemProofs`. Both parts are instances, and the first lemmas show that a step of the
system is a step, or a stutter, of each. For the server that needs only
to know what can be on the wire; for the page it needs the invariant, because the page's `busy` is derived from the handler:
a handler that writes an answer must find the place for it empty. With that, `Inv` of the page and
`Inv` of the server carry over, and what is left to show is what ties the two together.
`HandlerInv` says at which command a handler is and what that means. `CommandInv` says that
while the socket is open this is the command of the step that the task awaits. `TxInv` says
that the handler's transaction is the one that the page's task began: none before the begin
and after the end, `ran[c][current[c]]` in between, and for a commit whether it was
acknowledged. `RanInv` says that no two tasks have the same transaction and no other handler
has it, so that only a task's own commit decides on what it is told (`OutcomeInv`). Timers and
closeAll do not appear: that they commit nothing (`TimerCommitsNot`, `RequestCommitsNot`) and
that the transaction of a handler that is not committing is not committed (`NotCommitting`, from
the server's `NoTxLeaked` and `AckedIffCommitted`) is all that is used of them. `BeginFindsNone` needs
no exception for abandoned connections: nothing answers there any more, so the task does
not end, and no other begins, while the socket is open. `PageRespected` is proved as well as checked: what `WebSqlPage` proves with any server
holds with this one.

`EventSystemProofs`. `ToldInOrder` speaks of one page over many sockets. A socket has seen a
slice of the relay's order from its registration on (`SeenInv`); a later socket is made
only when those before are done (`SocketInv`), and registers at the relay's end of that
moment, hence beyond everything the page was told (`Reached`). `ToldInv` is the property without
the choice of a position.

`FileOperateProofs`. Where the blocks of a write are is said only of a handler that nothing
spoils: they begin behind some place and, for an append that is writing, end at the end of the file
(`PieceInv`), which holds because one write call at a time has the file (`WriterInv`) and
no overwriting write is open beside it (`AloneInv`). A read has got the file up to its offset
(`ReadInv`), since nothing before an offset changes while no such write is open; and what had
been written whole before a read began is before its end (`OwnInv`). An
append never spoils anything, so no property makes an exception for one.

Only model-checked: the liveness properties (`EventsArrive`, `TriggerReturns`, `HandlerEnds`,
`CloseAllReturns`, `TransactionsEnd`, `CommandsAnswered`, `TasksFinish`, `BackOnAir`,
`EventsHandled`), which are out of reach of the provers used, as they rest on fairness and
ENABLED. That the relay and the system implement what `EventSystem` and `WebSqlPage` assume of them
is proved for their safety parts only.

## What is left out

- The values that statements read and write, but for the version row, and the numbers
  `GetInfo` reads: no property is about them. A statement either succeeds or fails.
- Unknown commands (logged and not answered) and a `dbId` that does not parse: the
  pages of this repository send neither.
- The wrap of `nextId` after 2^32 - 1 opens and transactions.
- In `OpenDatabase`, the moment at which the websocket connects: it does so with the first
  begin, once for an object, so also after a crash that came while it was connecting. And the
  ids of transactions: they come from the same counter (`WebSqlServer` has them) and would only
  leave gaps here between those of databases.
- `executeSql` on a transaction that is over: it fills a queue that nobody reads.
- A handle whose file was removed may make a new, empty file at the name when it opens a
  second connection: `FilesOf` has the file at the name, and not one made like that.
- In `prooperate.js`, the `beforeunload` handlers that stay behind with every reconnection (they
  close sockets that are closed), and the stubs that return fixed values.
- Empty writes, and file systems on which an append does not exclude another.
- Texts of errors, result sets, logging (`logger.go`), flags and static files (`main.go`): no state
  that several actors share.

## Plan

Done, in this order: the relay with its abstract specification; the server; the page;
the two together; the invariants of the relay and the server proved; the relay shown to
implement its abstract specification, with pages that stall; the opening of databases, their
versions, removals and crashes, checked and proved; the ProOperate object on the relay; the content
files; the page, the two together, the ProOperate object and the files proved, and the
system shown to implement its two parts.

Every safety property of the passing runs is proved. What could follow: a module that runs
`EventSystem` on `EventRelay` itself, so that the liveness of the two is checked together.

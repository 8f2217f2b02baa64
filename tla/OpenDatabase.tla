---------------------------- MODULE OpenDatabase ----------------------------
(***************************************************************************)
(* How websql/websql.go opens databases (Open), keeps their versions       *)
(* (changeVersion, the property db.version) and removes their files        *)
(* (DeleteAllDatabases), through crashes of the server.                    *)
(*                                                                         *)
(* Each object has its name and its sql.DB, the handle, which carries the  *)
(* object's name in the model.  Names are escaped injectively into file    *)
(* names.  A file is an inode: removing unlinks it from the name, and      *)
(* whoever has it open keeps it.                                           *)
(*                                                                         *)
(* SQLite is external.  A statement outside a transaction is one step; a   *)
(* transaction has a SHARED lock from its first read and the RESERVED one  *)
(* from its first write, and commits when it is the only reader.  Any      *)
(* statement may fail: busy, out of space, file unlinked.                  *)
(***************************************************************************)
EXTENDS Naturals, Sequences

CONSTANTS
  Objects,    (* the calls of openDatabase, each an object of some page    *)
  Names,      (* the names of databases                                    *)
  Versions,   (* the version strings that are not empty                    *)
  MaxFiles,   (* bound on the files made under the name                    *)
  MaxCrashes  (* bound on the crashes of the server                        *)

ASSUME OpenAssumption ==
  /\ MaxFiles \in Nat \ {0}
  /\ MaxCrashes \in Nat
  /\ "" \notin Versions

VARIABLES
  files,      (* the files: has it the info table, and the table's rows    *)
  path,       (* the file at each name; 0 is none                          *)
  removing,   (* the names that DeleteAllDatabases has still to unlink: it *)
              (* holds the lock and has closed what was in the maps        *)
  databases,  (* the map from ids to handles                               *)
  open,       (* the handles that Insert put in the map, until db.Close()  *)
  nextId,
  obj,        (* where each object is, and what it knows                   *)
  tx,         (* the transaction of each object's connection               *)
  crashes

openVars == <<files, path, removing, databases, open, nextId, obj, tx, crashes>>
maps == <<removing, databases, open, nextId>>
serverMemory == <<maps, tx, crashes>>

AllVersions == Versions \cup {""}
Inodes == 1..MaxFiles

\* pc: "failed" is an exception thrown at the page.  stale: the object has
\* outlived the server that gave it its id.  via: the handle that a read of
\* db.version or a close has taken from the map.  missed: history, the file
\* was removed while Open was at work on it, or a Close had the handle.
OpenSteps == {"lookup", "check", "create", "setVersion", "insert"}
Object == [pc : {"idle", "failed", "given", "reading", "closing", "closed"}
                \cup OpenSteps,
           name : Names, want : AllVersions, created : BOOLEAN,
           file : 0..MaxFiles, id : Nat, stale : BOOLEAN,
           ws : {"none", "open", "lost"}, via : Objects, missed : BOOLEAN]

\* "found": the handle is in hand.  "committing": taken out of the map.
\* shared: it holds a SHARED lock, and from "replaced" on the RESERVED one.
\* missed: history, the file was removed while the map did not have it.
InMap == {"registered", "compared", "replaced"}
Reserving == {"replaced", "committing"}
Transaction == [st : {"none", "found", "begun", "committing"} \cup InMap,
                via : Objects, file : 0..MaxFiles,
                old : AllVersions, new : AllVersions,
                shared : BOOLEAN, missed : BOOLEAN]

NoTx(o) == [st |-> "none", via |-> o, file |-> 0, old |-> "", new |-> "",
            shared |-> FALSE, missed |-> FALSE]

Init ==
  /\ files = <<>>
  /\ path = [n \in Names |-> 0]
  /\ removing = {}
  /\ databases = <<>>
  /\ open = {}
  /\ nextId = 0
  /\ \E nameOf \in [Objects -> Names] :
       obj = [o \in Objects |->
                [pc |-> "idle", name |-> nameOf[o], want |-> "",
                 created |-> FALSE, file |-> 0, id |-> 0, stale |-> FALSE,
                 ws |-> "none", via |-> o, missed |-> FALSE]]
  /\ tx = [o \in Objects |-> NoTx(o)]
  /\ crashes = 0

-----------------------------------------------------------------------------
(* SQLite and the information table                                        *)

EmptyFile == [table |-> FALSE, rows |-> <<>>]

\* getDatabaseVersion: the first row, or "" when there is none.
StoredVersion(f) ==
  IF files[f].rows = <<>> THEN "" ELSE Head(files[f].rows)

\* Nobody but the transaction of o keeps others from writing the file.
CanWrite(o, f) ==
  \A other \in Objects \ {o} : ~(tx[other].file = f /\ tx[other].shared)

\* REPLACE INTO ... VALUES (0, v): the one row of the table.
Replaced(f, v) == [files EXCEPT ![f].rows = <<v>>]

At(o, l) == obj[o].pc = l
Goto(o, l) == obj' = [obj EXCEPT ![o].pc = l]
InUse(o) == obj[o].pc \in {"given", "reading"}
FileAtName(o) == path[obj[o].name]
LockFree == removing = {}

-----------------------------------------------------------------------------
(* Open                                                                    *)

\* openDatabase(name, version, ...), of any page.
CallOpen(o) ==
  /\ At(o, "idle")
  /\ \E v \in AllVersions :
       obj' = [obj EXCEPT ![o].pc = "lookup", ![o].want = v]
  /\ UNCHANGED <<files, path, serverMemory>>

\* doesDatabaseInfoExists: the first query opens the file, and makes it if
\* there is none.
Lookup(o) ==
  /\ At(o, "lookup")
  /\ IF FileAtName(o) # 0
     THEN UNCHANGED <<files, path>>
     ELSE /\ Len(files) < MaxFiles
          /\ files' = Append(files, EmptyFile)
          /\ path' = [path EXCEPT ![obj[o].name] = Len(files) + 1]
  /\ LET f == path'[obj[o].name]
         exists == files'[f].table
         next == IF ~exists THEN "create"
                 ELSE IF obj[o].want # "" THEN "check" ELSE "insert"
     IN obj' = [obj EXCEPT ![o].pc = next, ![o].file = f,
                           ![o].created = ~exists]
  /\ UNCHANGED serverMemory

\* The database exists: is its version the one asked for?
Check(o) ==
  /\ At(o, "check")
  /\ Goto(o, IF StoredVersion(obj[o].file) = obj[o].want THEN "insert"
             ELSE "failed")
  /\ UNCHANGED <<files, path, serverMemory>>

\* Slip: CREATE TABLE IF NOT EXISTS.
CreateIfMissing(o) ==
  /\ At(o, "create")
  /\ files' = [files EXCEPT ![obj[o].file].table = TRUE]
  /\ Goto(o, "setVersion")
  /\ UNCHANGED <<path, serverMemory>>

\* createDatabaseInfo: CREATE TABLE, which fails if the table is there by now.
Create(o) ==
  LET f == obj[o].file
  IN /\ At(o, "create")
     /\ ~files[f].table
     /\ CanWrite(o, f)
     /\ files' = [files EXCEPT ![f].table = TRUE]
     /\ Goto(o, "setVersion")
     /\ UNCHANGED <<path, serverMemory>>

\* Slip: the error of setDatabaseVersion is not looked at.
SetVersionUnchecked(o) ==
  LET f == obj[o].file
  IN /\ At(o, "setVersion")
     /\ \/ /\ CanWrite(o, f)
           /\ \E v \in {"", obj[o].want} : files' = Replaced(f, v)
        \/ UNCHANGED files
     /\ Goto(o, "insert")
     /\ UNCHANGED <<path, serverMemory>>

\* setDatabaseVersion: the version asked for, or "" if the page gave a creation
\* callback.
SetVersion(o) ==
  LET f == obj[o].file
  IN /\ At(o, "setVersion")
     /\ CanWrite(o, f)
     /\ \E v \in {"", obj[o].want} : files' = Replaced(f, v)
     /\ Goto(o, "insert")
     /\ UNCHANGED <<path, serverMemory>>

\* A query of Open fails: the handle is closed and the page gets an exception.
\* What the earlier ones wrote stays.
OpenFails(o) ==
  /\ obj[o].pc \in OpenSteps \ {"insert"}
  /\ Goto(o, "failed")
  /\ UNCHANGED <<files, path, serverMemory>>

\* databases[id] = db.
WithHandle(id, o) ==
  [i \in DOMAIN databases \cup {id} |-> IF i = id THEN o ELSE databases[i]]

\* The handle goes into the map, and the id to the page.
Give(o, id) ==
  /\ databases' = WithHandle(id, o)
  /\ open' = open \cup {o}
  /\ obj' = [obj EXCEPT ![o].pc = "given", ![o].id = id]

\* Slip: nextId++ in place of the atomic add; an increment may get lost.
InsertRacy(o) ==
  /\ At(o, "insert") /\ LockFree
  /\ nextId' \in {nextId, nextId + 1}
  /\ Give(o, nextId + 1)
  /\ UNCHANGED <<files, path, removing, tx, crashes>>

\* Slip: the map is written without the lock.
InsertUnlocked(o) ==
  /\ At(o, "insert")
  /\ nextId' = nextId + 1
  /\ Give(o, nextId')
  /\ UNCHANGED <<files, path, removing, tx, crashes>>

\* The id, the map, and the answer to the page.  Transactions take ids from
\* the same counter, and leave gaps between these.
Insert(o) ==
  /\ At(o, "insert") /\ LockFree
  /\ nextId' = nextId + 1
  /\ Give(o, nextId')
  /\ UNCHANGED <<files, path, removing, tx, crashes>>

-----------------------------------------------------------------------------
(* A transaction that changes the version                                  *)

\* The files that a connection of handle d may have open: that of its Open,
\* or, for a second connection, the one at the name now.
FilesOf(d) == {obj[d].file, FileAtName(d)} \ {0}

TxStep(o, r) == tx' = [tx EXCEPT ![o] = r]
elsewhere == <<path, maps, obj, crashes>>

\* BeginTransaction takes the handle for the id from the map.  The websocket
\* is the one that the object has, or was still connecting: a page from before
\* a crash may get through to this run of the server, with its old id.
LookupDb(o) ==
  /\ InUse(o) /\ obj[o].ws # "lost"
  /\ tx[o].st = "none" /\ LockFree
  /\ obj[o].id \in DOMAIN databases
  /\ obj' = [obj EXCEPT ![o].ws = "open"]
  /\ TxStep(o, [tx[o] EXCEPT !.st = "found", !.via = databases[obj[o].id]])
  /\ UNCHANGED <<files, path, maps, crashes>>

\* It begins, if that was not closed in between, with a lazy BEGIN,
Begin(o) ==
  /\ tx[o].st = "found" /\ tx[o].via \in open
  /\ \E f \in FilesOf(tx[o].via) :
       TxStep(o, [tx[o] EXCEPT !.st = "begun", !.file = f])
  /\ UNCHANGED <<files, elsewhere>>

\* and puts the transaction in its map.
Register(o) ==
  /\ tx[o].st = "begun" /\ LockFree
  /\ TxStep(o, [tx[o] EXCEPT !.st = "registered"])
  /\ UNCHANGED <<files, elsewhere>>

\* Slip: the version is read through the pool, not through the transaction.
CompareOutside(o) ==
  /\ tx[o].st = "registered"
  /\ files[tx[o].file].table
  /\ TxStep(o, [tx[o] EXCEPT !.st = "compared",
                             !.old = StoredVersion(tx[o].file)])
  /\ UNCHANGED <<files, elsewhere>>

\* ChangeDbVersion reads the version, and it is the one the page expects.
Compare(o) ==
  /\ tx[o].st = "registered"
  /\ files[tx[o].file].table
  /\ TxStep(o, [tx[o] EXCEPT !.st = "compared", !.shared = TRUE,
                             !.old = StoredVersion(tx[o].file)])
  /\ UNCHANGED <<files, elsewhere>>

\* ChangeDbVersion replaces it by the new one, in the transaction only.
Replace(o) ==
  /\ tx[o].st = "compared"
  /\ \A p \in Objects : ~(tx[p].st \in Reserving /\ tx[p].file = tx[o].file)
  /\ \E new \in AllVersions :
       TxStep(o, [tx[o] EXCEPT !.st = "replaced", !.new = new])
  /\ UNCHANGED <<files, elsewhere>>

\* Commit takes the transaction out of the map,
TakeTx(o) ==
  /\ tx[o].st = "replaced" /\ LockFree
  /\ TxStep(o, [tx[o] EXCEPT !.st = "committing"])
  /\ UNCHANGED <<files, elsewhere>>

\* and then the change reaches the file.
Commit(o) ==
  /\ tx[o].st = "committing"
  /\ CanWrite(o, tx[o].file)
  /\ files' = Replaced(tx[o].file, tx[o].new)
  /\ TxStep(o, NoTx(o))
  /\ UNCHANGED elsewhere

\* The handle was closed, the versions differ, a statement or the commit fails,
\* or the page, its connection or the timer ends the transaction.
Abort(o) ==
  /\ tx[o].st \notin {"none", "begun"}
  /\ TxStep(o, NoTx(o))
  /\ UNCHANGED <<files, elsewhere>>

-----------------------------------------------------------------------------
(* db.version                                                              *)

\* DatabaseVersion takes the handle for the id from the map, whatever page
\* asks and whichever run of the server gave it the id.
AskVersion(o) ==
  /\ At(o, "given") /\ LockFree
  /\ obj[o].id \in DOMAIN databases
  /\ obj' = [obj EXCEPT ![o].pc = "reading", ![o].via = databases[obj[o].id]]
  /\ UNCHANGED <<files, path, serverMemory>>

\* The query, which fails on a handle that was closed in between.
ReadVersion(o) ==
  /\ At(o, "reading")
  /\ obj' = [obj EXCEPT ![o].pc = "given", ![o].via = o]
  /\ UNCHANGED <<files, path, serverMemory>>

-----------------------------------------------------------------------------
(* Closing, removing, crashing                                             *)

\* The page is unloaded and closes its id, also one from before a crash: the
\* handle is taken out of the map,
Close(o) ==
  LET id == obj[o].id
  IN /\ At(o, "given") /\ LockFree
     /\ databases' = [i \in DOMAIN databases \ {id} |-> databases[i]]
     /\ IF id \in DOMAIN databases
        THEN obj' = [obj EXCEPT ![o].pc = "closing", ![o].via = databases[id],
                                ![o].ws = "lost"]
        ELSE obj' = [obj EXCEPT ![o].pc = "closed", ![o].ws = "lost"]
     /\ UNCHANGED <<files, path, removing, open, nextId, tx, crashes>>

\* and closed without the lock.
CloseDb(o) ==
  /\ At(o, "closing")
  /\ open' = open \ {obj[o].via}
  /\ obj' = [obj EXCEPT ![o].pc = "closed", ![o].via = o]
  /\ UNCHANGED <<files, path, removing, databases, nextId, tx, crashes>>

BeingClosed(d) == \E o \in Objects : At(o, "closing") /\ obj[o].via = d

\* closeConnectionsLocked: what is in the maps is rolled back and closed.
CloseConnections ==
  /\ LockFree
  /\ open' = open \ {databases[i] : i \in DOMAIN databases}
  /\ databases' = <<>>
  /\ tx' = [o \in Objects |-> IF tx[o].st \in InMap THEN NoTx(o) ELSE tx[o]]
  /\ UNCHANGED <<files, path, nextId, obj, crashes>>

\* closeAll gives the lock back; removeAllWebSQLDB lists the files, and goes
\* on with the lock.
CloseAll == CloseConnections /\ UNCHANGED removing
RemoveAll == CloseConnections /\ removing' = {n \in Names : path[n] # 0}

\* os.Remove of the next file; its error is not looked at.
Unlink(n) ==
  /\ n \in removing
  /\ removing' = removing \ {n}
  /\ \/ UNCHANGED <<path, obj, tx>>
     \/ /\ path' = [path EXCEPT ![n] = 0]
        /\ obj' = [o \in Objects |->
                     [obj[o] EXCEPT !.missed =
                        \/ @
                        \/ /\ obj[o].file = path[n]
                           /\ obj[o].pc \in OpenSteps \/ BeingClosed(o)]]
        /\ tx' = [o \in Objects |->
                    [tx[o] EXCEPT !.missed =
                       \/ @
                       \/ /\ tx[o].file = path[n]
                          /\ tx[o].st \in {"begun", "committing"}]]
  /\ UNCHANGED <<files, databases, open, nextId, crashes>>

\* The server goes down and is started again.  The files stay as the last
\* completed statement or commit left them, and so do the pages; a websocket
\* is lost, and no page connects twice.
Crash ==
  /\ crashes < MaxCrashes
  /\ crashes' = crashes + 1
  /\ removing' = {}
  /\ databases' = <<>>
  /\ open' = {}
  /\ nextId' = 0
  /\ tx' = [o \in Objects |-> NoTx(o)]
  /\ obj' = [o \in Objects |->
               [obj[o] EXCEPT !.pc = CASE @ \in OpenSteps -> "failed"
                                       [] @ = "reading" -> "given"
                                       [] @ = "closing" -> "closed"
                                       [] OTHER -> @,
                              !.stale = @ \/ InUse(o),
                              !.ws = IF @ = "open" THEN "lost" ELSE @,
                              !.via = o]]
  /\ UNCHANGED <<files, path>>

-----------------------------------------------------------------------------
OpenNext(o) ==
  \/ Lookup(o) \/ Check(o) \/ Create(o) \/ SetVersion(o) \/ Insert(o)
  \/ OpenFails(o)

PageNext(o) ==
  \/ CallOpen(o) \/ AskVersion(o) \/ ReadVersion(o)
  \/ Close(o) \/ CloseDb(o)

TxNext(o) ==
  \/ LookupDb(o) \/ Begin(o) \/ Register(o) \/ Compare(o) \/ Replace(o)
  \/ TakeTx(o) \/ Commit(o) \/ Abort(o)

Next ==
  \/ \E o \in Objects : OpenNext(o) \/ PageNext(o) \/ TxNext(o)
  \/ \E n \in Names : Unlink(n)
  \/ CloseAll \/ RemoveAll \/ Crash

Spec == Init /\ [][Next]_openVars

-----------------------------------------------------------------------------
Opened(o) == obj[o].pc \in {"given", "reading", "closing", "closed"}

\* The types of the variables; every handle in the map is open, of a file.
TypeOK ==
  /\ files \in Seq([table : BOOLEAN,
                    rows : {<<>>} \cup {<<v>> : v \in AllVersions}])
  /\ path \in [Names -> 0..Len(files)]
  /\ removing \subseteq Names
  /\ DOMAIN databases \subseteq 1..nextId
  /\ \A i \in DOMAIN databases : databases[i] \in open
  /\ open \subseteq {o \in Objects : obj[o].file # 0}
  /\ nextId \in Nat
  /\ obj \in [Objects -> Object]
  /\ tx \in [Objects -> Transaction]
  /\ crashes \in 0..MaxCrashes

(***************************************************************************)
(* A creation callback runs once for a database: of the pages that open a  *)
(* name at the same time, at most one is told that it created the file,    *)
(* also after a crash between createDatabaseInfo and setDatabaseVersion    *)
(* (Open looks for the table and makes it in two statements).              *)
(***************************************************************************)
OneCreator ==
  \A o1, o2 \in Objects :
    /\ o1 # o2 /\ Opened(o1) /\ Opened(o2)
    /\ obj[o1].created /\ obj[o2].created
    => obj[o1].file # obj[o2].file

(***************************************************************************)
(* Nobody is given a half-made database that asked for a version: if the   *)
(* creator was told so, or a version was asked for, the file has its       *)
(* version row, whatever crashed or failed before (Open's two writes).     *)
(***************************************************************************)
NoHalfMade ==
  \A o \in Objects :
    Opened(o) /\ (obj[o].created \/ obj[o].want # "")
    => files[obj[o].file].rows # <<>>

(***************************************************************************)
(* An id names one database, that of the page of this run of the server    *)
(* that was given the id: that page gets to its own or to none, whatever   *)
(* pages of the run before do with the same id; and it reads db.version    *)
(* from the file it opened, though DatabaseVersion queries without the     *)
(* lock, unless that file was removed from under its Open or its close.    *)
(* A page of the run before gets to the database that has its id now.      *)
(***************************************************************************)
OwnDatabase ==
  \A o \in Objects : InUse(o) =>
    /\ obj[o].id \in DOMAIN databases =>
         LET d == databases[obj[o].id]
         IN /\ obj[d].id = obj[o].id /\ InUse(d) /\ ~obj[d].stale
            /\ d = o \/ obj[o].stale
    /\ At(o, "reading") /\ obj[o].via \in open =>
         \/ FilesOf(obj[o].via) = {obj[o].file}
         \/ obj[o].stale \/ obj[o].missed

(***************************************************************************)
(* What removeAllWebSQLDB removed is out of use.  A handle or transaction  *)
(* goes on with a removed file only if the maps did not have it then: Open *)
(* was at work on the file, a Close had the handle in hand, BeginTransac-  *)
(* tion had not registered the transaction, Commit had taken it out; or if *)
(* the transaction comes from such a handle (closing and unlinking under   *)
(* one lock in DeleteAllDatabases, the maps' updates under the same lock). *)
(***************************************************************************)
RemovedStaysRemoved ==
  /\ \A d \in open : obj[d].file = FileAtName(d) \/ obj[d].missed
  /\ \A o \in Objects : tx[o].st \notin {"none", "found"} =>
       \/ tx[o].file = FileAtName(tx[o].via)
       \/ tx[o].missed \/ obj[tx[o].via].missed

(***************************************************************************)
(* changeVersion is a compare-and-set: once a file has its version, it is  *)
(* only replaced by a changeVersion that compared with that very version,  *)
(* however many pages change it at the same time; or by the creator of the *)
(* file, if it had not come to set the version itself (ChangeDbVersion's   *)
(* read and write, Open's setDatabaseVersion).                             *)
(***************************************************************************)
ChangesCompared ==
  [][\A f \in DOMAIN files :
       files[f].rows # <<>> /\ files'[f].rows # files[f].rows =>
         \E o \in Objects :
           \/ /\ tx[o].st = "committing" /\ tx[o].file = f
              /\ tx[o].old = StoredVersion(f)
              /\ files'[f].rows = <<tx[o].new>>
           \/ obj[o].created /\ At(o, "setVersion") /\ obj[o].file = f]_openVars
=============================================================================

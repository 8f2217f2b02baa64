------------------------- MODULE OpenDatabaseProofs -------------------------
(***************************************************************************)
(* Theorems about OpenDatabase for any sets of objects, names and versions *)
(* and any bounds on the files and crashes.                                *)
(*                                                                         *)
(* The properties speak of objects that a page has been given; Inv follows *)
(* an object from the first query of its Open on: which file it is on, who *)
(* of the creators has come past CREATE TABLE, what the map, the closing   *)
(* of handles and the locks of SQLite then protect.                        *)
(***************************************************************************)
EXTENDS OpenDatabase, SequenceTheorems, TLAPS

File == [table : BOOLEAN, rows : {<<>>} \cup {<<v>> : v \in AllVersions}]

FileInv ==
  /\ files \in Seq(File)
  /\ Len(files) <= MaxFiles
  /\ path \in [Names -> 0..Len(files)]

\* Where Open has looked at a file: on it, or given to the page.
OnFile == {"check", "create", "setVersion", "insert"}
Given == {"given", "reading", "closing", "closed"}

\* The file of an object is the one at its name, or was removed from there.
AtName(o) == obj[o].file = FileAtName(o) \/ obj[o].missed

ObjectInv ==
  /\ obj \in [Objects -> Object]
  /\ \A o \in Objects :
       /\ obj[o].file <= Len(files)
       /\ obj[o].pc \in OnFile \cup Given => obj[o].file # 0
       /\ obj[o].pc \in OnFile => AtName(o)
       /\ obj[o].stale => obj[o].pc \in Given

\* The object has made the information table of its file.
Creator(o) == obj[o].created /\ obj[o].pc \in {"setVersion", "insert"} \cup Given

CreationInv ==
  /\ \A o \in Objects : Creator(o) => files[obj[o].file].table
  /\ \A o1, o2 \in Objects :
       o1 # o2 /\ Creator(o1) /\ Creator(o2) => obj[o1].file # obj[o2].file
  /\ \A o \in Objects :
       /\ obj[o].pc = "check" => obj[o].want # "" /\ ~obj[o].created
       /\ obj[o].pc \in {"create", "setVersion"} => obj[o].created
  /\ \A o \in Objects :
       /\ obj[o].pc \in {"insert"} \cup Given
       /\ obj[o].created \/ obj[o].want # ""
       => files[obj[o].file].rows # <<>>

\* The map: every handle in it is of the page of this run that has its id.
Mine(o) == InUse(o) /\ ~obj[o].stale

MapInv ==
  /\ removing \subseteq Names /\ nextId \in Nat /\ crashes \in 0..MaxCrashes
  /\ DOMAIN databases \subseteq 1..nextId
  /\ removing # {} => DOMAIN databases = {}
  /\ \A i \in DOMAIN databases :
       /\ databases[i] \in open /\ Mine(databases[i])
       /\ obj[databases[i]].id = i
  /\ \A o \in Objects : Mine(o) => /\ obj[o].id \in 1..nextId
                                   /\ At(o, "reading") => obj[o].via = o
  /\ \A o1, o2 \in Objects :
       Mine(o1) /\ Mine(o2) /\ o1 # o2 => obj[o1].id # obj[o2].id

\* An open handle is in the map or in the hand of a Close.
Held(d) == BeingClosed(d) \/ \E i \in DOMAIN databases : databases[i] = d

\* What a Close has in hand is not in the map.
OutOfMap(o) ==
  /\ obj[obj[o].via].pc \in Given
  /\ \A i \in DOMAIN databases : databases[i] # obj[o].via

OpenInv ==
  /\ \A d \in open : d \in Objects /\ obj[d].pc \in Given /\ AtName(d) /\ Held(d)
  /\ \A o \in Objects : At(o, "closing") => OutOfMap(o)

\* A transaction that has read the version has the SHARED lock, and what it
\* read is still there.
TxFine(o) ==
  /\ tx[o].st # "none" => obj[o].pc \notin {"idle"} \cup OpenSteps
  /\ tx[o].st \notin {"none", "found"} =>
       /\ tx[o].file \in 1..Len(files)
       /\ \/ tx[o].file = FileAtName(tx[o].via)
          \/ tx[o].missed \/ obj[tx[o].via].missed
  /\ tx[o].shared <=> tx[o].st \in {"compared"} \cup Reserving
  /\ tx[o].shared => tx[o].old = StoredVersion(tx[o].file)
  /\ removing # {} => tx[o].st \notin InMap

TxInv == tx \in [Objects -> Transaction] /\ \A o \in Objects : TxFine(o)

Inv == FileInv /\ ObjectInv /\ CreationInv /\ MapInv /\ OpenInv /\ TxInv

\* Files keep their table and their version row.
Grown ==
  /\ Len(files) <= Len(files')
  /\ \A f \in 1..Len(files) : /\ files[f].table => files'[f].table
                              /\ files[f].rows # <<>> => files'[f].rows # <<>>

\* Names stay with their objects and, but for Unlink, with their files.
Kept ==
  /\ \A o \in Objects : /\ obj'[o].name = obj[o].name
                        /\ obj[o].missed => obj'[o].missed
  /\ \A n \in Names : path'[n] = path[n] \/ path[n] = 0

-----------------------------------------------------------------------------
(* The files                                                               *)

LEMMA FileFacts ==
  ASSUME FileInv
  PROVE  /\ Len(files) \in Nat /\ MaxFiles \in Nat
         /\ \A f \in 1..Len(files) : files[f] \in File
         /\ \A n \in Names : path[n] \in 0..Len(files) /\ path[n] \in 0..MaxFiles
<1>1. /\ files \in Seq(File) /\ path \in [Names -> 0..Len(files)]
      /\ Len(files) <= MaxFiles
  BY DEF FileInv
<1>2. Len(files) \in Nat /\ \A f \in 1..Len(files) : files[f] \in File
  BY <1>1, ElementOfSeq, LenProperties
<1>3. MaxFiles \in Nat
  BY OpenAssumption
<1> QED
  BY <1>1, <1>2, <1>3

LEMMA Lengths ==
  ASSUME FileInv, FileInv', Grown
  PROVE  /\ Len(files) \in Nat /\ Len(files') \in Nat /\ Len(files) <= Len(files')
<1>1. files \in Seq(File) /\ files' \in Seq(File)
  BY DEF FileInv
<1> QED
  BY <1>1, LenProperties DEF Grown

LEMMA ChangedFile ==
  ASSUME FileInv, NEW f \in 1..Len(files), NEW e \in File,
         files' = [files EXCEPT ![f] = e],
         files[f].table => e.table,
         files[f].rows # <<>> => e.rows # <<>>,
         UNCHANGED path
  PROVE  FileInv' /\ Grown /\ Len(files') = Len(files)
         /\ \A g \in 1..Len(files) : files'[g] = IF g = f THEN e ELSE files[g]
<1>1. /\ files' \in Seq(File) /\ Len(files') = Len(files)
      /\ \A g \in 1..Len(files) : files'[g] = IF g = f THEN e ELSE files[g]
  BY ExceptSeq DEF FileInv
<1> QED
  BY <1>1, FileFacts DEF FileInv, Grown

LEMMA SameFiles ==
  ASSUME FileInv, UNCHANGED <<files, path>> PROVE FileInv' /\ Grown
BY FileFacts DEF FileInv, Grown

LEMMA LookupFiles ==
  ASSUME FileInv, NEW o \in Objects, obj[o].name \in Names, Lookup(o)
  PROVE  /\ FileInv' /\ Grown /\ path'[obj[o].name] # 0
         /\ \A f \in 1..Len(files) : files'[f] = files[f]
         /\ \A n \in Names : path'[n] = path[n] \/ path[n] = 0
<1> DEFINE n == obj[o].name
<1>1. CASE path[n] # 0
  <2>1. UNCHANGED <<files, path>>
    BY <1>1 DEF Lookup, FileAtName
  <2> QED
    BY <1>1, <2>1, SameFiles
<1>2. CASE path[n] = 0
  <2>1. EmptyFile \in File
    BY DEF EmptyFile, File
  <2>2. /\ files' = Append(files, EmptyFile) /\ Len(files) < MaxFiles
        /\ path' = [path EXCEPT ![n] = Len(files) + 1]
    BY <1>2 DEF Lookup, FileAtName
  <2>3. /\ files' \in Seq(File) /\ Len(files') = Len(files) + 1
        /\ \A f \in 1..Len(files) : files'[f] = files[f]
    BY <2>1, <2>2, AppendProperties DEF FileInv
  <2>4. path \in [Names -> 0..Len(files)] /\ Len(files) \in Nat /\ MaxFiles \in Nat
    BY FileFacts DEF FileInv
  <2>5. \A m \in Names : path'[m] = IF m = n THEN Len(files) + 1 ELSE path[m]
    BY <2>2, <2>4
  <2>6. path' \in [Names -> 0..Len(files')]
    <3>1. \A m \in Names : path'[m] \in 0..Len(files')
      BY <2>3, <2>4, <2>5
    <3>2. path' = [m \in Names |-> path'[m]]
      BY <2>2, <2>4
    <3> QED
      BY <3>1, <3>2
  <2>7. FileInv' /\ Grown
    BY <2>2, <2>3, <2>4, <2>6 DEF FileInv, Grown
  <2> QED
    BY <1>2, <2>3, <2>4, <2>5, <2>7
<1> QED
  BY <1>1, <1>2

LEMMA VersionChange ==
  ASSUME FileInv, NEW f \in 1..Len(files), NEW v \in AllVersions,
         files' = Replaced(f, v), UNCHANGED path
  PROVE  /\ FileInv' /\ Grown /\ Len(files') = Len(files)
         /\ files'[f].rows = <<v>>
         /\ \A g \in 1..Len(files) : g # f => files'[g] = files[g]
<1> DEFINE e == [files[f] EXCEPT !.rows = <<v>>]
<1>1. files[f] \in File
  BY FileFacts
<1>2. e \in File /\ e.table = files[f].table /\ e.rows = <<v>> /\ e.rows # <<>>
  BY <1>1 DEF File
<1>3. files' = [files EXCEPT ![f] = e]
  BY DEF Replaced
<1>4. PICK x \in File : x = e
  BY <1>2
<1> HIDE DEF e
<1>5. /\ files' = [files EXCEPT ![f] = x] /\ x.rows = <<v>>
      /\ files[f].table => x.table
      /\ files[f].rows # <<>> => x.rows # <<>>
  BY <1>2, <1>3, <1>4
<1>6. /\ FileInv' /\ Grown /\ Len(files') = Len(files)
      /\ \A g \in 1..Len(files) : files'[g] = IF g = f THEN x ELSE files[g]
  BY <1>5, ChangedFile
<1> QED
  BY <1>5, <1>6

-----------------------------------------------------------------------------
(* A step of one object                                                    *)

LEMMA ObjectFacts ==
  ASSUME Inv, NEW o \in Objects
  PROVE  /\ obj[o] \in Object /\ obj[o].name \in Names
         /\ obj[o].file \in 0..Len(files) /\ obj[o].id \in Nat
         /\ obj[o].pc \in OnFile \cup Given => obj[o].file \in 1..Len(files)
         /\ FileAtName(o) \in 0..Len(files)
<1>1. /\ obj[o] \in Object /\ obj[o].file \in 0..MaxFiles
      /\ obj[o].name \in Names /\ obj[o].id \in Nat
  BY DEF Inv, ObjectInv, Object
<1> QED
  BY <1>1, FileFacts DEF Inv, ObjectInv, FileAtName

LEMMA StillAFile ==
  ASSUME Inv, FileInv', Grown, NEW o \in Objects
  PROVE  obj[o].file <= Len(files')
BY Lengths, ObjectFacts DEF Inv

\* An object with a file keeps it at its name, or has missed its removal.
LEMMA AtNameKept ==
  ASSUME Inv, Kept, NEW o \in Objects, AtName(o), obj[o].file # 0,
         obj'[o].file = obj[o].file
  PROVE  AtName(o)'
<1>1. obj[o].name \in Names /\ obj'[o].name = obj[o].name
  BY ObjectFacts DEF Kept
<1>2. path'[obj[o].name] = path[obj[o].name] \/ path[obj[o].name] = 0
  BY <1>1 DEF Kept
<1> QED
  BY <1>1, <1>2 DEF Kept, AtName, FileAtName

\* What the record r of object o must be like for the objects to be in order.
Orderly(o, r) ==
  /\ r.name = obj[o].name /\ (obj[o].missed => r.missed)
  /\ r.file <= Len(files')
  /\ r.pc \in OnFile \cup Given => r.file # 0
  /\ r.pc \in OnFile => r.file = path'[r.name] \/ r.missed
  /\ r.stale => r.pc \in Given
  /\ r.created /\ r.pc \in {"setVersion", "insert"} \cup Given =>
       /\ (files')[r.file].table
       /\ \A p \in Objects : p # o /\ Creator(p) => obj[p].file # r.file
  /\ r.pc = "check" => r.want # "" /\ ~r.created
  /\ r.pc \in {"create", "setVersion"} => r.created
  /\ r.pc \in {"insert"} \cup Given /\ (r.created \/ r.want # "") =>
       (files')[r.file].rows # <<>>

LEMMA Move ==
  ASSUME Inv, FileInv', Grown, NEW o \in Objects, NEW r \in Object,
         obj' = [obj EXCEPT ![o] = r], Orderly(o, r),
         \A n \in Names : path'[n] = path[n] \/ path[n] = 0
  PROVE  ObjectInv' /\ CreationInv' /\ Kept
<1>1. /\ obj' \in [Objects -> Object]
      /\ \A p \in Objects : obj'[p] = IF p = o THEN r ELSE obj[p]
  BY DEF Inv, ObjectInv
<1>2. Kept
  BY <1>1 DEF Kept, Orderly
<1>3. \A p \in Objects : obj[p].file \in 0..Len(files)
  BY ObjectFacts
<1>4. ObjectInv'
  <2> SUFFICES ASSUME NEW p \in Objects
               PROVE  /\ obj'[p].file <= Len(files')
                      /\ obj'[p].pc \in OnFile \cup Given => obj'[p].file # 0
                      /\ obj'[p].pc \in OnFile => AtName(p)'
                      /\ obj'[p].stale => obj'[p].pc \in Given
    BY <1>1 DEF ObjectInv
  <2>1. CASE p = o
    BY <1>1, <2>1 DEF Orderly, AtName, FileAtName
  <2>2. CASE p # o
    <3>1. obj'[p] = obj[p]
      BY <1>1, <2>2
    <3>2. obj[p].file <= Len(files')
      BY StillAFile
    <3>3. obj[p].pc \in OnFile => AtName(p)'
      BY <1>2, <3>1, AtNameKept DEF Inv, ObjectInv
    <3>4. /\ obj[p].pc \in OnFile \cup Given => obj[p].file # 0
          /\ obj[p].stale => obj[p].pc \in Given
      BY DEF Inv, ObjectInv
    <3> QED
      BY <3>1, <3>2, <3>3, <3>4
  <2> QED
    BY <2>1, <2>2
<1>5. \A p \in Objects : Creator(p)' => (files')[obj'[p].file].table
  BY <1>1, <1>3, ObjectFacts
     DEF Creator, Inv, CreationInv, Orderly, Grown, Given, OnFile
<1>6. \A p, q \in Objects :
        p # q /\ Creator(p)' /\ Creator(q)' => obj'[p].file # obj'[q].file
  BY <1>1 DEF Creator, Inv, CreationInv, Orderly
<1>7. \A p \in Objects :
        /\ obj'[p].pc = "check" => obj'[p].want # "" /\ ~obj'[p].created
        /\ obj'[p].pc \in {"create", "setVersion"} => obj'[p].created
  BY <1>1 DEF Inv, CreationInv, Orderly
<1>8. \A p \in Objects :
        /\ obj'[p].pc \in {"insert"} \cup Given
        /\ obj'[p].created \/ obj'[p].want # ""
        => (files')[obj'[p].file].rows # <<>>
  BY <1>1, ObjectFacts DEF Inv, CreationInv, Orderly, Grown, Given, OnFile
<1> QED
  BY <1>2, <1>4, <1>5, <1>6, <1>7, <1>8 DEF CreationInv

\* The map is not touched, and the object is of this run as before.
LEMMA MoveMap ==
  ASSUME Inv, NEW o \in Objects, NEW r \in Object,
         obj' = [obj EXCEPT ![o] = r], UNCHANGED <<maps, crashes>>,
         Mine(o) <=> r.pc \in {"given", "reading"} /\ ~r.stale,
         Mine(o) => /\ r.id = obj[o].id
                    /\ r.pc = "reading" => r.via = o
  PROVE  MapInv'
<1>1. \A p \in Objects : obj'[p] = IF p = o THEN r ELSE obj[p]
  BY DEF Inv, ObjectInv
<1>2. \A p \in Objects : /\ Mine(p)' <=> Mine(p)
                         /\ Mine(p) => obj'[p].id = obj[p].id
  BY <1>1 DEF Mine, InUse
<1>3. \A p \in Objects : Mine(p) /\ obj'[p].pc = "reading" => obj'[p].via = p
  BY <1>1 DEF Inv, MapInv, At
<1>4. UNCHANGED <<removing, databases, open, nextId, crashes>>
  BY DEF maps
<1>5. \A i \in DOMAIN databases :
        /\ databases[i] \in Objects /\ databases[i] \in open /\ Mine(databases[i])
        /\ obj[databases[i]].id = i
  BY DEF Inv, MapInv, OpenInv
<1>6. \A p \in Objects : Mine(p)' =>
        /\ obj'[p].id \in 1..nextId'
        /\ At(p, "reading")' => obj'[p].via = p
  BY <1>2, <1>3, <1>4 DEF Inv, MapInv, At
<1>7. \A p, q \in Objects :
        Mine(p)' /\ Mine(q)' /\ p # q => obj'[p].id # obj'[q].id
  BY <1>2 DEF Inv, MapInv
<1>8. \A i \in DOMAIN databases' :
        /\ databases'[i] \in open' /\ Mine(databases[i])'
        /\ obj'[databases'[i]].id = i
  <2> TAKE i \in DOMAIN databases'
  <2>1. i \in DOMAIN databases /\ databases'[i] = databases[i]
    BY <1>4
  <2>2. PICK d \in Objects : d = databases[i]
    BY <1>5, <2>1
  <2>3. d \in open /\ Mine(d) /\ obj[d].id = i
    BY <1>5, <2>1, <2>2
  <2>4. Mine(d)' /\ obj'[d].id = i
    BY <1>2, <2>3
  <2>5. databases'[i] = d
    BY <2>1, <2>2
  <2>6. Mine(databases[i])'
    BY <2>4, <2>5
  <2> QED
    BY <1>4, <2>3, <2>4, <2>5, <2>6
<1>9. /\ removing' \subseteq Names /\ nextId' \in Nat /\ crashes' \in 0..MaxCrashes
      /\ DOMAIN databases' \subseteq 1..nextId'
      /\ removing' # {} => DOMAIN databases' = {}
  BY <1>4 DEF Inv, MapInv
<1> QED
  BY <1>6, <1>7, <1>8, <1>9 DEF MapInv

\* Neither the open handles nor who has them in hand changes.
LEMMA MoveOpen ==
  ASSUME Inv, Kept, NEW o \in Objects, NEW r \in Object,
         obj' = [obj EXCEPT ![o] = r], UNCHANGED maps,
         obj[o].pc \in Given => r.pc \in Given /\ r.file = obj[o].file,
         obj[o].pc = "closing" <=> r.pc = "closing",
         obj[o].pc = "closing" => r.via = obj[o].via
  PROVE  OpenInv'
<1>1. \A p \in Objects : obj'[p] = IF p = o THEN r ELSE obj[p]
  BY DEF Inv, ObjectInv
<1>2. UNCHANGED <<databases, open>>
  BY DEF maps
<1>3. ASSUME NEW d \in open
      PROVE  /\ d \in Objects /\ obj'[d].pc \in Given
             /\ AtName(d)' /\ Held(d)'
  <2>1. d \in Objects /\ obj[d].pc \in Given /\ AtName(d) /\ Held(d)
    BY DEF Inv, OpenInv
  <2>2. obj'[d].pc \in Given /\ obj'[d].file = obj[d].file
    BY <1>1, <2>1
  <2>3. AtName(d)'
    BY <2>1, <2>2, AtNameKept, ObjectFacts
  <2>4. BeingClosed(d) => BeingClosed(d)'
    BY <1>1 DEF BeingClosed, At
  <2>5. Held(d)'
    BY <1>2, <2>1, <2>4 DEF Held
  <2> QED
    BY <2>1, <2>2, <2>3, <2>5
<1>4. ASSUME NEW p \in Objects, At(p, "closing")' PROVE OutOfMap(p)'
  <2>1. At(p, "closing") /\ obj'[p].via = obj[p].via
    BY <1>1, <1>4 DEF At
  <2>2. OutOfMap(p) /\ obj[p].via \in Objects
    BY <2>1, ObjectFacts DEF Inv, OpenInv, Object
  <2>3. obj'[obj[p].via].pc \in Given
    BY <1>1, <2>2 DEF OutOfMap
  <2> QED
    BY <1>2, <2>1, <2>2, <2>3 DEF OutOfMap
<1> QED
  BY <1>2, <1>3, <1>4 DEF OpenInv

\* A transaction that stays, while no one else writes the version it has read.
LEMMA TxStays ==
  ASSUME Inv, FileInv', Grown, Kept, NEW p \in Objects, tx'[p] = tx[p],
         removing' # {} => removing # {} \/ tx[p].st \notin InMap,
         tx[p].st # "none" => obj'[p].pc \notin {"idle"} \cup OpenSteps,
         tx[p].shared /\ tx[p].file \in 1..Len(files) =>
           (files')[tx[p].file].rows = files[tx[p].file].rows
  PROVE  TxFine(p)'
<1>1. TxFine(p) /\ tx[p].via \in Objects
  BY DEF Inv, TxInv, Transaction
<1>2. Len(files) \in Nat /\ Len(files') \in Nat /\ Len(files) <= Len(files')
  BY Lengths DEF Inv
<1>3. tx[p].shared => tx[p].st \notin {"none", "found"}
  BY <1>1 DEF TxFine, Reserving
<1>4. tx[p].shared => tx[p].old = StoredVersion(tx[p].file)'
  <2> SUFFICES ASSUME tx[p].shared PROVE tx[p].old = StoredVersion(tx[p].file)'
    OBVIOUS
  <2>1. tx[p].file \in 1..Len(files) /\ tx[p].old = StoredVersion(tx[p].file)
    BY <1>1, <1>3 DEF TxFine
  <2>2. (files')[tx[p].file].rows = files[tx[p].file].rows
    BY <2>1
  <2> QED
    BY <2>1, <2>2 DEF StoredVersion
<1>5. ASSUME tx[p].st \notin {"none", "found"}
      PROVE  /\ tx[p].file \in 1..Len(files')
             /\ \/ tx[p].file = FileAtName(tx[p].via)'
                \/ tx[p].missed \/ obj'[tx[p].via].missed
  <2>1. /\ tx[p].file \in 1..Len(files)
        /\ \/ tx[p].file = FileAtName(tx[p].via)
           \/ tx[p].missed \/ obj[tx[p].via].missed
    BY <1>1, <1>5 DEF TxFine
  <2>2. /\ obj'[tx[p].via].name = obj[tx[p].via].name
        /\ obj[tx[p].via].missed => obj'[tx[p].via].missed
    BY <1>1 DEF Kept
  <2>3. obj[tx[p].via].name \in Names
    BY <1>1, ObjectFacts
  <2>4. FileAtName(tx[p].via) # 0 =>
          FileAtName(tx[p].via)' = FileAtName(tx[p].via)
    BY <2>2, <2>3 DEF Kept, FileAtName
  <2> QED
    BY <1>2, <2>1, <2>2, <2>4
<1> QED
  BY <1>1, <1>4, <1>5 DEF TxFine

LEMMA SameTx ==
  ASSUME Inv, FileInv', Grown, Kept, UNCHANGED <<removing, tx>>,
         \A o \in Objects : tx[o].st # "none" =>
                            obj'[o].pc \notin {"idle"} \cup OpenSteps,
         \A o \in Objects : tx[o].shared /\ tx[o].file \in 1..Len(files) =>
                            (files')[tx[o].file].rows = files[tx[o].file].rows
  PROVE  TxInv'
<1>1. \A o \in Objects : TxFine(o)'
  BY TxStays
<1> QED
  BY <1>1 DEF Inv, TxInv

-----------------------------------------------------------------------------
(* Open                                                                    *)

\* A step of an object that is not yet given, with the server's memory as it
\* was.
LEMMA OpeningStep ==
  ASSUME Inv, FileInv', Grown, NEW o \in Objects, NEW r \in Object,
         obj' = [obj EXCEPT ![o] = r], Orderly(o, r),
         \A n \in Names : path'[n] = path[n] \/ path[n] = 0,
         UNCHANGED serverMemory,
         obj[o].pc \in {"idle"} \cup OpenSteps,
         r.pc \in {"failed"} \cup OpenSteps,
         \A p \in Objects : tx[p].shared /\ tx[p].file \in 1..Len(files) =>
                            (files')[tx[p].file].rows = files[tx[p].file].rows
  PROVE  Inv'
<1>1. ObjectInv' /\ CreationInv' /\ Kept
  BY Move
<1>2. UNCHANGED <<maps, tx, crashes, removing>>
  BY DEF serverMemory, maps
<1>3. /\ ~InUse(o) /\ r.pc \notin {"given", "reading", "closing"}
      /\ obj[o].pc \notin Given /\ obj[o].pc # "closing"
  BY DEF InUse, OpenSteps, Given
<1>4. MapInv'
  BY <1>2, <1>3, MoveMap DEF Mine
<1>5. OpenInv'
  BY <1>1, <1>2, <1>3, MoveOpen
<1>6. TxInv'
  <2>1. tx[o].st = "none"
    BY DEF Inv, TxInv, TxFine
  <2>2. \A p \in Objects : p # o => obj'[p] = obj[p]
    BY DEF Inv, ObjectInv
  <2>3. \A p \in Objects : tx[p].st # "none" =>
                           obj'[p].pc \notin {"idle"} \cup OpenSteps
    BY <2>1, <2>2 DEF Inv, TxInv, TxFine
  <2> QED
    BY <1>1, <1>2, <2>3, SameTx
<1> QED
  BY <1>1, <1>4, <1>5, <1>6 DEF Inv

LEMMA CallOpenStep ==
  ASSUME Inv, NEW o \in Objects, CallOpen(o) PROVE Inv'
<1>1. PICK v \in AllVersions :
        obj' = [obj EXCEPT ![o] = [obj[o] EXCEPT !.pc = "lookup", !.want = v]]
  BY DEF CallOpen
<1> DEFINE e == [obj[o] EXCEPT !.pc = "lookup", !.want = v]
<1>a. obj[o] \in Object
  BY ObjectFacts
<1>2. /\ e \in Object /\ e.pc = "lookup" /\ e.file = obj[o].file
      /\ e.name = obj[o].name /\ e.missed = obj[o].missed
      /\ e.stale = obj[o].stale
  BY <1>a DEF Object, OpenSteps
<1>3. PICK r \in Object : r = e
  BY <1>2
<1> HIDE DEF e
<1>4. /\ obj' = [obj EXCEPT ![o] = r] /\ r.pc = "lookup" /\ r.file = obj[o].file
      /\ r.name = obj[o].name /\ r.missed = obj[o].missed
      /\ ~r.stale
  <2>1. ~obj[o].stale
    BY DEF CallOpen, At, Inv, ObjectInv, Given
  <2> QED
    BY <2>1, <1>1, <1>2, <1>3 DEF e
<1>5. /\ obj[o].pc = "idle" /\ UNCHANGED serverMemory /\ UNCHANGED <<files, path>>
  BY DEF CallOpen, At
<1>6. FileInv' /\ Grown
  BY <1>5, SameFiles DEF Inv
<1>7. Orderly(o, r)
  BY <1>4, <1>6, StillAFile DEF Orderly, OnFile, Given
<1> QED
  BY <1>4, <1>5, <1>6, <1>7, OpeningStep DEF OpenSteps

LEMMA LookupStep ==
  ASSUME Inv, NEW o \in Objects, Lookup(o) PROVE Inv'
<1> DEFINE f == path'[obj[o].name]
           exists == files'[f].table
           next == IF ~exists THEN "create"
                   ELSE IF obj[o].want # "" THEN "check" ELSE "insert"
           e == [obj[o] EXCEPT !.pc = next, !.file = f, !.created = ~exists]
<1>1. obj' = [obj EXCEPT ![o] = e]
  BY DEF Lookup
<1>2. /\ FileInv' /\ Grown /\ f # 0
      /\ \A g \in 1..Len(files) : files'[g] = files[g]
      /\ \A n \in Names : path'[n] = path[n] \/ path[n] = 0
  BY ObjectFacts, LookupFiles DEF Inv
<1>3. f \in 1..Len(files') /\ Len(files') \in Nat /\ f \in 0..MaxFiles
  <2>1. /\ Len(files') \in Nat /\ Len(files') <= MaxFiles /\ MaxFiles \in Nat
        /\ path' \in [Names -> 0..Len(files')]
    BY <1>2, Lengths, FileFacts DEF Inv, FileInv
  <2>2. obj[o].name \in Names
    BY ObjectFacts
  <2>3. f \in 0..Len(files')
    BY <2>1, <2>2
  <2> QED
    BY <1>2, <2>1, <2>3
<1>4. next \in OpenSteps
  BY DEF OpenSteps
<1>5. exists \in BOOLEAN
  <2>1. files' \in Seq(File)
    BY <1>2 DEF FileInv
  <2>2. files'[f] \in File
    BY <2>1, <1>3, ElementOfSeq
  <2> QED
    BY <2>2 DEF File
<1>6. /\ e \in Object /\ e.pc = next /\ e.file = f
      /\ e.created = ~exists /\ e.want = obj[o].want
      /\ e.name = obj[o].name /\ e.missed = obj[o].missed
      /\ e.stale = obj[o].stale
  <2>1. obj[o] \in Object
    BY ObjectFacts
  <2> HIDE DEF next, exists, f
  <2> QED
    BY <1>3, <1>4, <1>5, <2>1 DEF Object
<1>7. /\ next \in {"create", "check", "insert"}
      /\ next = "check" => obj[o].want # "" /\ exists
      /\ next = "insert" => obj[o].want = "" /\ exists
      /\ (next = "create" <=> ~exists)
  OBVIOUS
<1>8. PICK r \in Object : r = e
  BY <1>6
<1>9. f = path'[obj[o].name]
  OBVIOUS
<1> HIDE DEF exists, next, e, f
<1>10. /\ obj' = [obj EXCEPT ![o] = r] /\ r.file = f /\ r.want = obj[o].want
       /\ r.name = obj[o].name /\ r.missed = obj[o].missed
       /\ r.pc \in {"create", "check", "insert"}
       /\ r.pc = "check" => r.want # "" /\ ~r.created
       /\ r.pc = "create" => r.created
       /\ r.pc = "insert" => r.want = "" /\ ~r.created
       /\ ~r.stale
  <2>1. ~obj[o].stale
    BY DEF Lookup, At, Inv, ObjectInv, Given
  <2> QED
    BY <2>1, <1>1, <1>6, <1>7, <1>8
<1>11. Orderly(o, r)
  <2>1. ~(r.created /\ r.pc \in {"setVersion", "insert"} \cup Given)
    BY <1>10 DEF Given
  <2>2. ~(r.pc \in {"insert"} \cup Given /\ (r.created \/ r.want # ""))
    BY <1>10 DEF Given
  <2>3. r.file <= Len(files') /\ r.file # 0 /\ r.file = path'[r.name]
    <3>1. r.file = f /\ r.name = obj[o].name
      BY <1>10
    <3> QED
      BY <1>3, <1>9, <3>1
  <2> QED
    BY <1>10, <2>1, <2>2, <2>3 DEF Orderly
<1>12. /\ obj[o].pc = "lookup" /\ UNCHANGED serverMemory
       /\ r.pc \in {"failed"} \cup OpenSteps
  BY <1>10 DEF Lookup, At, OpenSteps
<1> QED
  BY <1>2, <1>10, <1>11, <1>12, OpeningStep DEF OpenSteps

\* A step of Open that goes to l: others stay, and have not made this file's
\* table if o comes to count as its creator.
LEMMA GotoStep ==
  ASSUME Inv, FileInv', Grown, NEW o \in Objects,
         NEW l \in {"setVersion", "insert", "failed"},
         obj[o].pc \in OpenSteps, Goto(o, l),
         UNCHANGED path, UNCHANGED serverMemory,
         l \in OnFile => obj[o].pc \in OnFile,
         l = "setVersion" => obj[o].pc = "create",
         l \in {"setVersion", "insert"} /\ obj[o].created =>
           /\ (files')[obj[o].file].table
           /\ \A p \in Objects : p # o /\ Creator(p) => obj[p].file # obj[o].file,
         l = "insert" /\ (obj[o].created \/ obj[o].want # "") =>
           (files')[obj[o].file].rows # <<>>,
         \A p \in Objects : tx[p].shared /\ tx[p].file \in 1..Len(files) =>
                            (files')[tx[p].file].rows = files[tx[p].file].rows
  PROVE  Inv'
<1> DEFINE e == [obj[o] EXCEPT !.pc = l]
<1>a. obj[o] \in Object
  BY ObjectFacts
<1>1. /\ e \in Object /\ e.pc = l /\ e.file = obj[o].file
      /\ e.created = obj[o].created /\ e.want = obj[o].want
      /\ e.missed = obj[o].missed /\ e.name = obj[o].name
      /\ e.stale = obj[o].stale
  BY <1>a DEF Object, OpenSteps
<1>2. PICK r \in Object : r = e
  BY <1>1
<1>3. obj' = [obj EXCEPT ![o] = e]
  BY DEF Goto
<1> HIDE DEF e
<1>4. /\ obj' = [obj EXCEPT ![o] = r] /\ r.pc = l /\ r.file = obj[o].file
      /\ r.created = obj[o].created /\ r.want = obj[o].want
      /\ r.missed = obj[o].missed /\ r.name = obj[o].name
      /\ ~r.stale
  <2>1. ~obj[o].stale
    BY DEF OpenSteps, Inv, ObjectInv, Given
  <2> QED
    BY <2>1, <1>1, <1>2, <1>3
<1>5. l \notin Given /\ l \in {"failed"} \cup OpenSteps
  BY DEF Given, OpenSteps
<1>6. Orderly(o, r)
  <2>1. r.file <= Len(files') /\ (r.pc \in OnFile => r.file # 0)
    <3>1. obj[o].file <= Len(files')
      BY StillAFile
    <3>2. l \in OnFile => obj[o].file # 0
      BY DEF Inv, ObjectInv
    <3> QED
      BY <1>4, <3>1, <3>2
  <2>2. r.pc \in OnFile => r.file = path'[r.name] \/ r.missed
    BY <1>4 DEF Inv, ObjectInv, AtName, FileAtName
  <2>3. r.pc \in {"create", "setVersion"} => r.created
    BY <1>4 DEF Inv, CreationInv
  <2>4. r.created /\ r.pc \in {"setVersion", "insert"} \cup Given =>
          /\ (files')[r.file].table
          /\ \A p \in Objects : p # o /\ Creator(p) => obj[p].file # r.file
    BY <1>4, <1>5
  <2>5. r.pc \in {"insert"} \cup Given /\ (r.created \/ r.want # "") =>
          (files')[r.file].rows # <<>>
    BY <1>4, <1>5
  <2>6. r.pc # "check" /\ r.pc \notin Given
    BY <1>4, <1>5
  <2> QED
    BY <1>4, <2>1, <2>2, <2>3, <2>4, <2>5, <2>6 DEF Orderly
<1> QED
  BY <1>4, <1>5, <1>6, OpeningStep

LEMMA CheckStep ==
  ASSUME Inv, NEW o \in Objects, Check(o) PROVE Inv'
<1> DEFINE l == IF StoredVersion(obj[o].file) = obj[o].want THEN "insert"
                ELSE "failed"
<1>1. FileInv' /\ Grown /\ UNCHANGED files
  BY SameFiles DEF Check, Inv
<1>2. l = "insert" => files[obj[o].file].rows # <<>>
  BY DEF Check, At, StoredVersion, Inv, CreationInv
<1>3. ~obj[o].created /\ obj[o].pc = "check"
  BY DEF Check, At, Inv, CreationInv
<1>4. /\ l \in {"insert", "failed"} /\ Goto(o, l)
      /\ UNCHANGED path /\ UNCHANGED serverMemory
  BY DEF Check
<1> HIDE DEF l
<1> QED
  BY <1>1, <1>2, <1>3, <1>4, GotoStep DEF OpenSteps, OnFile

LEMMA CreateStep ==
  ASSUME Inv, NEW o \in Objects, Create(o) PROVE Inv'
<1> DEFINE f == obj[o].file
           e == [files[f] EXCEPT !.table = TRUE]
<1>1. f \in 1..Len(files) /\ files[f] \in File
  BY ObjectFacts, FileFacts DEF Create, At, OnFile, Inv
<1>2. e \in File /\ e.table = TRUE /\ e.rows = files[f].rows
  BY <1>1 DEF File
<1>3. files' = [files EXCEPT ![f] = e]
  BY DEF Create
<1>4. PICK g \in 1..Len(files), x \in File : g = f /\ x = e
  BY <1>1, <1>2
<1>5. \A p \in Objects : Creator(p) => obj[p].file # f
  BY DEF Create, Inv, CreationInv
<1>6. obj[o].pc = "create" /\ Goto(o, "setVersion")
      /\ UNCHANGED path /\ UNCHANGED serverMemory
  BY DEF Create, At
<1> HIDE DEF f, e
<1>7. /\ FileInv' /\ Grown
      /\ \A h \in 1..Len(files) : files'[h] = IF h = g THEN x ELSE files[h]
  <2>1. /\ files' = [files EXCEPT ![g] = x] /\ UNCHANGED path
        /\ files[g].table => x.table
        /\ files[g].rows # <<>> => x.rows # <<>>
    BY <1>2, <1>3, <1>4, <1>6
  <2> QED
    BY <2>1, ChangedFile DEF Inv
<1>8. files'[f].table /\ \A h \in 1..Len(files) : files'[h].rows = files[h].rows
  BY <1>1, <1>2, <1>4, <1>7
<1> QED
  BY <1>5, <1>6, <1>7, <1>8, GotoStep DEF OpenSteps, OnFile, f

LEMMA SetVersionStep ==
  ASSUME Inv, NEW o \in Objects, SetVersion(o) PROVE Inv'
<1>1. obj[o].file \in 1..Len(files)
  BY ObjectFacts DEF SetVersion, At, OnFile
<1>2. PICK v \in AllVersions : files' = Replaced(obj[o].file, v)
  <2>1. obj[o].want \in AllVersions /\ "" \in AllVersions
    BY ObjectFacts DEF Object, AllVersions
  <2> QED
    BY <2>1 DEF SetVersion
<1>3. obj[o].pc = "setVersion" /\ Goto(o, "insert")
      /\ UNCHANGED path /\ UNCHANGED serverMemory
  BY DEF SetVersion, At
<1>4. PICK f \in 1..Len(files) : f = obj[o].file
  BY <1>1
<1>5. /\ FileInv' /\ Grown
      /\ files'[f].rows = <<v>>
      /\ \A g \in 1..Len(files) : g # f => files'[g] = files[g]
  BY <1>2, <1>3, <1>4, VersionChange DEF Inv
<1>6. \A p \in Objects : tx[p].shared /\ tx[p].file \in 1..Len(files) =>
                         tx[p].file # f
  <2>1. tx[o].st = "none"
    BY <1>3 DEF OpenSteps, Inv, TxInv, TxFine
  <2>2. ~tx[o].shared
    BY <2>1 DEF Inv, TxInv, TxFine, Reserving
  <2>3. \A p \in Objects \ {o} : ~(tx[p].file = f /\ tx[p].shared)
    BY <1>4 DEF SetVersion, CanWrite
  <2> QED
    BY <2>2, <2>3
<1>7. obj[o].created =>
        /\ files'[f].table
        /\ \A p \in Objects : p # o /\ Creator(p) => obj[p].file # f
  BY <1>3, <1>4, <1>5 DEF Creator, Inv, CreationInv, Grown
<1>8. (files')[f].rows # <<>>
  BY <1>5
<1>9. \A p \in Objects : tx[p].shared /\ tx[p].file \in 1..Len(files) =>
                         (files')[tx[p].file].rows = files[tx[p].file].rows
  BY <1>5, <1>6
<1>10. obj[o].pc \in OpenSteps \cap OnFile
  BY <1>3 DEF OpenSteps, OnFile
<1> QED
  BY <1>3, <1>4, <1>5, <1>7, <1>8, <1>9, <1>10, GotoStep

LEMMA OpenFailsStep ==
  ASSUME Inv, NEW o \in Objects, OpenFails(o) PROVE Inv'
<1>1. FileInv' /\ Grown /\ UNCHANGED files
  BY SameFiles DEF OpenFails, Inv
<1>2. /\ obj[o].pc \in OpenSteps /\ Goto(o, "failed")
      /\ UNCHANGED path /\ UNCHANGED serverMemory
  BY DEF OpenFails
<1> QED
  BY <1>1, <1>2, GotoStep DEF OnFile

LEMMA InsertStep ==
  ASSUME Inv, NEW o \in Objects, Insert(o) PROVE Inv'
<1> DEFINE e == [obj[o] EXCEPT !.pc = "given", !.id = nextId + 1]
<1>1. nextId \in Nat /\ nextId' = nextId + 1 /\ nextId + 1 \in Nat
  BY DEF Insert, Inv, MapInv
<1>2. /\ obj[o].pc = "insert" /\ obj[o].file # 0 /\ AtName(o)
      /\ ~obj[o].stale /\ obj[o] \in Object
  BY ObjectFacts DEF Insert, At, Inv, ObjectInv, OnFile, Given
<1>3. /\ e \in Object /\ e.pc = "given" /\ e.id = nextId + 1
      /\ e.file = obj[o].file /\ e.created = obj[o].created
      /\ e.want = obj[o].want /\ e.missed = obj[o].missed
      /\ e.name = obj[o].name /\ e.stale = obj[o].stale
  BY <1>1, <1>2 DEF Object
<1>4. obj' = [obj EXCEPT ![o] = e]
  BY <1>1 DEF Insert, Give
<1>5. PICK r \in Object : r = e
  BY <1>3
<1> HIDE DEF e
<1>6. /\ obj' = [obj EXCEPT ![o] = r] /\ r.pc = "given" /\ r.id = nextId + 1
      /\ r.file = obj[o].file /\ r.created = obj[o].created
      /\ r.want = obj[o].want /\ r.missed = obj[o].missed
      /\ r.name = obj[o].name /\ ~r.stale
  BY <1>2, <1>3, <1>4, <1>5
<1>7. FileInv' /\ Grown /\ UNCHANGED <<files, path>>
  BY SameFiles DEF Insert, Inv
<1>8. Orderly(o, r)
  <2>1. r.file <= Len(files') /\ r.file # 0
    BY <1>2, <1>6, <1>7 DEF Inv, ObjectInv
  <2>2. r.created => /\ (files')[r.file].table
                     /\ \A p \in Objects : p # o /\ Creator(p) =>
                                           obj[p].file # r.file
    BY <1>2, <1>6, <1>7 DEF Inv, CreationInv, Creator
  <2>3. r.created \/ r.want # "" => (files')[r.file].rows # <<>>
    BY <1>2, <1>6, <1>7 DEF Inv, CreationInv
  <2> QED
    BY <1>6, <2>1, <2>2, <2>3 DEF Orderly, OnFile
<1>9. ObjectInv' /\ CreationInv' /\ Kept
  BY <1>6, <1>7, <1>8, Move
<1>10. \A p \in Objects : obj'[p] = IF p = o THEN r ELSE obj[p]
  BY <1>6 DEF Inv, ObjectInv
<1>11. /\ DOMAIN databases' = DOMAIN databases \cup {nextId + 1}
       /\ databases'[nextId + 1] = o
       /\ \A i \in DOMAIN databases : i # nextId + 1 =>
                                      databases'[i] = databases[i]
       /\ open' = open \cup {o}
  BY <1>1 DEF Insert, Give, WithHandle
<1>12. removing = {} /\ UNCHANGED <<removing, crashes, tx>>
  BY DEF Insert, LockFree
<1>13. \A i \in DOMAIN databases : i \in 1..nextId /\ i # nextId + 1
  BY <1>1 DEF Inv, MapInv
<1>14. ~Mine(o) /\ Mine(o)' /\ \A p \in Objects \ {o} : Mine(p)' <=> Mine(p)
  BY <1>2, <1>6, <1>10 DEF Mine, InUse
<1>15. MapInv'
  <2>1. \A i \in DOMAIN databases' :
          /\ databases'[i] \in open' /\ Mine(databases[i])'
          /\ obj'[databases'[i]].id = i
    <3> TAKE i \in DOMAIN databases'
    <3>1. CASE i = nextId + 1
      <4>1. databases'[i] = o /\ obj'[o] = r
        BY <3>1, <1>10, <1>11
      <4>2. Mine(databases[i])'
        BY <4>1, <1>14
      <4> QED
        BY <3>1, <4>1, <4>2, <1>6, <1>11
    <3>2. CASE i # nextId + 1
      <4>1. i \in DOMAIN databases /\ databases'[i] = databases[i]
        BY <3>2, <1>11
      <4>2. PICK d \in Objects : d = databases[i]
        BY <4>1 DEF Inv, MapInv, OpenInv
      <4>3. d \in open /\ Mine(d) /\ obj[d].id = i
        BY <4>1, <4>2 DEF Inv, MapInv
      <4>4. d # o /\ obj'[d] = obj[d] /\ Mine(d)'
        BY <4>3, <1>10, <1>14
      <4>5. databases'[i] = d
        BY <4>1, <4>2
      <4>6. Mine(databases[i])'
        BY <4>4, <4>5
      <4> QED
        BY <4>3, <4>4, <4>5, <4>6, <1>11
    <3> QED
      BY <3>1, <3>2
  <2>2. \A p \in Objects : Mine(p)' => /\ obj'[p].id \in 1..nextId'
                                       /\ At(p, "reading")' => obj'[p].via = p
    <3> TAKE p \in Objects
    <3>1. CASE p = o
      BY <3>1, <1>1, <1>6, <1>10 DEF At
    <3>2. CASE p # o
      BY <3>2, <1>1, <1>10, <1>14 DEF Inv, MapInv, At
    <3> QED
      BY <3>1, <3>2
  <2>3. \A p \in Objects : p # o /\ Mine(p)' => obj'[p].id # obj'[o].id
    BY <1>1, <1>6, <1>10, <1>14 DEF Inv, MapInv
  <2>4. \A p, q \in Objects :
          Mine(p)' /\ Mine(q)' /\ p # q => obj'[p].id # obj'[q].id
    <3> TAKE p, q \in Objects
    <3>1. CASE p = o \/ q = o
      BY <3>1, <2>3
    <3>2. CASE p # o /\ q # o
      BY <3>2, <1>10, <1>14 DEF Inv, MapInv
    <3> QED
      BY <3>1, <3>2
  <2>5. DOMAIN databases' \subseteq 1..nextId'
    BY <1>1, <1>11, <1>13
  <2>6. /\ removing' \subseteq Names /\ nextId' \in Nat /\ crashes' \in 0..MaxCrashes
        /\ removing' = {}
    BY <1>1, <1>12 DEF Inv, MapInv
  <2> QED
    BY <2>1, <2>2, <2>4, <2>5, <2>6 DEF MapInv
<1>16. OpenInv'
  <2>a. ASSUME NEW p \in Objects, At(p, "closing")' PROVE OutOfMap(p)'
    <3>1. At(p, "closing") /\ obj'[p] = obj[p]
      BY <2>a, <1>6, <1>10 DEF At
    <3>2. OutOfMap(p) /\ obj[p].via \in Objects
      BY <3>1, ObjectFacts DEF Inv, OpenInv, Object
    <3>3. obj[p].via # o /\ obj'[obj[p].via] = obj[obj[p].via]
      BY <3>2, <1>2, <1>10 DEF OutOfMap, Given
    <3>4. \A i \in DOMAIN databases' : databases'[i] # obj[p].via
      BY <3>2, <3>3, <1>11 DEF OutOfMap
    <3> QED
      BY <3>1, <3>2, <3>3, <3>4 DEF OutOfMap
  <2> SUFFICES ASSUME NEW d \in open'
               PROVE  /\ d \in Objects /\ obj'[d].pc \in Given
                      /\ AtName(d)' /\ Held(d)'
    BY <2>a DEF OpenInv
  <2>1. CASE d = o
    <3>1. obj'[d].pc \in Given /\ AtName(d)'
      BY <2>1, <1>2, <1>6, <1>9, <1>10, AtNameKept DEF Given
    <3>2. databases'[nextId + 1] = d /\ nextId + 1 \in DOMAIN databases'
      BY <2>1, <1>11
    <3>3. Held(d)'
      BY <3>2 DEF Held
    <3> QED
      BY <2>1, <3>1, <3>3
  <2>2. CASE d # o
    <3>1. d \in Objects /\ obj[d].pc \in Given /\ AtName(d) /\ Held(d)
      BY <2>2, <1>11 DEF Inv, OpenInv
    <3>2. obj'[d] = obj[d]
      BY <2>2, <3>1, <1>10
    <3>3. AtName(d)'
      BY <3>1, <3>2, <1>9, AtNameKept, ObjectFacts
    <3>4. BeingClosed(d) => BeingClosed(d)'
      BY <1>2, <1>10 DEF BeingClosed, At
    <3>5. \A i \in DOMAIN databases : /\ i \in DOMAIN databases'
                                      /\ databases'[i] = databases[i]
      BY <1>11, <1>13
    <3>6. Held(d)'
      BY <3>1, <3>4, <3>5 DEF Held
    <3> QED
      BY <3>1, <3>2, <3>3, <3>6
  <2> QED
    BY <2>1, <2>2
<1>17. TxInv'
  <2>1. \A p \in Objects : tx[p].st # "none" =>
                           obj'[p].pc \notin {"idle"} \cup OpenSteps
    BY <1>6, <1>10 DEF OpenSteps, Inv, TxInv, TxFine
  <2> QED
    BY <1>7, <1>9, <1>12, <2>1, SameTx
<1> QED
  BY <1>7, <1>9, <1>15, <1>16, <1>17 DEF Inv

-----------------------------------------------------------------------------
(* Transactions                                                            *)

\* Files may grow under the objects and the maps, which stay.
LEMMA SameObjects ==
  ASSUME Inv, FileInv', Grown, UNCHANGED <<obj, path>>
  PROVE  ObjectInv' /\ CreationInv' /\ Kept
<1>1. \A o \in Objects : obj[o].file <= Len(files')
  BY StillAFile
<1>2. ObjectInv'
  BY <1>1 DEF Inv, ObjectInv, AtName, FileAtName
<1>3. \A o \in Objects : Creator(o)' => (files')[obj[o].file].table
  BY ObjectFacts DEF Creator, Inv, CreationInv, Grown, Given, OnFile
<1>4. \A o \in Objects :
        /\ obj[o].pc \in {"insert"} \cup Given
        /\ obj[o].created \/ obj[o].want # ""
        => (files')[obj[o].file].rows # <<>>
  BY ObjectFacts DEF Inv, CreationInv, Grown, Given, OnFile
<1>5. CreationInv'
  BY <1>3, <1>4 DEF Inv, CreationInv, Creator
<1> QED
  BY <1>2, <1>5 DEF Kept

LEMMA SameMaps ==
  ASSUME Inv, UNCHANGED <<maps, obj, path, crashes>> PROVE MapInv' /\ OpenInv'
<1>1. UNCHANGED <<removing, databases, open, nextId, obj, path, crashes>>
  BY DEF maps
<1>2. MapInv'
  BY <1>1 DEF Inv, MapInv, Mine, InUse, At
<1>3. OpenInv'
  BY <1>1 DEF Inv, OpenInv, AtName, FileAtName, Held, BeingClosed, At,
                OutOfMap
<1> QED
  BY <1>2, <1>3

\* What the record t of the transaction of an object must be like.
Fine(t) ==
  /\ t.st \notin {"none", "found"} =>
       /\ t.file \in 1..Len(files)
       /\ t.file = FileAtName(t.via) \/ t.missed \/ obj[t.via].missed
  /\ t.shared <=> t.st \in {"compared"} \cup Reserving
  /\ t.shared => t.old = StoredVersion(t.file)

LEMMA TxMove ==
  ASSUME Inv, NEW o \in Objects, NEW t \in Transaction, TxStep(o, t),
         UNCHANGED files, UNCHANGED elsewhere, Fine(t),
         t.st # "none" => obj[o].pc \notin {"idle"} \cup OpenSteps,
         removing # {} => t.st \notin InMap
  PROVE  Inv'
<1>1. UNCHANGED <<files, path, maps, removing, obj, crashes>>
  BY DEF elsewhere, maps
<1>2. FileInv' /\ Grown /\ ObjectInv' /\ CreationInv' /\ Kept
  BY <1>1, SameFiles, SameObjects DEF Inv
<1>3. MapInv' /\ OpenInv'
  BY <1>1, SameMaps
<1>4. /\ tx' \in [Objects -> Transaction]
      /\ \A p \in Objects : tx'[p] = IF p = o THEN t ELSE tx[p]
  BY DEF TxStep, Inv, TxInv
<1>5. \A p \in Objects \ {o} : TxFine(p)'
  BY <1>1, <1>2, <1>4, TxStays DEF Inv, TxInv, TxFine
<1>6. TxFine(o)'
  <2>1. tx'[o] = t
    BY <1>4
  <2> QED
    BY <2>1, <1>1 DEF Fine, TxFine, FileAtName, StoredVersion
<1>7. TxInv'
  BY <1>4, <1>5, <1>6 DEF TxInv
<1> QED
  BY <1>2, <1>3, <1>7 DEF Inv

LEMMA TxFacts ==
  ASSUME Inv, NEW o \in Objects
  PROVE  /\ tx[o] \in Transaction /\ tx[o].via \in Objects
         /\ TxFine(o) /\ Fine(tx[o])
<1>1. tx[o] \in Transaction /\ TxFine(o)
  BY DEF Inv, TxInv
<1> QED
  BY <1>1 DEF Transaction, TxFine, Fine

LEMMA BoundFacts ==
  /\ MaxFiles \in Nat /\ 0 \in 0..MaxFiles
  /\ MaxCrashes \in Nat /\ 0 \in 0..MaxCrashes
<1>1. MaxFiles \in Nat
  BY OpenAssumption
<1>2. MaxCrashes \in Nat
  BY OpenAssumption
<1> QED
  BY <1>1, <1>2

LEMMA NoTxFacts ==
  ASSUME NEW o \in Objects
  PROVE  /\ NoTx(o) \in Transaction /\ NoTx(o).st = "none"
         /\ NoTx(o).shared = FALSE
<1>1. "" \in AllVersions
  BY DEF AllVersions
<1> QED
  BY <1>1, BoundFacts DEF NoTx, Transaction

LEMMA LookupDbStep ==
  ASSUME Inv, NEW o \in Objects, LookupDb(o) PROVE Inv'
<1> DEFINE e == [obj[o] EXCEPT !.ws = "open"]
<1>1. obj[o] \in Object /\ tx[o] \in Transaction /\ tx[o].st = "none"
  BY ObjectFacts, TxFacts DEF LookupDb
<1>2. PICK d \in Objects : d = databases[obj[o].id]
  BY DEF LookupDb, Inv, MapInv, OpenInv
<1>3. /\ e \in Object /\ e.pc = obj[o].pc /\ e.file = obj[o].file
      /\ e.created = obj[o].created /\ e.want = obj[o].want
      /\ e.missed = obj[o].missed /\ e.name = obj[o].name
      /\ e.stale = obj[o].stale /\ e.id = obj[o].id /\ e.via = obj[o].via
  BY <1>1 DEF Object
<1>4. PICK r \in Object : r = e
  BY <1>3
<1>5. obj' = [obj EXCEPT ![o] = e]
  BY DEF LookupDb
<1> HIDE DEF e
<1>6. /\ obj' = [obj EXCEPT ![o] = r] /\ r.pc = obj[o].pc /\ r.file = obj[o].file
      /\ r.created = obj[o].created /\ r.want = obj[o].want
      /\ r.missed = obj[o].missed /\ r.name = obj[o].name
      /\ r.stale = obj[o].stale /\ r.id = obj[o].id /\ r.via = obj[o].via
  BY <1>3, <1>4, <1>5
<1>7. /\ UNCHANGED <<files, path, maps, removing, crashes>> /\ removing = {}
      /\ obj[o].pc \in {"given", "reading"}
  BY DEF LookupDb, maps, LockFree, InUse
<1>8. FileInv' /\ Grown
  BY <1>7, SameFiles DEF Inv
<1>9. Orderly(o, r)
  <2>1. r.file <= Len(files') /\ r.file # 0 /\ r.pc \in Given /\ r.pc \notin OnFile
        /\ r.pc \notin {"check", "create", "setVersion"}
    BY <1>6, <1>7 DEF Given, OnFile, Inv, ObjectInv
  <2>2. r.created => /\ (files')[r.file].table
                     /\ \A p \in Objects : p # o /\ Creator(p) =>
                                           obj[p].file # r.file
    BY <2>1, <1>6, <1>7 DEF Inv, CreationInv, Creator
  <2>3. r.created \/ r.want # "" => (files')[r.file].rows # <<>>
    BY <2>1, <1>6, <1>7 DEF Inv, CreationInv
  <2> QED
    BY <1>6, <2>1, <2>2, <2>3 DEF Orderly
<1>10. ObjectInv' /\ CreationInv' /\ Kept
  BY <1>6, <1>7, <1>8, <1>9, Move
<1>11. MapInv'
  BY <1>6, <1>7, MoveMap DEF Mine, InUse, Inv, MapInv, At
<1>12. OpenInv'
  BY <1>6, <1>7, <1>10, MoveOpen
<1>13. PICK t \in Transaction : /\ tx' = [tx EXCEPT ![o] = t]
                                /\ t.st = "found" /\ ~t.shared
  <2> DEFINE u == [tx[o] EXCEPT !.st = "found", !.via = d]
  <2>1. u \in Transaction /\ u.st = "found" /\ u.shared = tx[o].shared
    BY <1>1 DEF Transaction
  <2>2. ~tx[o].shared
    BY <1>1, TxFacts DEF TxFine, Reserving
  <2>3. tx' = [tx EXCEPT ![o] = u]
    BY <1>2 DEF LookupDb, TxStep
  <2> HIDE DEF u
  <2> QED
    BY <2>1, <2>2, <2>3
<1>14. /\ tx' \in [Objects -> Transaction]
       /\ \A p \in Objects : tx'[p] = IF p = o THEN t ELSE tx[p]
  BY <1>13 DEF Inv, TxInv
<1>15. \A p \in Objects \ {o} : TxFine(p)'
  <2> TAKE p \in Objects \ {o}
  <2>1. tx'[p] = tx[p] /\ obj'[p] = obj[p]
    BY <1>6, <1>14 DEF Inv, ObjectInv
  <2>2. tx[p].st # "none" => obj'[p].pc \notin {"idle"} \cup OpenSteps
    BY <2>1, TxFacts DEF TxFine
  <2> QED
    BY <2>1, <2>2, <1>7, <1>8, <1>10, TxStays
<1>16. TxFine(o)'
  <2>1. tx'[o] = t /\ obj'[o] = r
    BY <1>6, <1>14 DEF Inv, ObjectInv
  <2> QED
    BY <2>1, <1>6, <1>7, <1>13 DEF TxFine, OpenSteps, Reserving, InMap
<1>17. TxInv'
  BY <1>14, <1>15, <1>16 DEF TxInv
<1> QED
  BY <1>8, <1>10, <1>11, <1>12, <1>17 DEF Inv

LEMMA BeginStep ==
  ASSUME Inv, NEW o \in Objects, Begin(o) PROVE Inv'
<1>1. PICK f \in FilesOf(tx[o].via) :
        TxStep(o, [tx[o] EXCEPT !.st = "begun", !.file = f])
  BY DEF Begin
<1>2. PICK d \in Objects : d = tx[o].via /\ d \in open
  BY TxFacts DEF Begin
<1>3. /\ f \in 1..Len(files) /\ f \in 0..MaxFiles
      /\ f = FileAtName(d) \/ obj[d].missed
  <2>1. /\ obj[d].file \in 0..Len(files) /\ FileAtName(d) \in 0..Len(files)
        /\ Len(files) \in Nat /\ MaxFiles \in Nat /\ Len(files) <= MaxFiles
    BY ObjectFacts, FileFacts DEF Inv, FileInv
  <2>2. f \in {obj[d].file, FileAtName(d)} \ {0}
    BY <1>2 DEF FilesOf
  <2>3. AtName(d)
    BY <1>2 DEF Inv, OpenInv
  <2> QED
    BY <2>1, <2>2, <2>3 DEF AtName
<1>4. tx[o] \in Transaction /\ ~tx[o].shared /\ tx[o].st = "found"
  BY TxFacts DEF Begin, TxFine, Reserving
<1> DEFINE e == [tx[o] EXCEPT !.st = "begun", !.file = f]
<1>5. /\ e \in Transaction /\ e.st = "begun" /\ e.file = f
      /\ e.shared = tx[o].shared /\ e.via = tx[o].via
  BY <1>3, <1>4 DEF Transaction
<1>6. PICK t \in Transaction : t = e
  BY <1>5
<1> HIDE DEF e
<1>7. /\ TxStep(o, t) /\ t.st = "begun" /\ t.file = f /\ ~t.shared /\ t.via = d
  BY <1>1, <1>2, <1>4, <1>5, <1>6 DEF e
<1>8. Fine(t)
  BY <1>3, <1>7 DEF Fine, Reserving
<1>9. obj[o].pc \notin {"idle"} \cup OpenSteps
  BY <1>4, TxFacts DEF TxFine
<1>10. UNCHANGED files /\ UNCHANGED elsewhere
  BY DEF Begin
<1> QED
  BY <1>7, <1>8, <1>9, <1>10, TxMove DEF InMap

\* A transaction that goes to s on the file that it has, and keeps its lock.
LEMMA GoesOn ==
  ASSUME Inv, NEW o \in Objects, NEW s \in {"registered", "replaced", "committing"},
         NEW new \in AllVersions,
         TxStep(o, [tx[o] EXCEPT !.st = s, !.new = new]),
         UNCHANGED files, UNCHANGED elsewhere,
         tx[o].st \notin {"none", "found"},
         tx[o].shared <=> s \in Reserving,
         s \in InMap => removing = {}
  PROVE  Inv'
<1> DEFINE e == [tx[o] EXCEPT !.st = s, !.new = new]
<1>1. tx[o] \in Transaction /\ Fine(tx[o])
  BY TxFacts
<1>2. /\ e \in Transaction /\ e.st = s /\ e.file = tx[o].file
      /\ e.shared = tx[o].shared /\ e.via = tx[o].via /\ e.old = tx[o].old
      /\ e.missed = tx[o].missed
  BY <1>1 DEF Transaction, InMap
<1>3. PICK t \in Transaction : t = e
  BY <1>2
<1> HIDE DEF e
<1>4. /\ TxStep(o, t) /\ t.st = s /\ t.file = tx[o].file
      /\ t.shared = tx[o].shared /\ t.via = tx[o].via /\ t.old = tx[o].old
      /\ t.missed = tx[o].missed
  BY <1>2, <1>3 DEF e
<1>5. Fine(t)
  BY <1>1, <1>4 DEF Fine
<1>6. obj[o].pc \notin {"idle"} \cup OpenSteps
  BY TxFacts DEF TxFine
<1>7. removing # {} => t.st \notin InMap
  BY <1>4
<1> QED
  BY <1>4, <1>5, <1>6, <1>7, TxMove

\* GoesOn with the version to be set that it has.
LEMMA GoesOnAsIs ==
  ASSUME Inv, NEW o \in Objects, NEW s \in {"registered", "committing"}
  PROVE  /\ tx[o].new \in AllVersions
         /\ [tx[o] EXCEPT !.st = s] = [tx[o] EXCEPT !.st = s, !.new = tx[o].new]
<1>1. tx[o] \in Transaction
  BY TxFacts
<1> QED
  BY <1>1 DEF Transaction

LEMMA RegisterStep ==
  ASSUME Inv, NEW o \in Objects, Register(o) PROVE Inv'
<1>1. TxStep(o, [tx[o] EXCEPT !.st = "registered", !.new = tx[o].new])
  BY GoesOnAsIs DEF Register
<1>2. /\ UNCHANGED files /\ UNCHANGED elsewhere /\ removing = {}
      /\ tx[o].st = "begun"
  BY DEF Register, LockFree
<1>3. ~tx[o].shared
  BY <1>2, TxFacts DEF TxFine, Reserving
<1>4. tx[o].new \in AllVersions
  BY GoesOnAsIs
<1> QED
  BY <1>1, <1>2, <1>3, <1>4, GoesOn DEF Reserving

LEMMA ReplaceStep ==
  ASSUME Inv, NEW o \in Objects, Replace(o) PROVE Inv'
<1>1. PICK new \in AllVersions :
        TxStep(o, [tx[o] EXCEPT !.st = "replaced", !.new = new])
  BY DEF Replace
<1>2. /\ UNCHANGED files /\ UNCHANGED elsewhere /\ tx[o].st = "compared"
  BY DEF Replace
<1>3. tx[o].shared /\ removing = {}
  BY <1>2, TxFacts DEF TxFine, InMap
<1> QED
  BY <1>1, <1>2, <1>3, GoesOn DEF Reserving

LEMMA TakeTxStep ==
  ASSUME Inv, NEW o \in Objects, TakeTx(o) PROVE Inv'
<1>1. TxStep(o, [tx[o] EXCEPT !.st = "committing", !.new = tx[o].new])
  BY GoesOnAsIs DEF TakeTx
<1>2. /\ UNCHANGED files /\ UNCHANGED elsewhere /\ tx[o].st = "replaced"
  BY DEF TakeTx
<1>3. tx[o].shared
  BY <1>2, TxFacts DEF TxFine, Reserving
<1>4. tx[o].new \in AllVersions
  BY GoesOnAsIs
<1> QED
  BY <1>1, <1>2, <1>3, <1>4, GoesOn DEF Reserving, InMap

LEMMA CompareStep ==
  ASSUME Inv, NEW o \in Objects, Compare(o) PROVE Inv'
<1> DEFINE v == StoredVersion(tx[o].file)
           e == [tx[o] EXCEPT !.st = "compared", !.shared = TRUE, !.old = v]
<1>1. TxStep(o, e) /\ tx[o].st = "registered"
      /\ UNCHANGED files /\ UNCHANGED elsewhere
  BY DEF Compare
<1>2. tx[o] \in Transaction /\ Fine(tx[o]) /\ tx[o].file \in 1..Len(files)
  BY <1>1, TxFacts DEF Fine
<1>3. v \in AllVersions
  <2>1. files[tx[o].file] \in File
    BY <1>2, FileFacts DEF Inv
  <2>2. CASE files[tx[o].file].rows = <<>>
    BY <2>2 DEF StoredVersion, AllVersions
  <2>3. CASE files[tx[o].file].rows # <<>>
    <3>1. PICK w \in AllVersions : files[tx[o].file].rows = <<w>>
      BY <2>1, <2>3 DEF File
    <3> QED
      BY <2>3, <3>1 DEF StoredVersion
  <2> QED
    BY <2>2, <2>3
<1>4. v = StoredVersion(tx[o].file)
  OBVIOUS
<1> HIDE DEF v
<1>5. /\ e \in Transaction /\ e.st = "compared" /\ e.file = tx[o].file
      /\ e.shared = TRUE /\ e.old = v /\ e.via = tx[o].via
      /\ e.missed = tx[o].missed
  BY <1>2, <1>3 DEF Transaction, InMap
<1>6. PICK t \in Transaction : t = e
  BY <1>5
<1> HIDE DEF e
<1>7. /\ TxStep(o, t) /\ t.st = "compared" /\ t.file = tx[o].file
      /\ t.shared /\ t.old = v /\ t.via = tx[o].via /\ t.missed = tx[o].missed
  BY <1>1, <1>5, <1>6
<1>8. Fine(t)
  BY <1>1, <1>2, <1>4, <1>7 DEF Fine
<1>9. obj[o].pc \notin {"idle"} \cup OpenSteps /\ removing = {}
  BY <1>1, TxFacts DEF TxFine, InMap
<1> QED
  BY <1>1, <1>7, <1>8, <1>9, TxMove

LEMMA AbortStep ==
  ASSUME Inv, NEW o \in Objects, Abort(o) PROVE Inv'
<1>1. PICK t \in Transaction : t = NoTx(o)
  BY NoTxFacts
<1>2. TxStep(o, t) /\ t.st = "none" /\ ~t.shared
  BY <1>1, NoTxFacts DEF Abort
<1>3. UNCHANGED files /\ UNCHANGED elsewhere
  BY DEF Abort
<1> QED
  BY <1>2, <1>3, TxMove DEF Fine, Reserving, InMap

LEMMA CommitStep ==
  ASSUME Inv, NEW o \in Objects, Commit(o) PROVE Inv'
<1>1. PICK f \in 1..Len(files) : f = tx[o].file
  BY TxFacts DEF Commit, TxFine
<1>2. PICK v \in AllVersions : v = tx[o].new
  BY TxFacts DEF Transaction
<1>3. /\ files' = Replaced(f, v) /\ tx' = [tx EXCEPT ![o] = NoTx(o)]
      /\ UNCHANGED <<path, maps, removing, obj, crashes>>
  BY <1>1, <1>2 DEF Commit, TxStep, elsewhere, maps
<1>4. /\ FileInv' /\ Grown
      /\ \A g \in 1..Len(files) : g # f => files'[g] = files[g]
  BY <1>3, VersionChange DEF Inv
<1>5. ObjectInv' /\ CreationInv' /\ Kept /\ MapInv' /\ OpenInv'
  BY <1>3, <1>4, SameObjects, SameMaps
<1>6. /\ tx' \in [Objects -> Transaction]
      /\ \A p \in Objects : tx'[p] = IF p = o THEN NoTx(o) ELSE tx[p]
  BY <1>3, NoTxFacts DEF Inv, TxInv
<1>7. \A p \in Objects \ {o} : tx[p].shared => tx[p].file # f
  BY <1>1 DEF Commit, CanWrite
<1>8. \A p \in Objects \ {o} : TxFine(p)'
  <2> TAKE p \in Objects \ {o}
  <2>1. tx'[p] = tx[p]
    BY <1>6
  <2>2. tx[p].st # "none" => obj'[p].pc \notin {"idle"} \cup OpenSteps
    BY <1>3, TxFacts DEF TxFine
  <2>3. tx[p].shared /\ tx[p].file \in 1..Len(files) =>
          (files')[tx[p].file].rows = files[tx[p].file].rows
    BY <1>4, <1>7
  <2> QED
    BY <2>1, <2>2, <2>3, <1>3, <1>4, <1>5, TxStays
<1>9. TxFine(o)'
  <2>1. tx'[o].st = "none" /\ ~tx'[o].shared
    BY <1>6, NoTxFacts
  <2> QED
    BY <2>1 DEF TxFine, Reserving, InMap
<1>10. TxInv'
  BY <1>6, <1>8, <1>9 DEF TxInv
<1> QED
  BY <1>4, <1>5, <1>10 DEF Inv

-----------------------------------------------------------------------------
(* db.version, closing, removing, crashing                                 *)

\* A step in which o goes on with what it was given.
LEMMA GivenStep ==
  ASSUME Inv, NEW o \in Objects, NEW r \in Object,
         obj[o].pc \in Given, r.pc \in Given, r.file = obj[o].file,
         r.created = obj[o].created, r.want = obj[o].want,
         r.name = obj[o].name, r.missed = obj[o].missed,
         obj' = [obj EXCEPT ![o] = r], UNCHANGED <<files, path, removing, tx>>
  PROVE  FileInv' /\ ObjectInv' /\ CreationInv' /\ Kept /\ TxInv'
<1>1. FileInv' /\ Grown
  BY SameFiles DEF Inv
<1>2. r.pc \notin OnFile /\ r.pc \notin {"setVersion", "insert", "check", "create"}
  BY DEF Given, OnFile
<1>3. Orderly(o, r)
  <2>1. r.file <= Len(files') /\ r.file # 0
    BY DEF Inv, ObjectInv
  <2>2. r.created => /\ (files')[r.file].table
                     /\ \A p \in Objects : p # o /\ Creator(p) =>
                                           obj[p].file # r.file
    BY DEF Inv, CreationInv, Creator
  <2>3. r.created \/ r.want # "" => (files')[r.file].rows # <<>>
    BY DEF Inv, CreationInv
  <2> QED
    BY <1>2, <2>1, <2>2, <2>3 DEF Orderly
<1>4. ObjectInv' /\ CreationInv' /\ Kept
  BY <1>1, <1>3, Move
<1>5. TxInv'
  <2>1. r.pc \notin {"idle"} \cup OpenSteps
    BY DEF Given, OpenSteps
  <2>2. \A p \in Objects : obj'[p] = IF p = o THEN r ELSE obj[p]
    BY DEF Inv, ObjectInv
  <2>3. \A p \in Objects : tx[p].st # "none" =>
                           obj'[p].pc \notin {"idle"} \cup OpenSteps
    BY <2>1, <2>2, TxFacts DEF TxFine
  <2> QED
    BY <1>1, <1>4, <2>3, SameTx
<1> QED
  BY <1>1, <1>4, <1>5

\* The page of this run that has the id of a handle in the map is its own.
LEMMA MineInMap ==
  ASSUME Inv, NEW o \in Objects, obj[o].id \in DOMAIN databases
  PROVE  /\ databases[obj[o].id] \in Objects /\ Mine(databases[obj[o].id])
         /\ obj[databases[obj[o].id]].id = obj[o].id
         /\ Mine(o) => databases[obj[o].id] = o
BY DEF Inv, MapInv, OpenInv

LEMMA AskVersionStep ==
  ASSUME Inv, NEW o \in Objects, AskVersion(o) PROVE Inv'
<1>1. PICK d \in Objects : /\ d = databases[obj[o].id]
                           /\ Mine(o) => d = o
  BY MineInMap DEF AskVersion
<1> DEFINE e == [obj[o] EXCEPT !.pc = "reading", !.via = d]
<1>2. obj' = [obj EXCEPT ![o] = e]
  BY <1>1 DEF AskVersion
<1>3. obj[o] \in Object /\ obj[o].pc = "given"
  BY ObjectFacts DEF AskVersion, At
<1>4. /\ e \in Object /\ e.pc = "reading" /\ e.via = d /\ e.file = obj[o].file
      /\ e.created = obj[o].created /\ e.want = obj[o].want
      /\ e.id = obj[o].id /\ e.missed = obj[o].missed
      /\ e.name = obj[o].name /\ e.stale = obj[o].stale
  BY <1>3 DEF Object
<1>5. PICK r \in Object : r = e
  BY <1>4
<1> HIDE DEF e
<1>6. /\ obj' = [obj EXCEPT ![o] = r]
      /\ r.pc = "reading" /\ r.via = d /\ r.file = obj[o].file
      /\ r.created = obj[o].created /\ r.want = obj[o].want
      /\ r.id = obj[o].id /\ r.missed = obj[o].missed
      /\ r.name = obj[o].name /\ r.stale = obj[o].stale
  BY <1>2, <1>4, <1>5
<1>7. UNCHANGED <<files, path, removing, maps, tx, crashes>>
  BY DEF AskVersion, serverMemory, maps
<1>8. obj[o].pc \in Given /\ r.pc \in Given
  BY <1>3, <1>6 DEF Given
<1>9. FileInv' /\ ObjectInv' /\ CreationInv' /\ Kept /\ TxInv'
  BY <1>6, <1>7, <1>8, GivenStep
<1>10. MapInv'
  BY <1>1, <1>3, <1>6, <1>7, MoveMap DEF Mine, InUse
<1>11. OpenInv'
  BY <1>3, <1>6, <1>7, <1>8, <1>9, MoveOpen
<1> QED
  BY <1>9, <1>10, <1>11 DEF Inv

LEMMA ReadVersionStep ==
  ASSUME Inv, NEW o \in Objects, ReadVersion(o) PROVE Inv'
<1> DEFINE e == [obj[o] EXCEPT !.pc = "given", !.via = o]
<1>1. obj' = [obj EXCEPT ![o] = e]
  BY DEF ReadVersion
<1>2. obj[o] \in Object /\ obj[o].pc = "reading"
  BY ObjectFacts DEF ReadVersion, At
<1>3. /\ e \in Object /\ e.pc = "given" /\ e.via = o /\ e.file = obj[o].file
      /\ e.created = obj[o].created /\ e.want = obj[o].want
      /\ e.id = obj[o].id /\ e.missed = obj[o].missed
      /\ e.name = obj[o].name /\ e.stale = obj[o].stale
  BY <1>2 DEF Object
<1>4. PICK r \in Object : r = e
  BY <1>3
<1> HIDE DEF e
<1>5. /\ obj' = [obj EXCEPT ![o] = r]
      /\ r.pc = "given" /\ r.via = o /\ r.file = obj[o].file
      /\ r.created = obj[o].created /\ r.want = obj[o].want
      /\ r.id = obj[o].id /\ r.missed = obj[o].missed
      /\ r.name = obj[o].name /\ r.stale = obj[o].stale
  BY <1>1, <1>3, <1>4
<1>6. UNCHANGED <<files, path, removing, maps, tx, crashes>>
  BY DEF ReadVersion, serverMemory, maps
<1>7. obj[o].pc \in Given /\ r.pc \in Given
  BY <1>2, <1>5 DEF Given
<1>8. FileInv' /\ ObjectInv' /\ CreationInv' /\ Kept /\ TxInv'
  BY <1>5, <1>6, <1>7, GivenStep
<1>9. MapInv'
  BY <1>2, <1>5, <1>6, MoveMap DEF Mine, InUse
<1>10. OpenInv'
  BY <1>2, <1>5, <1>6, <1>7, <1>8, MoveOpen
<1> QED
  BY <1>8, <1>9, <1>10 DEF Inv

LEMMA CloseStep ==
  ASSUME Inv, NEW o \in Objects, Close(o) PROVE Inv'
<1> DEFINE id == obj[o].id
           e1 == [obj[o] EXCEPT !.pc = "closing", !.via = databases[id],
                                !.ws = "lost"]
           e2 == [obj[o] EXCEPT !.pc = "closed", !.ws = "lost"]
<1>1. obj[o] \in Object /\ obj[o].pc = "given"
  BY ObjectFacts DEF Close, At
<1>2. PICK r \in Object :
        /\ obj' = [obj EXCEPT ![o] = r]
        /\ r.file = obj[o].file /\ r.created = obj[o].created
        /\ r.want = obj[o].want /\ r.missed = obj[o].missed
        /\ r.name = obj[o].name
        /\ r.pc = IF id \in DOMAIN databases THEN "closing" ELSE "closed"
        /\ r.pc = "closing" => r.via = databases[id]
  <2>1. CASE id \in DOMAIN databases
    <3>1. obj' = [obj EXCEPT ![o] = e1]
      BY <2>1 DEF Close
    <3>2. databases[id] \in Objects
      BY <2>1, MineInMap
    <3>3. /\ e1 \in Object /\ e1.file = obj[o].file
          /\ e1.created = obj[o].created
          /\ e1.want = obj[o].want /\ e1.missed = obj[o].missed
          /\ e1.name = obj[o].name /\ e1.pc = "closing" /\ e1.via = databases[id]
      BY <1>1, <3>2 DEF Object
    <3> HIDE DEF e1
    <3> QED
      BY <2>1, <3>1, <3>3
  <2>2. CASE id \notin DOMAIN databases
    <3>1. obj' = [obj EXCEPT ![o] = e2]
      BY <2>2 DEF Close
    <3>2. /\ e2 \in Object /\ e2.file = obj[o].file
          /\ e2.created = obj[o].created
          /\ e2.want = obj[o].want /\ e2.missed = obj[o].missed
          /\ e2.name = obj[o].name /\ e2.pc = "closed"
      BY <1>1 DEF Object
    <3> HIDE DEF e2
    <3> QED
      BY <2>2, <3>1, <3>2
  <2> QED
    BY <2>1, <2>2
<1> HIDE DEF e1, e2
<1>3. /\ UNCHANGED <<files, path, removing, open, nextId, tx, crashes>>
      /\ databases' = [i \in DOMAIN databases \ {id} |-> databases[i]]
  BY DEF Close
<1>4. obj[o].pc \in Given /\ r.pc \in Given
  BY <1>1, <1>2 DEF Given
<1>5. FileInv' /\ ObjectInv' /\ CreationInv' /\ Kept /\ TxInv'
  BY <1>2, <1>3, <1>4, GivenStep
<1>6. \A p \in Objects : obj'[p] = IF p = o THEN r ELSE obj[p]
  BY <1>2 DEF Inv, ObjectInv
<1>7. \A p \in Objects : Mine(p)' <=> p # o /\ Mine(p)
  BY <1>2, <1>6 DEF Mine, InUse
<1>8. /\ DOMAIN databases' = DOMAIN databases \ {id}
      /\ \A i \in DOMAIN databases' : databases'[i] = databases[i]
  BY <1>3
<1>9. MapInv'
  <2>1. \A i \in DOMAIN databases' :
          /\ databases'[i] \in open' /\ Mine(databases[i])'
          /\ obj'[databases'[i]].id = i
    <3> TAKE i \in DOMAIN databases'
    <3>1. PICK d \in Objects : d = databases[i]
      BY <1>8 DEF Inv, MapInv, OpenInv
    <3>2. d \in open /\ Mine(d) /\ obj[d].id = i
      BY <1>8, <3>1 DEF Inv, MapInv
    <3>3. d # o /\ obj'[d] = obj[d] /\ Mine(d)'
      BY <1>6, <1>7, <1>8, <3>2
    <3>4. databases'[i] = d
      BY <1>8, <3>1
    <3>5. Mine(databases[i])'
      BY <3>3, <3>4
    <3> QED
      BY <1>3, <3>2, <3>3, <3>4, <3>5
  <2>2. \A p \in Objects : Mine(p)' => /\ obj'[p].id \in 1..nextId'
                                       /\ At(p, "reading")' => obj'[p].via = p
    BY <1>3, <1>6, <1>7 DEF Inv, MapInv, At
  <2>3. \A p, q \in Objects :
          Mine(p)' /\ Mine(q)' /\ p # q => obj'[p].id # obj'[q].id
    BY <1>6, <1>7 DEF Inv, MapInv
  <2> QED
    BY <1>3, <1>8, <2>1, <2>2, <2>3 DEF Inv, MapInv
<1>10. OpenInv'
  <2>1. ASSUME NEW d \in open
        PROVE  /\ d \in Objects /\ obj'[d].pc \in Given
               /\ AtName(d)' /\ Held(d)'
    <3>1. d \in Objects /\ obj[d].pc \in Given /\ AtName(d) /\ Held(d)
      BY DEF Inv, OpenInv
    <3>2. obj'[d].pc \in Given /\ obj'[d].file = obj[d].file
      BY <1>2, <1>4, <1>6, <3>1
    <3>3. AtName(d)'
      BY <1>5, <3>1, <3>2, AtNameKept, ObjectFacts
    <3>4. BeingClosed(d) => BeingClosed(d)'
      BY <1>1, <1>6 DEF BeingClosed, At
    <3>5. ASSUME NEW i \in DOMAIN databases, databases[i] = d PROVE Held(d)'
      <4>1. CASE i = id
        <5>1. obj'[o].pc = "closing" /\ obj'[o].via = d
          BY <3>5, <4>1, <1>2, <1>6
        <5> QED
          BY <5>1 DEF Held, BeingClosed, At
      <4>2. CASE i # id
        <5>1. i \in DOMAIN databases' /\ databases'[i] = d
          BY <3>5, <4>2, <1>8
        <5> QED
          BY <5>1 DEF Held
      <4> QED
        BY <4>1, <4>2
    <3>6. Held(d)'
      BY <3>1, <3>4, <3>5 DEF Held
    <3> QED
      BY <3>1, <3>2, <3>3, <3>6
  <2>2. ASSUME NEW p \in Objects, At(p, "closing")' PROVE OutOfMap(p)'
    <3>1. CASE p = o
      <4>1. id \in DOMAIN databases /\ obj'[p].via = databases[id]
        BY <2>2, <3>1, <1>2, <1>6 DEF At
      <4>2. PICK d \in Objects : d = databases[id] /\ Mine(d) /\ obj[d].id = id
        BY <4>1, MineInMap
      <4>3. obj'[d].pc \in Given
        BY <4>2, <1>4, <1>6 DEF Mine, InUse, Given
      <4>4. \A i \in DOMAIN databases' : databases'[i] # d
        BY <4>2, <1>8 DEF Inv, MapInv
      <4> QED
        BY <4>1, <4>2, <4>3, <4>4 DEF OutOfMap
    <3>2. CASE p # o
      <4>1. obj'[p] = obj[p] /\ OutOfMap(p) /\ obj[p].via \in Objects
        BY <2>2, <3>2, <1>6, ObjectFacts DEF At, Inv, OpenInv, Object
      <4>2. obj'[obj[p].via].pc \in Given
        BY <4>1, <1>4, <1>6 DEF OutOfMap
      <4> QED
        BY <4>1, <4>2, <1>8 DEF OutOfMap
    <3> QED
      BY <3>1, <3>2
  <2> QED
    BY <2>1, <2>2, <1>3 DEF OpenInv
<1> QED
  BY <1>5, <1>9, <1>10 DEF Inv

LEMMA CloseDbStep ==
  ASSUME Inv, NEW o \in Objects, CloseDb(o) PROVE Inv'
<1> DEFINE e == [obj[o] EXCEPT !.pc = "closed", !.via = o]
<1>1. obj[o] \in Object /\ obj[o].pc = "closing" /\ OutOfMap(o)
  BY ObjectFacts DEF CloseDb, At, Inv, OpenInv
<1>2. /\ e \in Object /\ e.file = obj[o].file /\ e.created = obj[o].created
      /\ e.want = obj[o].want /\ e.missed = obj[o].missed
      /\ e.name = obj[o].name /\ e.pc = "closed"
  BY <1>1 DEF Object
<1>3. obj' = [obj EXCEPT ![o] = e]
  BY DEF CloseDb
<1>4. PICK r \in Object : r = e
  BY <1>2
<1> HIDE DEF e
<1>5. /\ obj' = [obj EXCEPT ![o] = r]
      /\ r.file = obj[o].file /\ r.created = obj[o].created
      /\ r.want = obj[o].want /\ r.missed = obj[o].missed
      /\ r.name = obj[o].name /\ r.pc = "closed"
  BY <1>2, <1>3, <1>4
<1>6. /\ UNCHANGED <<files, path, removing, databases, nextId, tx, crashes>>
      /\ open' = open \ {obj[o].via}
  BY DEF CloseDb
<1>7. obj[o].pc \in Given /\ r.pc \in Given
  BY <1>1, <1>5 DEF Given
<1>8. FileInv' /\ ObjectInv' /\ CreationInv' /\ Kept /\ TxInv'
  BY <1>5, <1>6, <1>7, GivenStep
<1>9. \A p \in Objects : obj'[p] = IF p = o THEN r ELSE obj[p]
  BY <1>5 DEF Inv, ObjectInv
<1>10. ~Mine(o) /\ \A p \in Objects : Mine(p)' <=> Mine(p)
  BY <1>1, <1>5, <1>9 DEF Mine, InUse
<1>11. MapInv'
  <2>1. \A i \in DOMAIN databases' :
          /\ databases'[i] \in open' /\ Mine(databases[i])'
          /\ obj'[databases'[i]].id = i
    <3> TAKE i \in DOMAIN databases'
    <3>1. i \in DOMAIN databases /\ databases'[i] = databases[i]
      BY <1>6
    <3>2. PICK d \in Objects : d = databases[i]
      BY <3>1 DEF Inv, MapInv, OpenInv
    <3>3. d \in open /\ Mine(d) /\ obj[d].id = i
      BY <3>1, <3>2 DEF Inv, MapInv
    <3>4. d \in open'
      BY <1>1, <1>6, <3>1, <3>2, <3>3 DEF OutOfMap
    <3>5. Mine(d)' /\ obj'[d] = obj[d]
      BY <1>9, <1>10, <3>3
    <3>6. databases'[i] = d
      BY <3>1, <3>2
    <3>7. Mine(databases[i])'
      BY <3>5, <3>6
    <3> QED
      BY <3>3, <3>4, <3>5, <3>6, <3>7
  <2>2. \A p \in Objects : Mine(p)' => /\ obj'[p].id \in 1..nextId'
                                       /\ At(p, "reading")' => obj'[p].via = p
    BY <1>6, <1>9, <1>10 DEF Inv, MapInv, At
  <2>3. \A p, q \in Objects :
          Mine(p)' /\ Mine(q)' /\ p # q => obj'[p].id # obj'[q].id
    BY <1>9, <1>10 DEF Inv, MapInv
  <2> QED
    BY <1>6, <2>1, <2>2, <2>3 DEF Inv, MapInv
<1>12. OpenInv'
  <2>1. ASSUME NEW d \in open'
        PROVE  /\ d \in Objects /\ obj'[d].pc \in Given
               /\ AtName(d)' /\ Held(d)'
    <3>1. /\ d \in Objects /\ obj[d].pc \in Given /\ AtName(d) /\ Held(d)
          /\ d # obj[o].via
      BY <1>6 DEF Inv, OpenInv
    <3>2. obj'[d].pc \in Given /\ obj'[d].file = obj[d].file
      BY <1>5, <1>7, <1>9, <3>1
    <3>3. AtName(d)'
      BY <1>8, <3>1, <3>2, AtNameKept, ObjectFacts
    <3>4. BeingClosed(d) => BeingClosed(d)'
      BY <1>9, <3>1 DEF BeingClosed, At
    <3>5. Held(d)'
      BY <1>6, <3>1, <3>4 DEF Held
    <3> QED
      BY <3>1, <3>2, <3>3, <3>5
  <2>2. ASSUME NEW p \in Objects, At(p, "closing")' PROVE OutOfMap(p)'
    <3>1. p # o /\ obj'[p] = obj[p] /\ At(p, "closing")
      BY <2>2, <1>5, <1>9 DEF At
    <3>2. OutOfMap(p) /\ obj[p].via \in Objects
      BY <3>1, ObjectFacts DEF Inv, OpenInv, Object
    <3>3. obj'[obj[p].via].pc \in Given
      BY <3>2, <1>7, <1>9 DEF OutOfMap
    <3> QED
      BY <1>6, <3>1, <3>2, <3>3 DEF OutOfMap
  <2> QED
    BY <2>1, <2>2 DEF OpenInv
<1> QED
  BY <1>8, <1>11, <1>12 DEF Inv

\* Nobody comes to count as a creator, or to have been given the file.
LEMMA SameCreation ==
  ASSUME Inv, UNCHANGED files,
         \A o \in Objects :
           /\ obj'[o].file = obj[o].file
           /\ obj'[o].created = obj[o].created /\ obj'[o].want = obj[o].want
           /\ \/ obj'[o].pc = obj[o].pc
              \/ obj'[o].pc \notin OnFile \cup Given
              \/ obj'[o].pc \in Given /\ obj[o].pc \in Given
  PROVE  CreationInv'
<1>1. \A o \in Objects : Creator(o)' => Creator(o)
  BY DEF Creator, OnFile
<1>2. \A o \in Objects : obj'[o].pc \in {"insert"} \cup Given =>
                         obj[o].pc \in {"insert"} \cup Given
  BY DEF OnFile
<1>3. \A o \in Objects : obj'[o].pc \in {"check", "create", "setVersion"} =>
                         obj'[o].pc = obj[o].pc
  BY DEF OnFile, Given
<1>4. \A o \in Objects : Creator(o)' => (files')[obj'[o].file].table
  BY <1>1 DEF Inv, CreationInv
<1>5. \A p, q \in Objects :
        p # q /\ Creator(p)' /\ Creator(q)' => obj'[p].file # obj'[q].file
  <2>1. \A p, q \in Objects :
          p # q /\ Creator(p) /\ Creator(q) => obj[p].file # obj[q].file
    BY DEF Inv, CreationInv
  <2>2. \A o \in Objects : obj'[o].file = obj[o].file
    OBVIOUS
  <2> QED
    BY <1>1, <2>1, <2>2
<1>6. \A o \in Objects :
        /\ obj'[o].pc = "check" => obj'[o].want # "" /\ ~obj'[o].created
        /\ obj'[o].pc \in {"create", "setVersion"} => obj'[o].created
  BY <1>3 DEF Inv, CreationInv
<1>7. \A o \in Objects :
        /\ obj'[o].pc \in {"insert"} \cup Given
        /\ obj'[o].created \/ obj'[o].want # ""
        => (files')[obj'[o].file].rows # <<>>
  BY <1>2 DEF Inv, CreationInv
<1> QED
  BY <1>4, <1>5, <1>6, <1>7 DEF CreationInv

\* closeConnectionsLocked, and what follows it with the lock.
LEMMA CloseConnectionsStep ==
  ASSUME Inv, CloseConnections, removing' \subseteq Names PROVE Inv'
<1>1. /\ DOMAIN databases' = {} /\ UNCHANGED <<files, path, nextId, obj, crashes>>
      /\ open' = open \ {databases[i] : i \in DOMAIN databases}
  BY DEF CloseConnections
<1>2. FileInv' /\ Grown /\ ObjectInv' /\ CreationInv' /\ Kept
  BY <1>1, SameFiles, SameObjects DEF Inv
<1>3. MapInv'
  BY <1>1 DEF Inv, MapInv, Mine, InUse, At
<1>4. OpenInv'
  <2>1. ASSUME NEW d \in open'
        PROVE  /\ d \in Objects /\ obj'[d].pc \in Given
               /\ AtName(d)' /\ Held(d)'
    <3>1. d \in Objects /\ obj[d].pc \in Given /\ AtName(d) /\ BeingClosed(d)
      BY <1>1 DEF Inv, OpenInv, Held
    <3> QED
      BY <3>1, <1>1 DEF AtName, FileAtName, Held, BeingClosed, At
  <2>2. ASSUME NEW p \in Objects, At(p, "closing")' PROVE OutOfMap(p)'
    BY <2>2, <1>1 DEF Inv, OpenInv, OutOfMap, At
  <2> QED
    BY <2>1, <2>2 DEF OpenInv
<1>5. \A p \in Objects : tx'[p] = IF tx[p].st \in InMap THEN NoTx(p) ELSE tx[p]
  BY DEF CloseConnections
<1>6. \A p \in Objects : TxFine(p)'
  <2> TAKE p \in Objects
  <2>1. CASE tx[p].st \in InMap
    <3>1. tx'[p].st = "none" /\ ~tx'[p].shared
      BY <2>1, <1>5, NoTxFacts
    <3> QED
      BY <3>1 DEF TxFine, Reserving, InMap
  <2>2. CASE tx[p].st \notin InMap
    <3>1. tx'[p] = tx[p]
      BY <2>2, <1>5
    <3>2. tx[p].st # "none" => obj'[p].pc \notin {"idle"} \cup OpenSteps
      BY <1>1, TxFacts DEF TxFine
    <3> QED
      BY <2>2, <3>1, <3>2, <1>1, <1>2, TxStays
  <2> QED
    BY <2>1, <2>2
<1>7. tx' \in [Objects -> Transaction]
  <2>1. \A p \in Objects : tx'[p] \in Transaction
    BY <1>5, TxFacts, NoTxFacts
  <2>2. tx' = [p \in Objects |-> tx'[p]]
    BY DEF CloseConnections
  <2> QED
    BY <2>1, <2>2
<1> QED
  BY <1>2, <1>3, <1>4, <1>6, <1>7 DEF Inv, TxInv

LEMMA UnlinkStep ==
  ASSUME Inv, NEW n \in Names, Unlink(n) PROVE Inv'
<1>1. /\ removing # {} /\ removing' \subseteq removing
      /\ UNCHANGED <<files, databases, open, nextId, crashes>>
  BY DEF Unlink
<1>2. DOMAIN databases = {}
  BY <1>1 DEF Inv, MapInv
<1>3. CASE UNCHANGED <<path, obj, tx>>
  <2>1. FileInv' /\ Grown /\ ObjectInv' /\ CreationInv' /\ Kept
    BY <1>1, <1>3, SameFiles, SameObjects DEF Inv
  <2>2. MapInv'
    BY <1>1, <1>2, <1>3 DEF Inv, MapInv, Mine, InUse, At
  <2>3. OpenInv'
    BY <1>1, <1>3 DEF Inv, OpenInv, AtName, FileAtName, Held, BeingClosed, At,
                      OutOfMap
  <2>4. \A p \in Objects : TxFine(p)'
    BY <1>1, <1>3, <2>1, TxFacts, TxStays DEF TxFine
  <2> QED
    BY <1>3, <2>1, <2>2, <2>3, <2>4 DEF Inv, TxInv
<1>4. CASE path' = [path EXCEPT ![n] = 0] /\ ~UNCHANGED <<path, obj, tx>>
  <2> DEFINE om == [o \in Objects |->
                      \/ obj[o].missed
                      \/ /\ obj[o].file = path[n]
                         /\ obj[o].pc \in OpenSteps \/ BeingClosed(o)]
             tm == [o \in Objects |->
                      \/ tx[o].missed
                      \/ /\ tx[o].file = path[n]
                         /\ tx[o].st \in {"begun", "committing"}]
  <2>1. /\ obj' = [o \in Objects |-> [obj[o] EXCEPT !.missed = om[o]]]
        /\ tx' = [o \in Objects |-> [tx[o] EXCEPT !.missed = tm[o]]]
    BY <1>4 DEF Unlink
  <2>2. \A o \in Objects :
          /\ om[o] \in BOOLEAN /\ tm[o] \in BOOLEAN
          /\ obj[o].missed => om[o]
          /\ tx[o].missed => tm[o]
          /\ obj[o].file = path[n] /\ (obj[o].pc \in OnFile \/ BeingClosed(o)) =>
               om[o]
          /\ tx[o].file = path[n] /\ tx[o].st \in {"begun", "committing"} => tm[o]
    <3> TAKE o \in Objects
    <3>1. obj[o] \in Object /\ tx[o] \in Transaction
      BY ObjectFacts, TxFacts
    <3>2. obj[o].missed \in BOOLEAN /\ tx[o].missed \in BOOLEAN
      BY <3>1 DEF Object, Transaction
    <3> QED
      BY <3>2 DEF OnFile, OpenSteps
  <2> HIDE DEF om, tm
  <2>3. \A o \in Objects :
          /\ obj'[o] \in Object /\ obj'[o].missed = om[o]
          /\ obj'[o].pc = obj[o].pc /\ obj'[o].file = obj[o].file
          /\ obj'[o].created = obj[o].created /\ obj'[o].want = obj[o].want
          /\ obj'[o].id = obj[o].id /\ obj'[o].via = obj[o].via
          /\ obj'[o].name = obj[o].name /\ obj'[o].stale = obj[o].stale
    <3> TAKE o \in Objects
    <3>1. obj[o] \in Object /\ om[o] \in BOOLEAN
      BY <2>2, ObjectFacts
    <3>2. obj'[o] = [obj[o] EXCEPT !.missed = om[o]]
      BY <2>1
    <3> QED
      BY <3>1, <3>2 DEF Object
  <2>4. \A o \in Objects :
          /\ tx'[o] \in Transaction /\ tx'[o].missed = tm[o]
          /\ tx'[o].st = tx[o].st /\ tx'[o].file = tx[o].file
          /\ tx'[o].via = tx[o].via /\ tx'[o].old = tx[o].old
          /\ tx'[o].shared = tx[o].shared
    <3> TAKE o \in Objects
    <3>1. tx[o] \in Transaction /\ tm[o] \in BOOLEAN
      BY <2>2, TxFacts
    <3>2. tx'[o] = [tx[o] EXCEPT !.missed = tm[o]]
      BY <2>1
    <3> QED
      BY <3>1, <3>2 DEF Transaction
  <2>5. /\ \A m \in Names : path'[m] = IF m = n THEN 0 ELSE path[m]
        /\ FileInv' /\ Grown
    <3>1. path \in [Names -> 0..Len(files)] /\ Len(files) \in Nat
      BY FileFacts DEF Inv, FileInv
    <3>2. path' \in [Names -> 0..Len(files)]
      BY <1>4, <3>1
    <3> QED
      BY <1>1, <1>4, <3>1, <3>2 DEF Inv, FileInv, Grown
  <2>6. \A o \in Objects : obj[o].name \in Names
    BY ObjectFacts
  \* Who was on the file has missed its removal; the others are where they were.
  <2>7. \A o \in Objects :
          /\ obj[o].pc \in OnFile \/ BeingClosed(o)
          /\ AtName(o)
          => AtName(o)'
    <3> TAKE o \in Objects
    <3>1. CASE obj[o].name = n
      BY <3>1, <2>2, <2>3 DEF AtName, FileAtName
    <3>2. CASE obj[o].name # n
      BY <3>2, <2>2, <2>3, <2>5, <2>6 DEF AtName, FileAtName
    <3> QED
      BY <3>1, <3>2
  <2>8. ObjectInv'
    <3>1. obj' \in [Objects -> Object]
      BY <2>1, <2>3
    <3>2. \A o \in Objects :
            /\ obj'[o].file <= Len(files')
            /\ obj'[o].pc \in OnFile \cup Given => obj'[o].file # 0
            /\ obj'[o].pc \in OnFile => AtName(o)'
            /\ obj'[o].stale => obj'[o].pc \in Given
      BY <1>1, <2>3, <2>7 DEF Inv, ObjectInv
    <3> QED
      BY <3>1, <3>2 DEF ObjectInv
  <2>9. CreationInv'
    BY <1>1, <2>3, SameCreation
  <2>10. MapInv'
    <3>1. DOMAIN databases' = {}
      BY <1>1, <1>2
    <3>2. \A o \in Objects : /\ Mine(o)' <=> Mine(o)
                             /\ At(o, "reading")' <=> At(o, "reading")
      BY <2>3 DEF Mine, InUse, At
    <3>3. \A o \in Objects : Mine(o)' =>
            /\ obj'[o].id \in 1..nextId'
            /\ At(o, "reading")' => obj'[o].via = o
      BY <1>1, <2>3, <3>2 DEF Inv, MapInv
    <3>4. \A p, q \in Objects :
            Mine(p)' /\ Mine(q)' /\ p # q => obj'[p].id # obj'[q].id
      BY <2>3, <3>2 DEF Inv, MapInv
    <3>5. removing' \subseteq Names /\ nextId' \in Nat /\ crashes' \in 0..MaxCrashes
      BY <1>1 DEF Inv, MapInv
    <3> QED
      BY <3>1, <3>3, <3>4, <3>5 DEF MapInv
  <2>11. \A d : BeingClosed(d) => BeingClosed(d)'
    BY <2>3 DEF BeingClosed, At
  <2>12. OpenInv'
    <3>1. ASSUME NEW d \in open'
          PROVE  /\ d \in Objects /\ obj'[d].pc \in Given
                 /\ AtName(d)' /\ Held(d)'
      <4>1. d \in Objects /\ obj[d].pc \in Given /\ AtName(d) /\ BeingClosed(d)
        BY <1>1, <1>2 DEF Inv, OpenInv, Held
      <4> QED
        BY <4>1, <2>3, <2>7, <2>11 DEF Held
    <3>2. ASSUME NEW p \in Objects, At(p, "closing")' PROVE OutOfMap(p)'
      <4>1. At(p, "closing") /\ obj'[p].via = obj[p].via
        BY <3>2, <2>3 DEF At
      <4>2. OutOfMap(p) /\ obj[p].via \in Objects
        BY <4>1, ObjectFacts DEF Inv, OpenInv, Object
      <4> QED
        BY <4>1, <4>2, <1>1, <2>3 DEF OutOfMap
    <3> QED
      BY <3>1, <3>2 DEF OpenInv
  <2>13. ASSUME NEW o \in Objects PROVE TxFine(o)'
    <3>1. TxFine(o) /\ tx[o].via \in Objects
      BY TxFacts
    <3>2. tx[o].st \notin InMap
      BY <1>1, <3>1 DEF TxFine
    <3>3. tx[o].shared => tx[o].old = StoredVersion(tx[o].file)'
      BY <1>1, <2>4, <3>1 DEF TxFine, StoredVersion
    <3>4. ASSUME tx[o].st \notin {"none", "found"}
          PROVE  /\ tx[o].file \in 1..Len(files')
                 /\ \/ tx[o].file = FileAtName(tx[o].via)'
                    \/ tm[o] \/ om[tx[o].via]
      <4>1. tx[o].st \in {"begun", "committing"}
        <5>1. tx[o] \in Transaction
          BY TxFacts
        <5> QED
          BY <5>1, <3>2, <3>4 DEF Transaction
      <4>2. /\ tx[o].file \in 1..Len(files)
            /\ \/ tx[o].file = FileAtName(tx[o].via)
               \/ tx[o].missed \/ obj[tx[o].via].missed
        BY <3>1, <3>4 DEF TxFine
      <4>3. CASE tx[o].missed \/ obj[tx[o].via].missed
        BY <4>2, <4>3, <1>1, <2>2, <3>1
      <4>4. CASE tx[o].file = FileAtName(tx[o].via)
        <5>1. CASE obj[tx[o].via].name = n
          BY <4>1, <4>2, <4>4, <5>1, <1>1, <2>2 DEF FileAtName
        <5>2. CASE obj[tx[o].via].name # n
          BY <4>2, <4>4, <5>2, <1>1, <2>3, <2>4, <2>5, <2>6, <3>1 DEF FileAtName
        <5> QED
          BY <5>1, <5>2
      <4> QED
        BY <4>2, <4>3, <4>4
    <3> QED
      BY <2>3, <2>4, <3>1, <3>2, <3>3, <3>4 DEF TxFine
  <2>14. TxInv'
    <3>1. tx' \in [Objects -> Transaction]
      BY <2>1, <2>4
    <3> QED
      BY <3>1, <2>13 DEF TxInv
  <2> QED
    BY <2>5, <2>8, <2>9, <2>10, <2>12, <2>14 DEF Inv
<1> QED
  BY <1>3, <1>4 DEF Unlink

LEMMA CrashStep ==
  ASSUME Inv, Crash PROVE Inv'
<1>1. /\ crashes < MaxCrashes /\ crashes' = crashes + 1 /\ removing' = {}
      /\ DOMAIN databases' = {} /\ open' = {} /\ nextId' = 0
      /\ tx' = [o \in Objects |-> NoTx(o)]
      /\ UNCHANGED <<files, path>>
  <2>1. databases' = <<>>
    BY DEF Crash
  <2>2. DOMAIN databases' = {}
    BY <2>1
  <2> QED
    BY <2>2 DEF Crash
<1> DEFINE l(o) == CASE obj[o].pc \in OpenSteps -> "failed"
                     [] obj[o].pc = "reading" -> "given"
                     [] obj[o].pc = "closing" -> "closed"
                     [] OTHER -> obj[o].pc
           st(o) == obj[o].stale \/ InUse(o)
           w(o) == IF obj[o].ws = "open" THEN "lost" ELSE obj[o].ws
<1>2. \A o \in Objects :
        /\ obj[o] \in Object /\ st(o) \in BOOLEAN
        /\ l(o) \in {"idle", "failed", "given", "closed"}
        /\ w(o) \in {"none", "open", "lost"}
  <2> TAKE o \in Objects
  <2>1. obj[o] \in Object
    BY ObjectFacts
  <2>2. /\ obj[o].pc \in {"idle", "failed", "given", "reading", "closing",
                          "closed"} \cup OpenSteps
        /\ obj[o].stale \in BOOLEAN /\ obj[o].ws \in {"none", "open", "lost"}
    BY <2>1 DEF Object
  <2>3. l(o) \in {"idle", "failed", "given", "closed"}
    BY <2>2 DEF OpenSteps
  <2> QED
    BY <2>1, <2>2, <2>3 DEF InUse
<1>3. \A o \in Objects :
        /\ l(o) \in Given => obj[o].pc \in Given
        /\ obj[o].pc \in Given => l(o) \in Given
        /\ l(o) = "given" => st(o)
  BY DEF OpenSteps, Given, InUse
<1>4. obj' = [o \in Objects |-> [obj[o] EXCEPT !.pc = l(o), !.stale = st(o),
                                               !.ws = w(o), !.via = o]]
  BY DEF Crash
<1>5. \A o \in Objects : obj[o].stale => obj[o].pc \in Given
  BY DEF Inv, ObjectInv
<1>6. \A o \in Objects : st(o) => l(o) \in Given
  BY <1>3, <1>5 DEF InUse, Given
<1> HIDE DEF l, st, w
<1>7. \A o \in Objects :
        /\ obj'[o] \in Object /\ obj'[o].pc = l(o) /\ obj'[o].stale = st(o)
        /\ obj'[o].file = obj[o].file /\ obj'[o].created = obj[o].created
        /\ obj'[o].want = obj[o].want /\ obj'[o].name = obj[o].name
  <2> TAKE o \in Objects
  <2>1. /\ obj[o] \in Object /\ st(o) \in BOOLEAN /\ w(o) \in {"none", "open", "lost"}
        /\ l(o) \in {"idle", "failed", "given", "closed"}
    BY <1>2
  <2>2. obj'[o] = [obj[o] EXCEPT !.pc = l(o), !.stale = st(o), !.ws = w(o),
                                 !.via = o]
    BY <1>4
  <2> QED
    BY <2>1, <2>2 DEF Object
<1>8. \A o \in Objects : l(o) \notin OnFile \cup {"closing", "reading"}
  BY <1>2 DEF OnFile
<1>9. FileInv' /\ Grown
  BY <1>1, SameFiles DEF Inv
<1>10. ObjectInv'
  <2>1. obj' \in [Objects -> Object]
    BY <1>4, <1>7
  <2>2. \A o \in Objects :
          /\ obj'[o].file <= Len(files')
          /\ obj'[o].pc \in OnFile \cup Given => obj'[o].file # 0
          /\ obj'[o].pc \notin OnFile
          /\ obj'[o].stale => obj'[o].pc \in Given
    BY <1>1, <1>3, <1>6, <1>7, <1>8 DEF Inv, ObjectInv
  <2> QED
    BY <2>1, <2>2 DEF ObjectInv
<1>11. CreationInv'
  <2>1. \A o \in Objects :
          \/ obj'[o].pc \notin OnFile \cup Given
          \/ obj'[o].pc \in Given /\ obj[o].pc \in Given
    BY <1>3, <1>7, <1>8
  <2> QED
    BY <1>1, <1>7, <2>1, SameCreation
<1>12. MapInv'
  <2>1. \A o \in Objects : ~Mine(o)'
    BY <1>3, <1>7, <1>8 DEF Mine, InUse
  <2>2. crashes' \in 0..MaxCrashes
    <3>1. crashes \in 0..MaxCrashes /\ MaxCrashes \in Nat
      BY BoundFacts DEF Inv, MapInv
    <3> QED
      BY <1>1, <3>1
  <2> QED
    BY <1>1, <2>1, <2>2 DEF MapInv
<1>13. OpenInv'
  <2>1. \A o \in Objects : ~At(o, "closing")'
    BY <1>7, <1>8 DEF At
  <2> QED
    BY <1>1, <2>1 DEF OpenInv
<1>14. TxInv'
  <2>1. \A o \in Objects : tx'[o].st = "none" /\ ~tx'[o].shared
    BY <1>1, NoTxFacts
  <2>2. tx' \in [Objects -> Transaction]
    BY <1>1, NoTxFacts
  <2>3. \A o \in Objects : TxFine(o)'
    BY <2>1 DEF TxFine, Reserving, InMap
  <2> QED
    BY <2>2, <2>3 DEF TxInv
<1> QED
  BY <1>9, <1>10, <1>11, <1>12, <1>13, <1>14 DEF Inv

-----------------------------------------------------------------------------
(* The invariant                                                           *)

Fresh(o, n) == [pc |-> "idle", name |-> n, want |-> "", created |-> FALSE,
                file |-> 0, id |-> 0, stale |-> FALSE, ws |-> "none",
                via |-> o, missed |-> FALSE]

LEMMA FreshFacts ==
  ASSUME NEW o \in Objects, NEW n \in Names
  PROVE  /\ Fresh(o, n) \in Object /\ Fresh(o, n).pc = "idle"
         /\ Fresh(o, n).file = 0 /\ Fresh(o, n).created = FALSE
         /\ Fresh(o, n).stale = FALSE
<1>1. "" \in AllVersions
  BY DEF AllVersions
<1> QED
  BY <1>1, BoundFacts DEF Fresh, Object

LEMMA InvInit == Init => Inv
<1> SUFFICES ASSUME Init PROVE Inv
  OBVIOUS
<1>1. FileInv
  <2>1. <<>> \in Seq(File) /\ Len(<<>>) = 0
    BY EmptySeq
  <2>2. files = <<>> /\ path = [n \in Names |-> 0]
    BY DEF Init
  <2> QED
    BY <2>1, <2>2, BoundFacts DEF FileInv
<1>2. PICK nameOf \in [Objects -> Names] :
        obj = [o \in Objects |-> Fresh(o, nameOf[o])]
  BY DEF Init, Fresh
<1>3. \A o \in Objects : /\ obj[o] \in Object /\ obj[o].pc = "idle"
                         /\ obj[o].file = 0 /\ obj[o].created = FALSE
                         /\ obj[o].stale = FALSE
  BY <1>2, FreshFacts
<1>4. obj \in [Objects -> Object]
  BY <1>2, <1>3
<1>5. ObjectInv
  <2>1. Len(files) \in Nat
    BY <1>1, FileFacts
  <2>2. \A o \in Objects : /\ obj[o].file <= Len(files) /\ ~obj[o].stale
                           /\ obj[o].pc \notin OnFile \cup Given
    <3> TAKE o \in Objects
    <3>1. obj[o].pc = "idle" /\ obj[o].file = 0 /\ ~obj[o].stale
      BY <1>3
    <3> QED
      BY <2>1, <3>1 DEF OnFile, Given
  <2> QED
    BY <1>4, <2>2 DEF ObjectInv
<1>6. CreationInv
  BY <1>3 DEF CreationInv, Creator, Given
<1>7. /\ DOMAIN databases = {} /\ removing = {} /\ nextId = 0 /\ crashes = 0
      /\ open = {}
  <2>1. databases = <<>>
    BY DEF Init
  <2>2. DOMAIN databases = {}
    BY <2>1
  <2> QED
    BY <2>2 DEF Init
<1>8. MapInv
  <2>1. \A o \in Objects : ~Mine(o)
    BY <1>3 DEF Mine, InUse
  <2> QED
    BY <1>7, <2>1, BoundFacts DEF MapInv
<1>9. OpenInv
  BY <1>3, <1>7 DEF OpenInv, At
<1>10. TxInv
  <2>1. tx \in [Objects -> Transaction]
    BY NoTxFacts DEF Init
  <2>2. \A o \in Objects : tx[o].st = "none" /\ ~tx[o].shared
    BY NoTxFacts DEF Init
  <2> QED
    BY <2>1, <2>2 DEF TxInv, TxFine, Reserving, InMap
<1> QED
  BY <1>1, <1>5, <1>6, <1>8, <1>9, <1>10 DEF Inv

LEMMA InvStep == Inv /\ [Next]_openVars => Inv'
<1> SUFFICES ASSUME Inv, [Next]_openVars PROVE Inv'
  OBVIOUS
<1>1. ASSUME NEW o \in Objects, OpenNext(o) PROVE Inv'
  BY <1>1, LookupStep, CheckStep, CreateStep, SetVersionStep, InsertStep,
     OpenFailsStep DEF OpenNext
<1>2. ASSUME NEW o \in Objects, PageNext(o) PROVE Inv'
  BY <1>2, CallOpenStep, AskVersionStep, ReadVersionStep, CloseStep,
     CloseDbStep DEF PageNext
<1>3. ASSUME NEW o \in Objects, TxNext(o) PROVE Inv'
  BY <1>3, LookupDbStep, BeginStep, RegisterStep, CompareStep, ReplaceStep,
     TakeTxStep, CommitStep, AbortStep DEF TxNext
<1>4. CASE CloseAll
  BY <1>4, CloseConnectionsStep DEF CloseAll, Inv, MapInv
<1>5. CASE RemoveAll
  BY <1>5, CloseConnectionsStep DEF RemoveAll
<1>6. ASSUME NEW n \in Names, Unlink(n) PROVE Inv'
  BY <1>6, UnlinkStep
<1>7. CASE Crash
  BY <1>7, CrashStep
<1>8. CASE UNCHANGED openVars
  <2>1. UNCHANGED <<files, path, maps, removing, obj, tx, crashes>>
    BY <1>8 DEF openVars, maps
  <2>2. FileInv' /\ Grown /\ ObjectInv' /\ CreationInv' /\ Kept
        /\ MapInv' /\ OpenInv'
    BY <2>1, SameFiles, SameObjects, SameMaps DEF Inv
  <2>3. TxInv'
    BY <2>1, <2>2, SameTx, TxFacts DEF TxFine
  <2> QED
    BY <2>2, <2>3 DEF Inv
<1> QED
  BY <1>1, <1>2, <1>3, <1>4, <1>5, <1>6, <1>7, <1>8 DEF Next

\* Inv holds in every state of every run of the specification.
THEOREM Invariance == Spec => []Inv
<1> QED
  BY InvInit, InvStep, PTL DEF Spec

-----------------------------------------------------------------------------
(* The theorems                                                            *)

(***************************************************************************)
(* The variables have their types, and every handle in the map is open and *)
(* of a file: the map only has objects that Insert has given to a page,    *)
(* and db.Close() comes after the map has lost the handle.                 *)
(***************************************************************************)
THEOREM TypeCorrect == Spec => []TypeOK
<1>1. ASSUME Inv PROVE TypeOK
  <2>1. files \in Seq(File) /\ path \in [Names -> 0..Len(files)]
    BY <1>1 DEF Inv, FileInv
  <2>2. \A d \in open : d \in Objects /\ obj[d].file # 0
    BY <1>1 DEF Inv, OpenInv, ObjectInv
  <2> QED
    BY <1>1, <2>1, <2>2 DEF TypeOK, Inv, ObjectInv, MapInv, TxInv, File
<1> QED
  BY <1>1, Invariance, PTL

(***************************************************************************)
(* However many pages open a name at the same time, and whatever fails or  *)
(* crashes between Open's query for the table and its CREATE TABLE, one of *)
(* them at most is told that it created the file.                          *)
(***************************************************************************)
THEOREM CreatedOnce == Spec => []OneCreator
<1>1. Inv => OneCreator
  BY DEF Inv, CreationInv, OneCreator, Opened, Creator, Given
<1> QED
  BY <1>1, Invariance, PTL

(***************************************************************************)
(* The creator of a file, and a page that asked for a version, find the    *)
(* version row in it: no crash or error between Open's two writes gives a  *)
(* half-made database to either.                                           *)
(***************************************************************************)
THEOREM GivenWhole == Spec => []NoHalfMade
<1>1. Inv => NoHalfMade
  BY DEF Inv, CreationInv, NoHalfMade, Opened, Given
<1> QED
  BY <1>1, Invariance, PTL

(***************************************************************************)
(* For any number of pages, names and restarts: a page of this run of the  *)
(* server gets through its id to its own database or to none, while pages  *)
(* of earlier runs ask for versions, begin and close with the same id; its *)
(* db.version comes from the file it opened, unless that was removed from  *)
(* under its Open or its close.  A page of an earlier run gets through its *)
(* id to the database of a page of this run, or to none: the theorem says  *)
(* no more of it, and no more is true.                                     *)
(***************************************************************************)
THEOREM IdsNameTheirDatabase == Spec => []OwnDatabase
<1>1. ASSUME Inv PROVE OwnDatabase
  <2> SUFFICES ASSUME NEW o \in Objects, InUse(o)
               PROVE  /\ obj[o].id \in DOMAIN databases =>
                           LET d == databases[obj[o].id]
                           IN /\ obj[d].id = obj[o].id /\ InUse(d) /\ ~obj[d].stale
                              /\ d = o \/ obj[o].stale
                      /\ At(o, "reading") /\ obj[o].via \in open =>
                           \/ FilesOf(obj[o].via) = {obj[o].file}
                           \/ obj[o].stale \/ obj[o].missed
    BY DEF OwnDatabase
  <2>1. ASSUME obj[o].id \in DOMAIN databases
        PROVE  LET d == databases[obj[o].id]
               IN /\ obj[d].id = obj[o].id /\ InUse(d) /\ ~obj[d].stale
                  /\ d = o \/ obj[o].stale
    BY <1>1, <2>1, MineInMap DEF Mine
  <2>2. ASSUME At(o, "reading"), obj[o].via \in open, ~obj[o].stale, ~obj[o].missed
        PROVE  FilesOf(obj[o].via) = {obj[o].file}
    <3>1. obj[o].via = o
      BY <1>1, <2>2 DEF Mine, Inv, MapInv
    <3>2. obj[o].file = FileAtName(o)
      BY <1>1, <2>2, <3>1 DEF Inv, OpenInv, AtName
    <3>3. obj[o].file # 0
      BY <1>1 DEF InUse, Given, Inv, ObjectInv
    <3> QED
      BY <3>1, <3>2, <3>3 DEF FilesOf
  <2> QED
    BY <2>1, <2>2
<1> QED
  BY <1>1, Invariance, PTL

(***************************************************************************)
(* After removeAllWebSQLDB an open handle, or a transaction begun on one,  *)
(* is on the file at its name, but for those that the maps did not have    *)
(* when the file was removed: the ones in the hand of Open, Close,         *)
(* BeginTransaction or Commit, and what was begun through such a handle.   *)
(***************************************************************************)
THEOREM RemovedForGood == Spec => []RemovedStaysRemoved
<1>1. Inv => RemovedStaysRemoved
  BY DEF Inv, OpenInv, AtName, TxInv, TxFine, RemovedStaysRemoved
<1> QED
  BY <1>1, Invariance, PTL

(***************************************************************************)
(* changeVersion is a compare-and-set of the version in the file, for any  *)
(* number of objects on it: a transaction that has compared has the SHARED *)
(* lock, so what it compared with is there until it commits.               *)
(***************************************************************************)
THEOREM VersionsComparedAndSet == Spec => ChangesCompared
<1> DEFINE Compared ==
      \A f \in DOMAIN files :
        files[f].rows # <<>> /\ files'[f].rows # files[f].rows =>
          \E o \in Objects :
            \/ /\ tx[o].st = "committing" /\ tx[o].file = f
               /\ tx[o].old = StoredVersion(f)
               /\ files'[f].rows = <<tx[o].new>>
            \/ obj[o].created /\ At(o, "setVersion") /\ obj[o].file = f
<1>1. ASSUME Inv, [Next]_openVars PROVE [Compared]_openVars
  <2> SUFFICES ASSUME NEW f \in DOMAIN files, Next,
                      files'[f].rows # files[f].rows
               PROVE  \E o \in Objects :
                        \/ /\ tx[o].st = "committing" /\ tx[o].file = f
                           /\ tx[o].old = StoredVersion(f)
                           /\ files'[f].rows = <<tx[o].new>>
                        \/ /\ obj[o].created /\ At(o, "setVersion")
                           /\ obj[o].file = f
    BY <1>1
  <2>1. f \in 1..Len(files) /\ files \in Seq(File)
    BY <1>1, LenProperties DEF Inv, FileInv
  <2>2. ASSUME NEW o \in Objects, Lookup(o) PROVE FALSE
    BY <1>1, <2>1, <2>2, LookupFiles, ObjectFacts DEF Inv
  <2>3. ASSUME NEW o \in Objects, Create(o) PROVE FALSE
    <3>1. files' = [files EXCEPT ![obj[o].file].table = TRUE]
      BY <2>3 DEF Create
    <3>2. files[f] \in File
      BY <1>1, <2>1, FileFacts DEF Inv
    <3> QED
      BY <2>1, <3>1, <3>2 DEF File
  <2>4. ASSUME NEW o \in Objects, SetVersion(o)
        PROVE  obj[o].created /\ At(o, "setVersion") /\ obj[o].file = f
    <3>1. obj[o].created
      BY <1>1, <2>4 DEF SetVersion, At, Inv, CreationInv
    <3>2. obj[o].file = f
      BY <2>1, <2>4 DEF SetVersion, Replaced
    <3> QED
      BY <2>4, <3>1, <3>2 DEF SetVersion
  <2>5. ASSUME NEW o \in Objects, Commit(o)
        PROVE  /\ tx[o].st = "committing" /\ tx[o].file = f
               /\ tx[o].old = StoredVersion(f)
               /\ files'[f].rows = <<tx[o].new>>
    <3>1. tx[o].st = "committing" /\ files' = Replaced(tx[o].file, tx[o].new)
      BY <2>5 DEF Commit
    <3>2. tx[o].file = f
      BY <2>1, <3>1 DEF Replaced
    <3>3. tx[o].old = StoredVersion(f)
      BY <1>1, <3>1, <3>2, TxFacts DEF TxFine, Reserving
    <3>4. tx[o].new \in AllVersions
      BY <1>1, TxFacts DEF Transaction
    <3>5. files'[f].rows = <<tx[o].new>>
      BY <1>1, <2>1, <3>1, <3>2, <3>4, VersionChange, <2>5
         DEF Commit, elsewhere, Inv
    <3> QED
      BY <3>1, <3>2, <3>3, <3>5
  <2>6. UNCHANGED files \/ \E o \in Objects : \/ Lookup(o) \/ Create(o)
                                              \/ SetVersion(o) \/ Commit(o)
    <3>1. ASSUME NEW o \in Objects, OpenNext(o)
          PROVE  UNCHANGED files \/ Lookup(o) \/ Create(o) \/ SetVersion(o)
      BY <3>1 DEF OpenNext, Check, Insert, OpenFails
    <3>2. ASSUME NEW o \in Objects, PageNext(o) PROVE UNCHANGED files
      BY <3>2 DEF PageNext, CallOpen, AskVersion, ReadVersion, Close, CloseDb
    <3>3. ASSUME NEW o \in Objects, TxNext(o) PROVE UNCHANGED files \/ Commit(o)
      BY <3>3 DEF TxNext, LookupDb, Begin, Register, Compare, Replace, TakeTx, Abort
    <3>4. CASE CloseAll \/ RemoveAll \/ (\E n \in Names : Unlink(n)) \/ Crash
      BY <3>4 DEF CloseAll, RemoveAll, CloseConnections, Unlink, Crash
    <3> QED
      BY <3>1, <3>2, <3>3, <3>4 DEF Next
  <2> QED
    BY <2>2, <2>3, <2>4, <2>5, <2>6
<1>2. Inv /\ [Next]_openVars => [Compared]_openVars
  BY <1>1
<1> QED
  BY <1>2, Invariance, PTL DEF Spec, ChangesCompared
=============================================================================

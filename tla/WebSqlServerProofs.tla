------------------------- MODULE WebSqlServerProofs -------------------------
(***************************************************************************)
(* Theorems about WebSqlServer for any set of connections, of requests and *)
(* any bound on the ids.                                                   *)
(*                                                                         *)
(* That at most one goroutine finishes a transaction is not inductive by   *)
(* itself: it needs to know where a transaction can be at all.  Inv says   *)
(* it: who may hold an id, and what the mutex protects.  Each action is    *)
(* shown to preserve Inv by a lemma of its own, one step per part of Inv.  *)
(***************************************************************************)
EXTENDS WebSqlServer, TLAPS

\* TypeOK in three parts: the handlers', the transactions', the requests'.
HandlerTypes ==
  /\ pc \in [Conns -> HandlerStates]
  /\ cmd \in [Conns -> Commands \cup Internal]
  /\ txId \in [Conns -> Ids \cup {0}]
  /\ connDb \in [Conns -> Ids \cup {0}]
  /\ reply \in [Conns -> {"none", "ok", "error"}]

TxTypes ==
  /\ transactions \subseteq Ids
  /\ txState \in [Ids -> TxStates]
  /\ querying \subseteq Ids
  /\ timer \in [Ids -> TimerStates]
  /\ acked \subseteq Ids

RequestTypes ==
  /\ nextId \in 0..MaxId
  /\ lock \in Requests \cup {NoOne}
  /\ databases \subseteq Ids
  /\ closed \subseteq Ids
  /\ rpc \in [Requests -> RequestStates]
  /\ rid \in [Requests -> Ids \cup {0}]

\* Ids that have not been handed out name nothing.
FreshIds ==
  /\ \A i \in Ids : i > nextId =>
       /\ txState[i] = "none"
       /\ i \notin databases \cup closed
  /\ \A r \in Requests : rid[r] <= nextId
  /\ \A c \in Conns : txId[c] <= nextId

\* An id that a handler, the map or a timer has is that of a transaction.
RealTxs ==
  /\ \A c \in Conns : txId[c] # 0 => txState[txId[c]] # "none"
  /\ \A i \in transactions : txState[i] # "none"
  /\ \A i \in Ids : timer[i] # "off" => txState[i] # "none"

\* The id of a database is not that of a transaction.
RealDbs ==
  /\ \A i \in databases \cup closed : txState[i] = "none"
  /\ \A r \in Requests : rpc[r] \in {"insertDb", "closeDb"} =>
       rid[r] # 0 /\ txState[rid[r]] = "none"

\* No two handlers have the same transaction.
OwnTx == \A c, d \in Conns : c # d /\ txId[c] = txId[d] => txId[c] = 0

\* A handler has a transaction in the commands that use one, and none while
\* it begins one.
HandlerHasTx ==
  \A c \in Conns :
    /\ pc[c] \in {"take", "finish", "committing", "register", "lookupTx",
                  "getConn", "query", "prepare", "rows", "collect"} => txId[c] # 0
    /\ pc[c] \in {"lookupDb", "beginTx"} => txId[c] = 0

\* What a handler that registers, finishes or commits knows of its transaction.
HandlerOwns ==
  \A c \in Conns :
    /\ pc[c] = "register" => /\ txState[txId[c]] = "open"
                             /\ timer[txId[c]] = "off"
                             /\ txId[c] \notin transactions
    /\ pc[c] \in {"finish", "committing"} =>
         /\ txState[txId[c]] = IF pc[c] = "finish" THEN "open" ELSE "committing"
         /\ timer[txId[c]] \in {"armed", "over"}
         /\ txId[c] \notin transactions

\* A timer that fired on a registered transaction has it for itself.
TimerOwns ==
  \A i \in Ids :
    /\ i \in transactions => timer[i] = "armed"
    /\ timer[i] = "rollback" => txState[i] = "open"
    /\ timer[i] = "waiting" => txState[i] = "rollingback"

\* The mutex: the map holds open transactions only, unless a request is
\* rolling them back with the mutex held.
LockProtects ==
  /\ \A r \in Requests : rpc[r] \in {"closeAll", "waiting"} <=> lock = r
  /\ lock = NoOne => \A i \in transactions : txState[i] = "open"
  /\ \A r \in Requests : rpc[r] = "waiting" =>
       rid[r] \in transactions /\ txState[rid[r]] = "rollingback"
  /\ \A i \in transactions :
       /\ txState[i] \notin {"committing", "committed"}
       /\ txState[i] = "rollingback" =>
            \E r \in Requests : rpc[r] = "waiting" /\ rid[r] = i

\* The parts in groups: what ids name, and who has which transaction.
Names == FreshIds /\ RealTxs /\ RealDbs
Ownership == OwnTx /\ HandlerHasTx /\ HandlerOwns

Inv ==
  /\ HandlerTypes /\ TxTypes /\ RequestTypes
  /\ Names /\ Ownership /\ TimerOwns /\ LockProtects
  /\ NoTxLeaked /\ AckedIffCommitted /\ EndedLeavesNothing

-----------------------------------------------------------------------------
LEMMA InitInv == Init => Inv
<1> SUFFICES ASSUME Init PROVE Inv
  OBVIOUS
<1> USE ServerAssumption DEF Init, Ids, Inv
<1>1. HandlerTypes
  BY DEF HandlerTypes, HandlerStates, Internal
<1>2. TxTypes /\ RequestTypes
  BY DEF TxTypes, RequestTypes, TxStates, TimerStates, RequestStates
<1>3. Names
  BY DEF Names, FreshIds, RealTxs, RealDbs
<1>4. Ownership /\ TimerOwns /\ LockProtects
  BY DEF Ownership, OwnTx, HandlerHasTx, HandlerOwns, TimerOwns, LockProtects
<1>5. NoTxLeaked /\ AckedIffCommitted /\ EndedLeavesNothing
  BY DEF NoTxLeaked, AckedIffCommitted, EndedLeavesNothing
<1> QED
  BY <1>1, <1>2, <1>3, <1>4, <1>5

LEMMA StutterStep == ASSUME Inv, UNCHANGED serverVars PROVE Inv'
BY DEF Inv, serverVars, HandlerTypes, TxTypes, RequestTypes, Names, FreshIds,
       RealTxs, RealDbs, Ownership, OwnTx, HandlerHasTx, HandlerOwns, TimerOwns,
       LockProtects, NoTxLeaked, TimerFinishes, HandlerFinishes,
       AckedIffCommitted, EndedLeavesNothing, Finished

-----------------------------------------------------------------------------
(* The handlers                                                            *)

LEMMA ConnectStep ==
  ASSUME Inv, NEW c \in Conns, Connect(c) PROVE Inv'
<1> USE ServerAssumption DEF Inv, Connect, Goto, Answer, Forget, requestVars
<1>1. KnownDbs \subseteq Ids
  BY DEF HandlerTypes, TxTypes, RequestTypes, KnownDbs, Ids
<1>2. HandlerTypes'
  BY <1>1, SMTT(30) DEF HandlerTypes, HandlerStates
<1>3. TxTypes'
  BY <1>1, SMTT(30) DEF TxTypes
<1>4. RequestTypes'
  BY <1>1, SMTT(30) DEF RequestTypes
<1>5. Names' /\ Ownership'
  BY <1>1, SMTT(30) DEF Names, FreshIds, RealTxs, RealDbs, Ownership, OwnTx,
     HandlerHasTx, HandlerOwns
<1>6. TimerOwns' /\ LockProtects'
  BY <1>1, SMTT(30) DEF TimerOwns, LockProtects
<1>7. NoTxLeaked'
  BY <1>1, SMTT(30) DEF NoTxLeaked, TimerFinishes, HandlerFinishes
<1>8. AckedIffCommitted'
  BY <1>1, SMTT(30) DEF AckedIffCommitted
<1>9. EndedLeavesNothing'
  BY <1>1, SMTT(30) DEF EndedLeavesNothing, TimerFinishes
<1> QED
  BY <1>2, <1>3, <1>4, <1>5, <1>6, <1>7, <1>8, <1>9

LEMMA ReceiveStep ==
  ASSUME Inv, NEW c \in Conns, NEW m \in Commands, Receive(c, m) PROVE Inv'
<1> USE ServerAssumption DEF Inv, Receive, Goto, Answer, Forget, requestVars
<1>1. HandlerTypes'
  BY SMTT(30) DEF HandlerTypes, HandlerStates
<1>2. TxTypes'
  BY SMTT(30) DEF TxTypes
<1>3. RequestTypes'
  BY SMTT(30) DEF RequestTypes
<1>4. Names' /\ Ownership'
  BY SMTT(30) DEF HandlerTypes, Names, FreshIds, RealTxs, RealDbs, Ownership,
     OwnTx, HandlerHasTx, HandlerOwns
<1>5. TimerOwns' /\ LockProtects'
  BY SMTT(30) DEF TimerOwns, LockProtects
<1>6. NoTxLeaked' /\ AckedIffCommitted' /\ EndedLeavesNothing'
  BY SMTT(30) DEF HandlerTypes, NoTxLeaked, TimerFinishes, HandlerFinishes,
     AckedIffCommitted, EndedLeavesNothing
<1> QED
  BY <1>1, <1>2, <1>3, <1>4, <1>5, <1>6

LEMMA DisconnectStep ==
  ASSUME Inv, NEW c \in Conns, Disconnect(c) PROVE Inv'
<1> USE ServerAssumption DEF Inv, Disconnect, Goto, Answer, Forget,
        requestVars
<1>1. HandlerTypes'
  BY SMTT(30) DEF HandlerTypes, HandlerStates, Internal
<1>2. TxTypes'
  BY SMTT(30) DEF TxTypes
<1>3. RequestTypes'
  BY SMTT(30) DEF RequestTypes
<1>4. Names' /\ Ownership'
  BY SMTT(30) DEF Names, FreshIds, RealTxs, RealDbs, Ownership, OwnTx,
     HandlerHasTx, HandlerOwns
<1>5. TimerOwns' /\ LockProtects'
  BY SMTT(30) DEF TimerOwns, LockProtects
<1>6. NoTxLeaked' /\ AckedIffCommitted' /\ EndedLeavesNothing'
  BY SMTT(30) DEF NoTxLeaked, TimerFinishes, HandlerFinishes,
     AckedIffCommitted, EndedLeavesNothing
<1> QED
  BY <1>1, <1>2, <1>3, <1>4, <1>5, <1>6

LEMMA ReadReplyStep ==
  ASSUME Inv, NEW c \in Conns, ReadReply(c) PROVE Inv'
<1> USE ServerAssumption DEF Inv, ReadReply, Goto, Answer, Forget,
        requestVars
<1>1. HandlerTypes'
  BY SMTT(30) DEF HandlerTypes
<1>2. TxTypes'
  BY SMTT(30) DEF TxTypes
<1>3. RequestTypes'
  BY SMTT(30) DEF RequestTypes
<1>4. Names' /\ Ownership'
  BY SMTT(30) DEF Names, FreshIds, RealTxs, RealDbs, Ownership, OwnTx,
     HandlerHasTx, HandlerOwns
<1>5. TimerOwns' /\ LockProtects'
  BY SMTT(30) DEF TimerOwns, LockProtects
<1>6. NoTxLeaked' /\ AckedIffCommitted' /\ EndedLeavesNothing'
  BY SMTT(30) DEF NoTxLeaked, TimerFinishes, HandlerFinishes,
     AckedIffCommitted, EndedLeavesNothing
<1> QED
  BY <1>1, <1>2, <1>3, <1>4, <1>5, <1>6

LEMMA LookupDbStep ==
  ASSUME Inv, NEW c \in Conns, LookupDb(c) PROVE Inv'
<1> USE ServerAssumption DEF Inv, LookupDb, Goto, Answer, Forget, requestVars
<1>1. HandlerTypes'
  BY SMTT(30) DEF HandlerTypes, HandlerStates
<1>2. TxTypes'
  BY SMTT(30) DEF TxTypes
<1>3. RequestTypes'
  BY SMTT(30) DEF RequestTypes
<1>4. Names' /\ Ownership'
  BY SMTT(30) DEF HandlerTypes, Names, FreshIds, RealTxs, RealDbs, Ownership,
     OwnTx, HandlerHasTx, HandlerOwns
<1>5. TimerOwns' /\ LockProtects'
  BY SMTT(30) DEF TimerOwns, LockProtects
<1>6. NoTxLeaked' /\ AckedIffCommitted' /\ EndedLeavesNothing'
  BY SMTT(30) DEF HandlerTypes, Ownership, HandlerHasTx, NoTxLeaked,
     TimerFinishes, HandlerFinishes, AckedIffCommitted, EndedLeavesNothing
<1> QED
  BY <1>1, <1>2, <1>3, <1>4, <1>5, <1>6

LEMMA BeginTxStep ==
  ASSUME Inv, NEW c \in Conns, BeginTx(c) PROVE Inv'
<1> USE ServerAssumption DEF Inv, HandlerTypes, TxTypes, RequestTypes
<1>1. CASE ~(nextId' = nextId + 1)
  <2>1. /\ UNCHANGED <<nextId, lock, databases, closed, transactions, txState,
                      querying, timer, cmd, txId, connDb, rpc, rid, acked>>
        /\ pc' = [pc EXCEPT ![c] = "orphan"]
        /\ reply' = [reply EXCEPT ![c] = "error"]
        /\ pc[c] = "beginTx"
    BY <1>1 DEF BeginTx, Goto, requestVars
  <2>2. HandlerTypes' /\ TxTypes' /\ RequestTypes'
    BY <2>1, SMTT(30) DEF HandlerStates
  <2>3. Names' /\ Ownership'
    BY <2>1, SMTT(30) DEF Names, FreshIds, RealTxs, RealDbs, Ownership, OwnTx,
       HandlerHasTx, HandlerOwns
  <2>4. TimerOwns' /\ LockProtects'
    BY <2>1, SMTT(30) DEF TimerOwns, LockProtects
  <2>5. NoTxLeaked' /\ AckedIffCommitted' /\ EndedLeavesNothing'
    BY <2>1, SMTT(30) DEF NoTxLeaked, TimerFinishes, HandlerFinishes,
       AckedIffCommitted, EndedLeavesNothing, Ownership, HandlerHasTx
  <2> QED
    BY <2>2, <2>3, <2>4, <2>5
<1>2. CASE nextId' = nextId + 1
  <2> DEFINE new == nextId + 1
  <2>1. /\ UNCHANGED <<lock, databases, closed, transactions, querying, timer,
                      cmd, connDb, reply, rpc, rid, acked>>
        /\ txState' = [txState EXCEPT ![new] = "open"]
        /\ txId' = [txId EXCEPT ![c] = new]
        /\ pc' = [pc EXCEPT ![c] = "register"]
        /\ nextId' = new /\ nextId < MaxId
    BY <1>2 DEF BeginTx, Goto, requestVars
  <2>2. /\ new \in Ids /\ new # 0
        /\ \A j \in Ids \cup {0} : j <= nextId => j < new /\ j # new
    BY <2>1 DEF Ids
  <2>3. txState[new] = "none" /\ new \notin databases \cup closed
    BY <2>1, <2>2 DEF Names, FreshIds, Ids
  <2>4. timer[new] = "off" /\ new \notin transactions
    BY <2>2, <2>3 DEF Names, RealTxs
  <2>5. /\ \A d \in Conns : txId[d] # new /\ txId[d] < new
        /\ \A r \in Requests : rid[r] # new /\ rid[r] < new
    BY <2>2 DEF Names, FreshIds
  <2>6. txState'[new] = "open" /\ txId'[c] = new /\ pc'[c] = "register"
    BY <2>1, <2>2
  <2>7. /\ \A i \in Ids : i # new => txState'[i] = txState[i]
        /\ \A d \in Conns : d # c => txId'[d] = txId[d] /\ pc'[d] = pc[d]
    BY <2>1, <2>2
  <2>8. HandlerTypes' /\ TxTypes' /\ RequestTypes'
    BY <2>1, <2>2, SMTT(30) DEF HandlerStates, TxStates
  <2>9. FreshIds'
    <3>1. \A i \in Ids : i > new => i # new /\ i > nextId
      BY <2>2 DEF Ids
    <3>2. \A j \in Ids \cup {0} : j < new => j <= new
      BY <2>2 DEF Ids
    <3>3. \A i \in Ids : i > new =>
            txState'[i] = "none" /\ i \notin databases' \cup closed'
      BY <2>1, <2>7, <3>1 DEF Names, FreshIds
    <3>4. \A d \in Conns : txId'[d] <= new
      BY <2>2, <2>5, <2>6, <2>7, <3>2
    <3> QED
      BY <2>1, <2>5, <3>2, <3>3, <3>4 DEF FreshIds
  <2> HIDE DEF new
  <2>10. RealTxs' /\ RealDbs'
    BY <2>1, <2>2, <2>3, <2>4, <2>5, <2>6, <2>7, SMTT(30)
       DEF Names, RealTxs, RealDbs
  <2>11. OwnTx' /\ HandlerHasTx'
    BY <2>2, <2>5, <2>6, <2>7, SMTT(30) DEF Ownership, OwnTx, HandlerHasTx
  <2>12. HandlerOwns'
    <3>1. ASSUME NEW d \in Conns, d # c, pc[d] \in {"register", "finish", "committing"}
          PROVE  txId[d] \in Ids /\ txState'[txId[d]] = txState[txId[d]]
      BY <2>5, <2>7, <3>1 DEF Ownership, HandlerHasTx
    <3> QED
      BY <2>1, <2>4, <2>6, <2>7, <3>1 DEF Ownership, HandlerOwns
  <2>13. TimerOwns' /\ LockProtects'
    BY <2>1, <2>3, <2>4, <2>7, SMTT(30) DEF TimerOwns, LockProtects
  <2>14. NoTxLeaked'
    <3>1. ASSUME NEW i \in Ids, i # new,
                 txState'[i] \in {"open", "committing", "rollingback"}
          PROVE  \/ i \in transactions' \/ timer'[i] \in {"rollback", "waiting"}
                 \/ \E d \in Conns :
                      pc'[d] \in {"register", "finish", "committing"} /\ txId'[d] = i
      <4>1. \/ i \in transactions \/ timer[i] \in {"rollback", "waiting"}
            \/ \E d \in Conns :
                 pc[d] \in {"register", "finish", "committing"} /\ txId[d] = i
        BY <2>7, <3>1 DEF NoTxLeaked, TimerFinishes, HandlerFinishes
      <4>2. pc[c] = "beginTx"
        BY DEF BeginTx
      <4> QED
        BY <2>1, <2>7, <4>1, <4>2
    <3>2. \E d \in Conns : pc'[d] = "register" /\ txId'[d] = new
      BY <2>6
    <3> QED
      BY <3>1, <3>2 DEF NoTxLeaked, TimerFinishes, HandlerFinishes
  <2>15. AckedIffCommitted' /\ EndedLeavesNothing'
    BY <2>1, <2>2, <2>3, <2>5, <2>6, <2>7, SMTT(30)
       DEF AckedIffCommitted, EndedLeavesNothing, TimerFinishes, Finished
  <2> QED
    BY <2>8, <2>9, <2>10, <2>11, <2>12, <2>13, <2>14, <2>15 DEF Names, Ownership
<1> QED
  BY <1>1, <1>2

LEMMA RegisterStep ==
  ASSUME Inv, NEW c \in Conns, Register(c) PROVE Inv'
<1> USE ServerAssumption DEF Inv, Register, Goto, Answer, Forget, requestVars
<1>1. txId[c] \in Ids
  BY DEF HandlerTypes, TxTypes, RequestTypes, Ownership, HandlerHasTx
<1>2. HandlerTypes'
  BY SMTT(30) DEF HandlerTypes, HandlerStates
<1>3. TxTypes'
  BY <1>1, SMTT(30) DEF TxTypes, TimerStates
<1>4. RequestTypes'
  BY SMTT(30) DEF RequestTypes
<1>5. Names' /\ Ownership'
  BY SMTT(30) DEF HandlerTypes, Names, FreshIds, RealTxs, RealDbs, Ownership,
     OwnTx, HandlerHasTx, HandlerOwns
<1>6. TimerOwns' /\ LockProtects'
  BY SMTT(30) DEF TxTypes, Ownership, HandlerOwns, TimerOwns, LockProtects
<1>7. NoTxLeaked' /\ AckedIffCommitted' /\ EndedLeavesNothing'
  BY SMTT(30) DEF Ownership, HandlerOwns, NoTxLeaked, TimerFinishes,
     HandlerFinishes, AckedIffCommitted, EndedLeavesNothing
<1> QED
  BY <1>2, <1>3, <1>4, <1>5, <1>6, <1>7

LEMMA LookupTxStep ==
  ASSUME Inv, NEW c \in Conns, LookupTx(c) PROVE Inv'
<1> USE ServerAssumption DEF Inv, LookupTx, Goto, Answer, Forget, requestVars
<1>1. HandlerTypes'
  BY SMTT(30) DEF HandlerTypes, HandlerStates
<1>2. TxTypes'
  BY SMTT(30) DEF TxTypes
<1>3. RequestTypes'
  BY SMTT(30) DEF RequestTypes
<1>4. Names' /\ Ownership'
  BY SMTT(30) DEF HandlerTypes, Names, FreshIds, RealTxs, RealDbs, Ownership,
     OwnTx, HandlerHasTx, HandlerOwns
<1>5. TimerOwns' /\ LockProtects'
  BY SMTT(30) DEF TimerOwns, LockProtects
<1>6. NoTxLeaked' /\ AckedIffCommitted' /\ EndedLeavesNothing'
  BY SMTT(30) DEF HandlerTypes, NoTxLeaked, TimerFinishes, HandlerFinishes,
     AckedIffCommitted, EndedLeavesNothing
<1> QED
  BY <1>1, <1>2, <1>3, <1>4, <1>5, <1>6

LEMMA GetConnStep ==
  ASSUME Inv, NEW c \in Conns, GetConn(c) PROVE Inv'
<1> USE ServerAssumption DEF Inv, GetConn, Goto, Answer, Forget, requestVars
<1>1. HandlerTypes'
  BY SMTT(30) DEF HandlerTypes, HandlerStates
<1>2. TxTypes'
  BY SMTT(30) DEF TxTypes
<1>3. RequestTypes'
  BY SMTT(30) DEF RequestTypes
<1>4. Names' /\ Ownership'
  BY SMTT(30) DEF Names, FreshIds, RealTxs, RealDbs, Ownership, OwnTx,
     HandlerHasTx, HandlerOwns
<1>5. TimerOwns' /\ LockProtects'
  BY SMTT(30) DEF TimerOwns, LockProtects
<1>6. NoTxLeaked' /\ AckedIffCommitted' /\ EndedLeavesNothing'
  BY SMTT(30) DEF NoTxLeaked, TimerFinishes, HandlerFinishes,
     AckedIffCommitted, EndedLeavesNothing, Finished
<1> QED
  BY <1>1, <1>2, <1>3, <1>4, <1>5, <1>6

LEMMA StartQueryStep ==
  ASSUME Inv, NEW c \in Conns, StartQuery(c) PROVE Inv'
<1> USE ServerAssumption DEF Inv, StartQuery, Goto, Answer, Forget,
        requestVars
<1>1. txId[c] \in Ids
  BY DEF HandlerTypes, TxTypes, RequestTypes, Ownership, HandlerHasTx
<1>2. HandlerTypes'
  BY SMTT(30) DEF HandlerTypes, HandlerStates
<1>3. TxTypes'
  BY <1>1, SMTT(30) DEF TxTypes
<1>4. RequestTypes'
  BY SMTT(30) DEF RequestTypes
<1>5. Names' /\ Ownership'
  BY SMTT(30) DEF HandlerTypes, Names, FreshIds, RealTxs, RealDbs, Ownership,
     OwnTx, HandlerHasTx, HandlerOwns
<1>6. TimerOwns' /\ LockProtects'
  BY SMTT(30) DEF TimerOwns, LockProtects
<1>7. NoTxLeaked' /\ AckedIffCommitted' /\ EndedLeavesNothing'
  BY SMTT(30) DEF HandlerTypes, NoTxLeaked, TimerFinishes, HandlerFinishes,
     AckedIffCommitted, EndedLeavesNothing
<1> QED
  BY <1>2, <1>3, <1>4, <1>5, <1>6, <1>7

LEMMA PrepareStep ==
  ASSUME Inv, NEW c \in Conns, Prepare(c) PROVE Inv'
<1> USE ServerAssumption DEF Inv, Prepare, Goto, Answer, Forget, requestVars
<1>1. HandlerTypes'
  BY SMTT(30) DEF HandlerTypes, HandlerStates
<1>2. TxTypes'
  BY SMTT(30) DEF TxTypes
<1>3. RequestTypes'
  BY SMTT(30) DEF RequestTypes
<1>4. Names' /\ Ownership'
  BY SMTT(30) DEF Names, FreshIds, RealTxs, RealDbs, Ownership, OwnTx,
     HandlerHasTx, HandlerOwns
<1>5. TimerOwns' /\ LockProtects'
  BY SMTT(30) DEF TimerOwns, LockProtects
<1>6. NoTxLeaked' /\ AckedIffCommitted' /\ EndedLeavesNothing'
  BY SMTT(30) DEF NoTxLeaked, TimerFinishes, HandlerFinishes,
     AckedIffCommitted, EndedLeavesNothing
<1> QED
  BY <1>1, <1>2, <1>3, <1>4, <1>5, <1>6

LEMMA EndQueryStep ==
  ASSUME Inv, NEW c \in Conns, EndQuery(c) PROVE Inv'
<1> USE ServerAssumption DEF Inv, EndQuery, Goto, Answer, Forget, requestVars
<1>1. txId[c] \in Ids
  BY DEF HandlerTypes, TxTypes, RequestTypes, Ownership, HandlerHasTx
<1>2. HandlerTypes'
  BY SMTT(30) DEF HandlerTypes, HandlerStates, Internal
<1>3. TxTypes'
  BY <1>1, SMTT(30) DEF TxTypes
<1>4. RequestTypes'
  BY SMTT(30) DEF RequestTypes
<1>5. Names' /\ Ownership'
  BY SMTT(30) DEF HandlerTypes, Names, FreshIds, RealTxs, RealDbs, Ownership,
     OwnTx, HandlerHasTx, HandlerOwns
<1>6. TimerOwns' /\ LockProtects'
  BY SMTT(30) DEF TimerOwns, LockProtects
<1>7. NoTxLeaked' /\ AckedIffCommitted' /\ EndedLeavesNothing'
  BY SMTT(30) DEF HandlerTypes, NoTxLeaked, TimerFinishes, HandlerFinishes,
     AckedIffCommitted, EndedLeavesNothing
<1> QED
  BY <1>2, <1>3, <1>4, <1>5, <1>6, <1>7

LEMMA CollectStep ==
  ASSUME Inv, NEW c \in Conns, Collect(c) PROVE Inv'
<1> USE ServerAssumption DEF Inv, Collect, Goto, Answer, Forget, requestVars
<1>1. HandlerTypes'
  BY SMTT(30) DEF HandlerTypes, HandlerStates
<1>2. TxTypes'
  BY SMTT(30) DEF TxTypes
<1>3. RequestTypes'
  BY SMTT(30) DEF RequestTypes
<1>4. Names' /\ Ownership'
  BY SMTT(30) DEF Names, FreshIds, RealTxs, RealDbs, Ownership, OwnTx,
     HandlerHasTx, HandlerOwns
<1>5. TimerOwns' /\ LockProtects'
  BY SMTT(30) DEF TimerOwns, LockProtects
<1>6. NoTxLeaked' /\ AckedIffCommitted' /\ EndedLeavesNothing'
  BY SMTT(30) DEF NoTxLeaked, TimerFinishes, HandlerFinishes,
     AckedIffCommitted, EndedLeavesNothing
<1> QED
  BY <1>1, <1>2, <1>3, <1>4, <1>5, <1>6

LEMMA TakeTxStep ==
  ASSUME Inv, NEW c \in Conns, TakeTx(c) PROVE Inv'
<1> USE ServerAssumption DEF Inv, HandlerTypes, TxTypes, RequestTypes
<1>1. /\ UNCHANGED <<nextId, lock, databases, closed, txState, querying, timer,
                    cmd, connDb, rpc, rid, acked>>
      /\ transactions' = transactions \ {txId[c]}
      /\ pc[c] = "take" /\ lock = NoOne
  BY DEF TakeTx, requestVars
<1>2. txId[c] \in Ids /\ txId[c] # 0
  BY <1>1 DEF Ownership, HandlerHasTx
<1>3. CASE txId[c] \in transactions
  <2>1. /\ pc' = [pc EXCEPT ![c] = "finish"]
        /\ UNCHANGED <<txId, reply>>
    BY <1>3 DEF TakeTx, Goto
  <2>2. txState[txId[c]] = "open" /\ timer[txId[c]] = "armed"
    BY <1>1, <1>3 DEF TimerOwns, LockProtects
  <2>3. HandlerTypes' /\ TxTypes' /\ RequestTypes'
    BY <1>1, <2>1, SMTT(30) DEF HandlerStates
  <2>4. Names'
    BY <1>1, <2>1, SMTT(30) DEF Names, FreshIds, RealTxs, RealDbs
  <2>5. Ownership'
    BY <1>1, <1>2, <2>1, <2>2, SMTT(30)
       DEF Ownership, OwnTx, HandlerHasTx, HandlerOwns
  <2>6. TimerOwns' /\ LockProtects'
    BY <1>1, <2>1, <2>2, SMTT(30) DEF TimerOwns, LockProtects
  <2>7. NoTxLeaked' /\ AckedIffCommitted' /\ EndedLeavesNothing'
    BY <1>1, <1>2, <2>1, SMTT(30) DEF NoTxLeaked, TimerFinishes,
       HandlerFinishes, AckedIffCommitted, EndedLeavesNothing, Finished
  <2> QED
    BY <2>3, <2>4, <2>5, <2>6, <2>7
<1>4. CASE txId[c] \notin transactions
  <2>1. PICK l \in {"reading", "lookupDb", "ended"} :
          /\ pc' = [pc EXCEPT ![c] = l]
          /\ IF l = "ended" THEN txId' = txId ELSE txId' = [txId EXCEPT ![c] = 0]
    BY <1>4, SMTT(30) DEF TakeTx, Goto, Answer, Forget
  <2>2. reply' = reply \/ reply' = [reply EXCEPT ![c] = "error"]
    BY <1>4, SMTT(30) DEF TakeTx, Goto, Answer
  <2>3. transactions' = transactions
    BY <1>1, <1>4
  <2>4. /\ \A d \in Conns : d # c => txId'[d] = txId[d] /\ pc'[d] = pc[d]
        /\ txId'[c] = IF l = "ended" THEN txId[c] ELSE 0
        /\ pc'[c] = l
    BY <2>1
  <2>5. HandlerTypes'
    <3>1. l \in HandlerStates
      BY DEF HandlerStates
    <3> QED
      BY <1>1, <2>1, <2>2, <3>1, SMTT(30)
  <2>6. TxTypes' /\ RequestTypes'
    BY <1>1, <2>3
  <2>7. Names'
    BY <1>1, <1>2, <2>3, <2>4, SMTT(30) DEF Names, FreshIds, RealTxs, RealDbs
  <2>8. Ownership'
    BY <1>1, <1>2, <2>3, <2>4, SMTT(30)
       DEF Ownership, OwnTx, HandlerHasTx, HandlerOwns
  <2>9. TimerOwns' /\ LockProtects'
    BY <1>1, <2>3 DEF TimerOwns, LockProtects
  <2>10. NoTxLeaked' /\ AckedIffCommitted'
    BY <1>1, <2>3, <2>4, SMTT(30)
       DEF NoTxLeaked, TimerFinishes, HandlerFinishes, AckedIffCommitted
  <2>11. txState[txId[c]] \in Finished \cup {"rollingback"} \/ TimerFinishes(txId[c])
    <3>1. txState[txId[c]] # "none"
      BY <1>2 DEF Names, RealTxs
    <3>2. ASSUME NEW d \in Conns, txId[d] = txId[c]
          PROVE  pc[d] = "take"
      BY <1>1, <1>2, <3>2 DEF Ownership, OwnTx
    <3> QED
      BY <1>2, <1>4, <3>1, <3>2
         DEF NoTxLeaked, Finished, TxStates, HandlerFinishes
  <2>12. EndedLeavesNothing'
    BY <1>1, <2>4, <2>11, SMTT(30)
       DEF EndedLeavesNothing, TimerFinishes, Finished
  <2> QED
    BY <2>5, <2>6, <2>7, <2>8, <2>9, <2>10, <2>12
<1> QED
  BY <1>3, <1>4

LEMMA StartCommitStep ==
  ASSUME Inv, NEW c \in Conns, StartCommit(c) PROVE Inv'
<1> USE ServerAssumption DEF Inv, StartCommit, Goto, Answer, Forget,
        requestVars
<1>1. txId[c] \in Ids /\ txId[c] \notin transactions
  BY DEF HandlerTypes, TxTypes, RequestTypes, Ownership, HandlerHasTx,
     HandlerOwns
<1>2. HandlerTypes'
  BY SMTT(30) DEF HandlerTypes, HandlerStates
<1>3. TxTypes'
  BY <1>1, SMTT(30) DEF TxTypes, TxStates
<1>4. RequestTypes'
  BY SMTT(30) DEF RequestTypes
<1>5. Names' /\ Ownership'
  BY <1>1, SMTT(30) DEF HandlerTypes, TxTypes, RequestTypes, Names, FreshIds,
     RealTxs, RealDbs, Ownership, OwnTx, HandlerHasTx, HandlerOwns
<1>6. TimerOwns'
  BY <1>1, SMTT(30) DEF TxTypes, Ownership, HandlerOwns, TimerOwns
<1>7. LockProtects'
  BY <1>1, SMTT(30) DEF TxTypes, LockProtects
<1>8. NoTxLeaked' /\ AckedIffCommitted' /\ EndedLeavesNothing'
  BY <1>1, SMTT(30) DEF HandlerTypes, TxTypes, Ownership, HandlerOwns,
     NoTxLeaked, TimerFinishes, HandlerFinishes, AckedIffCommitted,
     EndedLeavesNothing, Finished
<1> QED
  BY <1>2, <1>3, <1>4, <1>5, <1>6, <1>7, <1>8

LEMMA EndCommitStep ==
  ASSUME Inv, NEW c \in Conns, EndCommit(c) PROVE Inv'
<1> USE ServerAssumption DEF Inv, EndCommit, Goto, Answer, Forget,
        requestVars
<1>1. txId[c] \in Ids /\ txId[c] \notin transactions
  BY DEF HandlerTypes, TxTypes, RequestTypes, Ownership, HandlerHasTx,
     HandlerOwns
<1>2. HandlerTypes'
  BY SMTT(30) DEF HandlerTypes, HandlerStates
<1>3. TxTypes'
  BY <1>1, SMTT(30) DEF TxTypes, TxStates
<1>4. RequestTypes'
  BY SMTT(30) DEF RequestTypes
<1>5. Names' /\ Ownership'
  BY SMTT(30) DEF HandlerTypes, RequestTypes, Names, FreshIds, RealTxs,
     RealDbs, Ownership, OwnTx, HandlerHasTx, HandlerOwns
<1>6. TimerOwns' /\ LockProtects'
  BY SMTT(30) DEF Ownership, HandlerOwns, TimerOwns, LockProtects
<1>7. NoTxLeaked'
  BY SMTT(30) DEF TxTypes, NoTxLeaked, TimerFinishes, HandlerFinishes
<1>8. AckedIffCommitted'
  BY SMTT(30) DEF TxTypes, Ownership, HandlerOwns, AckedIffCommitted
<1>9. EndedLeavesNothing'
  BY SMTT(30) DEF EndedLeavesNothing, Finished, TimerFinishes
<1> QED
  BY <1>2, <1>3, <1>4, <1>5, <1>6, <1>7, <1>8, <1>9

LEMMA FinishAbortStep ==
  ASSUME Inv, NEW c \in Conns, FinishAbort(c) PROVE Inv'
<1> USE ServerAssumption DEF Inv, FinishAbort, Goto, Answer, Forget,
        requestVars
<1>1. txId[c] \in Ids /\ timer[txId[c]] \in {"armed", "over"}
  BY DEF HandlerTypes, TxTypes, RequestTypes, Ownership, HandlerHasTx,
     HandlerOwns
<1>2. HandlerTypes'
  BY SMTT(30) DEF HandlerTypes, HandlerStates
<1>3. TxTypes'
  BY <1>1, SMTT(30) DEF TxTypes, TxStates
<1>4. RequestTypes'
  BY SMTT(30) DEF RequestTypes
<1>5. RealTxs'
  BY SMTT(30) DEF HandlerTypes, Names, RealTxs
<1>6. RealDbs'
  BY SMTT(30) DEF Names, RealDbs
<1>7. FreshIds'
  BY SMTT(30) DEF HandlerTypes, RequestTypes, Names, FreshIds
<1>8. Ownership'
  BY SMTT(30) DEF HandlerTypes, Ownership, OwnTx, HandlerHasTx, HandlerOwns
<1>9. TimerOwns'
  BY <1>1, SMTT(30) DEF TimerOwns
<1>10. LockProtects'
  BY <1>1, SMTT(30) DEF Ownership, HandlerOwns, LockProtects
<1>11. NoTxLeaked' /\ AckedIffCommitted' /\ EndedLeavesNothing'
  BY SMTT(30) DEF HandlerTypes, TxTypes, Ownership, HandlerOwns, NoTxLeaked,
     TimerFinishes, HandlerFinishes, AckedIffCommitted, EndedLeavesNothing,
     Finished
<1> QED
  BY <1>2, <1>3, <1>4, <1>5, <1>6, <1>7, <1>8, <1>9, <1>10, <1>11 DEF Names

-----------------------------------------------------------------------------
(* The timers                                                              *)

LEMMA FireStep ==
  ASSUME Inv, NEW i \in Ids, Fire(i) PROVE Inv'
<1> USE ServerAssumption DEF Inv, Fire, handlerVars, requestVars
<1>1. HandlerTypes'
  BY SMTT(30) DEF HandlerTypes
<1>2. TxTypes'
  BY SMTT(30) DEF TxTypes, TimerStates
<1>3. RequestTypes'
  BY SMTT(30) DEF RequestTypes
<1>4. Names' /\ Ownership'
  BY SMTT(30) DEF Names, FreshIds, RealTxs, RealDbs, Ownership, OwnTx,
     HandlerHasTx, HandlerOwns
<1>5. TimerOwns' /\ LockProtects'
  BY SMTT(30) DEF TimerOwns, LockProtects
<1>6. NoTxLeaked' /\ AckedIffCommitted' /\ EndedLeavesNothing'
  BY SMTT(30) DEF TxTypes, NoTxLeaked, TimerFinishes, HandlerFinishes,
     AckedIffCommitted, EndedLeavesNothing
<1> QED
  BY <1>1, <1>2, <1>3, <1>4, <1>5, <1>6

LEMMA TimerRollbackStep ==
  ASSUME Inv, NEW i \in Ids, TimerRollback(i) PROVE Inv'
<1> USE ServerAssumption DEF Inv, TimerRollback, handlerVars, requestVars
<1>1. i \notin transactions /\ timer[i] = "rollback"
  BY DEF HandlerTypes, TxTypes, RequestTypes, TimerOwns
<1>2. HandlerTypes'
  BY SMTT(30) DEF HandlerTypes
<1>3. TxTypes'
  BY SMTT(30) DEF TxTypes, TxStates, TimerStates
<1>4. RequestTypes'
  BY SMTT(30) DEF RequestTypes
<1>5. Names' /\ Ownership'
  BY SMTT(30) DEF HandlerTypes, TxTypes, RequestTypes, Names, FreshIds,
     RealTxs, RealDbs, Ownership, OwnTx, HandlerHasTx, HandlerOwns
<1>6. TimerOwns'
  BY <1>1, SMTT(30) DEF TxTypes, TimerOwns
<1>7. LockProtects'
  BY <1>1, SMTT(30) DEF TxTypes, LockProtects
<1>8. NoTxLeaked'
  BY SMTT(30) DEF TxTypes, TimerOwns, NoTxLeaked, TimerFinishes,
     HandlerFinishes
<1>9. AckedIffCommitted'
  BY SMTT(30) DEF TxTypes, AckedIffCommitted
<1>10. EndedLeavesNothing'
  BY SMTT(30) DEF HandlerTypes, TxTypes, TimerOwns, EndedLeavesNothing,
     TimerFinishes
<1> QED
  BY <1>2, <1>3, <1>4, <1>5, <1>6, <1>7, <1>8, <1>9, <1>10

LEMMA TimerRolledBackStep ==
  ASSUME Inv, NEW i \in Ids, TimerRolledBack(i) PROVE Inv'
<1> USE ServerAssumption DEF Inv, TimerRolledBack, handlerVars, requestVars
<1>1. HandlerTypes'
  BY SMTT(30) DEF HandlerTypes
<1>2. TxTypes'
  BY SMTT(30) DEF TxTypes, TxStates, TimerStates
<1>3. RequestTypes'
  BY SMTT(30) DEF RequestTypes
<1>4. Names' /\ Ownership'
  BY SMTT(30) DEF Names, FreshIds, RealTxs, RealDbs, Ownership, OwnTx,
     HandlerHasTx, HandlerOwns
<1>5. TimerOwns' /\ LockProtects'
  BY SMTT(30) DEF TxTypes, TimerOwns, LockProtects
<1>6. NoTxLeaked' /\ AckedIffCommitted' /\ EndedLeavesNothing'
  BY SMTT(30) DEF TxTypes, TimerOwns, NoTxLeaked, TimerFinishes,
     HandlerFinishes, AckedIffCommitted, EndedLeavesNothing, Finished
<1> QED
  BY <1>1, <1>2, <1>3, <1>4, <1>5, <1>6

-----------------------------------------------------------------------------
(* The requests                                                            *)

LEMMA OpenStep ==
  ASSUME Inv, NEW r \in Requests, Open(r) PROVE Inv'
<1> USE ServerAssumption DEF Inv, HandlerTypes, TxTypes, RequestTypes
<1> DEFINE new == nextId + 1
<1>1. /\ UNCHANGED <<lock, databases, closed, transactions, txState, querying,
                    timer, pc, cmd, txId, connDb, reply, acked>>
      /\ rid' = [rid EXCEPT ![r] = new]
      /\ rpc' = [rpc EXCEPT ![r] = "insertDb"]
      /\ nextId' = new /\ nextId < MaxId /\ rpc[r] = "idle"
  BY DEF Open, handlerVars
<1>2. /\ new \in Ids /\ new # 0 /\ new <= new /\ new \in 0..MaxId
      /\ \A j \in Ids \cup {0} : j <= nextId => j <= new
      /\ \A j \in Ids : j > new => j > nextId
  BY <1>1 DEF Ids
<1>3. txState[new] = "none"
  BY <1>1, <1>2 DEF Names, FreshIds, Ids
<1> HIDE DEF new
<1>4. HandlerTypes' /\ TxTypes'
  BY <1>1
<1>5. RequestTypes'
  BY <1>1, <1>2, SMTT(30) DEF RequestStates
<1>6. FreshIds'
  BY <1>1, <1>2 DEF Names, FreshIds
<1>7. RealTxs' /\ RealDbs'
  BY <1>1, <1>2, <1>3, SMTT(30) DEF Names, RealTxs, RealDbs
<1>8. Ownership'
  BY <1>1 DEF Ownership, OwnTx, HandlerHasTx, HandlerOwns
<1>9. TimerOwns' /\ LockProtects'
  BY <1>1, SMTT(30) DEF TimerOwns, LockProtects
<1>10. NoTxLeaked' /\ AckedIffCommitted' /\ EndedLeavesNothing'
  BY <1>1 DEF NoTxLeaked, TimerFinishes, HandlerFinishes, AckedIffCommitted,
     EndedLeavesNothing, Finished
<1> QED
  BY <1>4, <1>5, <1>6, <1>7, <1>8, <1>9, <1>10 DEF Names

LEMMA InsertDbStep ==
  ASSUME Inv, NEW r \in Requests, InsertDb(r) PROVE Inv'
<1> USE ServerAssumption DEF Inv, InsertDb, handlerVars, requestVars
<1>1. rid[r] \in Ids
  BY DEF HandlerTypes, TxTypes, RequestTypes, Names, RealDbs
<1>2. HandlerTypes'
  BY SMTT(30) DEF HandlerTypes
<1>3. TxTypes'
  BY SMTT(30) DEF TxTypes
<1>4. RequestTypes'
  BY <1>1, SMTT(30) DEF RequestTypes, RequestStates
<1>5. Names' /\ Ownership'
  BY SMTT(30) DEF Ids, RequestTypes, Names, FreshIds, RealTxs, RealDbs,
     Ownership, OwnTx, HandlerHasTx, HandlerOwns
<1>6. TimerOwns' /\ LockProtects'
  BY SMTT(30) DEF TimerOwns, LockProtects
<1>7. NoTxLeaked' /\ AckedIffCommitted' /\ EndedLeavesNothing'
  BY SMTT(30) DEF NoTxLeaked, TimerFinishes, HandlerFinishes,
     AckedIffCommitted, EndedLeavesNothing
<1> QED
  BY <1>2, <1>3, <1>4, <1>5, <1>6, <1>7

LEMMA CloseStep ==
  ASSUME Inv, NEW r \in Requests, Close(r) PROVE Inv'
<1> USE ServerAssumption DEF Inv, Close, handlerVars, requestVars
<1>1. HandlerTypes'
  BY SMTT(30) DEF HandlerTypes
<1>2. TxTypes'
  BY SMTT(30) DEF TxTypes
<1>3. RequestTypes'
  BY SMTT(30) DEF RequestTypes, RequestStates
<1>4. Names' /\ Ownership'
  BY SMTT(30) DEF Ids, RequestTypes, Names, FreshIds, RealTxs, RealDbs,
     Ownership, OwnTx, HandlerHasTx, HandlerOwns
<1>5. TimerOwns' /\ LockProtects'
  BY SMTT(30) DEF TimerOwns, LockProtects
<1>6. NoTxLeaked' /\ AckedIffCommitted' /\ EndedLeavesNothing'
  BY SMTT(30) DEF NoTxLeaked, TimerFinishes, HandlerFinishes,
     AckedIffCommitted, EndedLeavesNothing
<1> QED
  BY <1>1, <1>2, <1>3, <1>4, <1>5, <1>6

LEMMA CloseDbStep ==
  ASSUME Inv, NEW r \in Requests, CloseDb(r) PROVE Inv'
<1> USE ServerAssumption DEF Inv, CloseDb, handlerVars, requestVars
<1>1. rid[r] \in Ids
  BY DEF HandlerTypes, TxTypes, RequestTypes, Names, RealDbs
<1>2. HandlerTypes'
  BY SMTT(30) DEF HandlerTypes
<1>3. TxTypes'
  BY SMTT(30) DEF TxTypes
<1>4. RequestTypes'
  BY <1>1, SMTT(30) DEF RequestTypes, RequestStates
<1>5. Names' /\ Ownership'
  BY SMTT(30) DEF Ids, RequestTypes, Names, FreshIds, RealTxs, RealDbs,
     Ownership, OwnTx, HandlerHasTx, HandlerOwns
<1>6. TimerOwns' /\ LockProtects'
  BY SMTT(30) DEF TimerOwns, LockProtects
<1>7. NoTxLeaked' /\ AckedIffCommitted' /\ EndedLeavesNothing'
  BY SMTT(30) DEF NoTxLeaked, TimerFinishes, HandlerFinishes,
     AckedIffCommitted, EndedLeavesNothing
<1> QED
  BY <1>2, <1>3, <1>4, <1>5, <1>6, <1>7

LEMMA CloseAllStep ==
  ASSUME Inv, NEW r \in Requests, CloseAll(r) PROVE Inv'
<1> USE ServerAssumption DEF Inv, CloseAll, handlerVars, requestVars
<1>1. HandlerTypes'
  BY SMTT(30) DEF HandlerTypes
<1>2. TxTypes'
  BY SMTT(30) DEF TxTypes
<1>3. RequestTypes'
  BY SMTT(30) DEF RequestTypes, RequestStates
<1>4. Names' /\ Ownership'
  BY SMTT(30) DEF Names, FreshIds, RealTxs, RealDbs, Ownership, OwnTx,
     HandlerHasTx, HandlerOwns
<1>5. TimerOwns' /\ LockProtects'
  BY SMTT(30) DEF RequestTypes, TimerOwns, LockProtects
<1>6. NoTxLeaked' /\ AckedIffCommitted' /\ EndedLeavesNothing'
  BY SMTT(30) DEF NoTxLeaked, TimerFinishes, HandlerFinishes,
     AckedIffCommitted, EndedLeavesNothing
<1> QED
  BY <1>1, <1>2, <1>3, <1>4, <1>5, <1>6

LEMMA RollbackNextStep ==
  ASSUME Inv, NEW r \in Requests, RollbackNext(r) PROVE Inv'
<1> USE ServerAssumption DEF Inv, RollbackNext, handlerVars, requestVars
<1>1. HandlerTypes'
  BY SMTT(30) DEF HandlerTypes
<1>2. TxTypes'
  BY SMTT(30) DEF TxTypes, TxStates
<1>3. RequestTypes'
  BY SMTT(30) DEF RequestTypes, RequestStates, TxTypes
<1>4. Names'
  BY SMTT(30) DEF Ids, TxTypes, RequestTypes, Names, FreshIds, RealTxs,
     RealDbs
<1>5. Ownership'
  BY SMTT(30) DEF TxTypes, RequestTypes, Names, Ownership, OwnTx,
     HandlerHasTx, HandlerOwns
<1>6. TimerOwns' /\ LockProtects'
  BY SMTT(30) DEF TxTypes, RequestTypes, TimerOwns, LockProtects
<1>7. NoTxLeaked' /\ AckedIffCommitted' /\ EndedLeavesNothing'
  BY SMTT(30) DEF NoTxLeaked, TimerFinishes, HandlerFinishes,
     AckedIffCommitted, EndedLeavesNothing
<1> QED
  BY <1>1, <1>2, <1>3, <1>4, <1>5, <1>6, <1>7

LEMMA RolledBackStep ==
  ASSUME Inv, NEW r \in Requests, RolledBack(r) PROVE Inv'
<1> USE ServerAssumption DEF Inv, RolledBack, handlerVars, requestVars
<1>1. rid[r] \in Ids
  BY DEF HandlerTypes, TxTypes, RequestTypes, LockProtects
<1>2. HandlerTypes'
  BY SMTT(30) DEF HandlerTypes
<1>3. TxTypes'
  BY <1>1, SMTT(30) DEF TxTypes, TxStates
<1>4. RequestTypes'
  BY SMTT(30) DEF RequestTypes, RequestStates
<1>5. Names' /\ Ownership'
  BY SMTT(30) DEF Names, FreshIds, RealTxs, RealDbs, Ownership, OwnTx,
     HandlerHasTx, HandlerOwns, LockProtects
<1>6. TimerOwns' /\ LockProtects'
  BY SMTT(30) DEF TxTypes, RequestTypes, TimerOwns, LockProtects
<1>7. NoTxLeaked' /\ AckedIffCommitted' /\ EndedLeavesNothing'
  BY SMTT(30) DEF LockProtects, NoTxLeaked, TimerFinishes, HandlerFinishes,
     AckedIffCommitted, EndedLeavesNothing, Finished
<1> QED
  BY <1>2, <1>3, <1>4, <1>5, <1>6, <1>7

LEMMA CloseAllEndStep ==
  ASSUME Inv, NEW r \in Requests, CloseAllEnd(r) PROVE Inv'
<1> USE ServerAssumption DEF Inv, CloseAllEnd, handlerVars, requestVars
<1>1. HandlerTypes'
  BY SMTT(30) DEF HandlerTypes
<1>2. TxTypes'
  BY SMTT(30) DEF TxTypes
<1>3. RequestTypes'
  BY SMTT(30) DEF RequestTypes, RequestStates
<1>4. RealTxs'
  BY SMTT(30) DEF Names, RealTxs
<1>5. RealDbs'
  BY SMTT(30) DEF Names, RealDbs
<1>6. FreshIds'
  BY SMTT(30) DEF Names, FreshIds
<1>7. Ownership'
  BY SMTT(30) DEF Ownership, OwnTx, HandlerHasTx, HandlerOwns
<1>8. TimerOwns' /\ LockProtects'
  BY SMTT(30) DEF RequestTypes, TimerOwns, LockProtects
<1>9. NoTxLeaked' /\ AckedIffCommitted' /\ EndedLeavesNothing'
  BY SMTT(30) DEF LockProtects, NoTxLeaked, TimerFinishes, HandlerFinishes,
     AckedIffCommitted, EndedLeavesNothing
<1> QED
  BY <1>1, <1>2, <1>3, <1>4, <1>5, <1>6, <1>7, <1>8, <1>9 DEF Names

-----------------------------------------------------------------------------
LEMMA NextStep == Inv /\ [Next]_serverVars => Inv'
<1> SUFFICES ASSUME Inv, [Next]_serverVars PROVE Inv'
  OBVIOUS
<1>1. ASSUME NEW c \in Conns, ConnNext(c) PROVE Inv'
  BY <1>1, ConnectStep, DisconnectStep, ReadReplyStep, ReceiveStep, LookupDbStep,
     BeginTxStep, RegisterStep, LookupTxStep, GetConnStep, StartQueryStep,
     PrepareStep, EndQueryStep, CollectStep, TakeTxStep, StartCommitStep,
     EndCommitStep, FinishAbortStep DEF ConnNext, HandlerStep
<1>2. ASSUME NEW i \in Ids, TimerNext(i) PROVE Inv'
  BY <1>2, FireStep, TimerRollbackStep, TimerRolledBackStep DEF TimerNext
<1>3. ASSUME NEW r \in Requests, RequestNext(r) PROVE Inv'
  BY <1>3, OpenStep, InsertDbStep, CloseStep, CloseDbStep, CloseAllStep,
     RollbackNextStep, RolledBackStep, CloseAllEndStep
     DEF RequestNext, RequestStep
<1>4. CASE UNCHANGED serverVars
  BY <1>4, StutterStep
<1> QED
  BY <1>1, <1>2, <1>3, <1>4 DEF Next

THEOREM Invariance == Spec => []Inv
  BY InitInv, NextStep, PTL DEF Spec

\* The types hold for every instance (the declarations of websql.go:62-71).
THEOREM TypeCorrect == Spec => []TypeOK
<1>1. Inv => TypeOK
  BY DEF Inv, TypeOK, HandlerTypes, TxTypes, RequestTypes, Names, RealDbs
<1> QED
  BY <1>1, Invariance, PTL

\* At most one goroutine finishes a transaction: the handler, its timer or a
\* closeAll, whichever took it out of the map (websql.go:289, 399 and 425).
THEOREM OneFinisher == Spec => []SingleFinisher
<1>1. Inv => SingleFinisher
  <2> SUFFICES ASSUME Inv, NEW i \in Ids, NEW c \in Conns, HandlerFinishes(c, i)
               PROVE  /\ txState[i] = IF pc[c] = "committing" THEN "committing"
                                      ELSE "open"
                      /\ i \notin transactions
                      /\ ~TimerFinishes(i)
                      /\ \A r \in Requests : ~RequestFinishes(r, i)
                      /\ \A d \in Conns \ {c} : txId[d] # i
    BY DEF SingleFinisher
  <2>1. pc[c] \in {"finish", "committing"} /\ txId[c] = i /\ i # 0
    BY DEF HandlerFinishes, Ids
  <2>2. /\ txState[i] = IF pc[c] = "finish" THEN "open" ELSE "committing"
        /\ timer[i] \in {"armed", "over"}
        /\ i \notin transactions
    BY <2>1 DEF Inv, Ownership, HandlerOwns
  <2>3. \A r \in Requests : ~RequestFinishes(r, i)
    BY <2>2 DEF RequestFinishes, Inv, LockProtects
  <2>4. \A d \in Conns \ {c} : txId[d] # i
    BY <2>1 DEF Inv, Ownership, OwnTx
  <2> QED
    BY <2>1, <2>2, <2>3, <2>4 DEF TimerFinishes
<1> QED
  BY <1>1, Invariance, PTL

\* An open sql.Tx is in the map, or with the one goroutine that finishes it.
THEOREM NothingLeaked == Spec => []NoTxLeaked
<1>1. Inv => NoTxLeaked
  BY DEF Inv
<1> QED
  BY <1>1, Invariance, PTL

\* A commit is answered ok exactly when SQLite committed.
THEOREM AckMeansCommit == Spec => []AckedIffCommitted
<1>1. Inv => AckedIffCommitted
  BY DEF Inv
<1> QED
  BY <1>1, Invariance, PTL

\* A handler that has ended leaves no transaction behind it.
THEOREM CleanEnd == Spec => []EndedLeavesNothing
<1>1. Inv => EndedLeavesNothing
  BY DEF Inv
<1> QED
  BY <1>1, Invariance, PTL
=============================================================================

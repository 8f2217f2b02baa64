-------------------------- MODULE WebSqlPageProofs --------------------------
(***************************************************************************)
(* Theorems about WebSqlPage for any number of DB objects, tasks and       *)
(* statements.                                                             *)
(*                                                                         *)
(* DB objects share nothing, so the invariant speaks of one object at a    *)
(* time: how far its queue is (QueueInv), where its task is and what the   *)
(* websocket and the posted turns then are (StepInv), what the tasks up to *)
(* now have told the page (CallInv), what is on the wire (WireInv).        *)
(***************************************************************************)
EXTENDS WebSqlPage, SequenceTheorems, TLAPS

Outcomes == {"success", "error"}

\* The types of the variables, but for the bounds.
Shape ==
  /\ ws \in [Conns -> Sockets]
  /\ out \in [Conns -> Sent \cup {"none"}]
  /\ reply \in [Conns -> {"none", "ok", "error"}]
  /\ busy \in [Conns -> BOOLEAN]
  /\ kinds \in [Conns -> Seq(Kinds)]
  /\ pending \in [Conns -> Seq(Nat)]
  /\ ticks \in [Conns -> Nat]
  /\ current \in [Conns -> Nat]
  /\ step \in [Conns -> Steps]
  /\ sql \in [Conns -> Nat]
  /\ asked \in [Conns -> 0..MaxSql]
  /\ forceFail \in [Conns -> BOOLEAN]
  /\ calls \in [Conns -> [Tasks -> Seq(Outcomes)]]
  /\ finished \in [Conns -> Seq(Nat)]

\* The tasks are taken up in order: Begun of them so far, of which the current
\* one may not have ended.
Begun(c) == Len(finished[c]) + (IF current[c] = 0 THEN 0 ELSE 1)

QueueInv(c) ==
  /\ \A i \in 1..Len(finished[c]) : finished[c][i] = i
  /\ current[c] # 0 => current[c] = Len(finished[c]) + 1
  /\ \A i \in 1..Len(pending[c]) : pending[c][i] = Begun(c) + i
  /\ Len(kinds[c]) = Begun(c) + Len(pending[c])
  /\ Len(kinds[c]) <= MaxTasks

\* An idle object with tasks has a doNext posted; each doNext was posted for a
\* task of its own.
StepInv(c) ==
  /\ step[c] = "idle" => current[c] = 0
  /\ step[c] \notin {"idle", "unloaded"} => current[c] # 0
  /\ step[c] = "idle" /\ pending[c] # <<>> => ticks[c] > 0
  /\ ticks[c] <= Len(kinds[c])

\* A task has been told nothing before its catch or its end.
CallInv(c) ==
  \A n \in Tasks :
    /\ Len(calls[c][n]) <= 1
    /\ n > Begun(c) => calls[c][n] = <<>>
    /\ n = current[c] /\ step[c] \notin {"abort", "unloaded"} => calls[c][n] = <<>>
    /\ n = current[c] /\ step[c] = "abort" => calls[c][n] # <<>>
    /\ n <= Len(finished[c]) /\ kinds[c][n] # "create" => calls[c][n] # <<>>

TaskInv(c) == QueueInv(c) /\ StepInv(c) /\ CallInv(c)

\* One command or one answer is on the wire of an open websocket, only if the
\* task awaits it, and nothing before it is open.
WireInv(c) ==
  /\ step[c] \in Sent => ws[c] = "open"
  /\ step[c] = "unloaded" => ws[c] \in {"closed", "failed"}
  /\ ws[c] = "open" =>
       /\ out[c] # "none" => out[c] = step[c] /\ ~busy[c] /\ reply[c] = "none"
       /\ busy[c] \/ reply[c] # "none" => step[c] \in Sent
       /\ busy[c] => reply[c] = "none"
  /\ ws[c] \in {"new", "connecting"} =>
       out[c] = "none" /\ reply[c] = "none" /\ ~busy[c]

ConnInv(c) == TaskInv(c) /\ WireInv(c) /\ sql[c] <= asked[c]

Inv == Shape /\ \A c \in Conns : ConnInv(c)

\* What a step of one object leaves alone.
Others(c) ==
  \A d \in Conns \ {c} :
    /\ ws'[d] = ws[d] /\ out'[d] = out[d] /\ reply'[d] = reply[d]
    /\ busy'[d] = busy[d] /\ kinds'[d] = kinds[d] /\ pending'[d] = pending[d]
    /\ ticks'[d] = ticks[d] /\ current'[d] = current[d] /\ step'[d] = step[d]
    /\ sql'[d] = sql[d] /\ asked'[d] = asked[d] /\ calls'[d] = calls[d]
    /\ finished'[d] = finished[d]

-----------------------------------------------------------------------------
\* The two parts of a concatenation.
LEMMA ConcatParts ==
  ASSUME NEW s \in Seq(Nat), NEW t \in Seq(Nat), NEW u, u = s \o t,
         NEW m \in Nat, NEW n \in Nat, m = Len(s), n = Len(t)
  PROVE  /\ Len(u) = m + n
         /\ \A i \in 1..m : u[i] = s[i]
         /\ \A i \in 1..n : u[m + i] = t[i]
<1>1. /\ s \o t \in Seq(Nat) /\ Len(s \o t) = m + n
      /\ \A i \in 1..(m + n) : (s \o t)[i] = IF i <= m THEN s[i] ELSE t[i - m]
  BY ConcatProperties
<1>2. \A i \in 1..m : i \in 1..(m + n) /\ i <= m
  OBVIOUS
<1>3. \A i \in 1..n : m + i \in 1..(m + n) /\ ~(m + i <= m) /\ (m + i) - m = i
  OBVIOUS
<1> QED
  BY <1>1, <1>2, <1>3

-----------------------------------------------------------------------------
(* One object at a time                                                    *)

LEMMA OthersKeep ==
  ASSUME Inv, Shape', NEW c \in Conns, Others(c), ConnInv(c)' PROVE Inv'
<1> SUFFICES ASSUME NEW d \in Conns \ {c} PROVE ConnInv(d)'
  BY DEF Inv
<1>1. ConnInv(d)
  BY DEF Inv
<1>2. QueueInv(d)'
  BY ZenonT(60), <1>1 DEF Others, ConnInv, TaskInv, QueueInv, Begun
<1>3. StepInv(d)'
  BY <1>1 DEF Others, ConnInv, TaskInv, StepInv
<1>4. CallInv(d)'
  BY ZenonT(60), <1>1 DEF Others, ConnInv, TaskInv, CallInv, Begun
<1>5. WireInv(d)' /\ (sql[d] <= asked[d])'
  BY <1>1 DEF Others, ConnInv, WireInv
<1> QED
  BY <1>2, <1>3, <1>4, <1>5 DEF ConnInv, TaskInv

\* The types at one object.
LEMMA ConnFacts ==
  ASSUME Inv, NEW c \in Conns
  PROVE  /\ kinds[c] \in Seq(Kinds) /\ Len(kinds[c]) \in Nat
         /\ pending[c] \in Seq(Nat) /\ Len(pending[c]) \in Nat
         /\ finished[c] \in Seq(Nat) /\ Len(finished[c]) \in Nat
         /\ current[c] \in Nat /\ ticks[c] \in Nat /\ step[c] \in Steps
         /\ calls[c] \in [Tasks -> Seq(Outcomes)]
         /\ MaxTasks \in Nat /\ MaxSql \in Nat
         /\ Begun(c) \in Nat /\ Begun(c) <= MaxTasks
         /\ current[c] \in 0..MaxTasks
<1>1. /\ kinds[c] \in Seq(Kinds) /\ pending[c] \in Seq(Nat)
      /\ finished[c] \in Seq(Nat)
      /\ current[c] \in Nat /\ ticks[c] \in Nat /\ step[c] \in Steps
      /\ calls[c] \in [Tasks -> Seq(Outcomes)]
  BY DEF Inv, Shape
<1>2. /\ Len(kinds[c]) \in Nat /\ Len(pending[c]) \in Nat
      /\ Len(finished[c]) \in Nat
  BY <1>1, LenProperties
<1>3. MaxTasks \in Nat /\ MaxSql \in Nat
  BY PageAssumption
<1>4. QueueInv(c)
  BY DEF Inv, ConnInv, TaskInv
<1>5. Begun(c) \in Nat /\ (current[c] # 0 => Begun(c) = current[c])
  <2>1. CASE current[c] = 0
    BY <1>2, <2>1 DEF Begun
  <2>2. CASE current[c] # 0
    BY <1>2, <1>4, <2>2 DEF Begun, QueueInv
  <2> QED
    BY <2>1, <2>2
<1>6. Begun(c) <= MaxTasks
  BY <1>2, <1>3, <1>4, <1>5 DEF QueueInv
<1> QED
  BY <1>1, <1>2, <1>3, <1>5, <1>6

LEMMA CurrentTask ==
  ASSUME Inv, NEW c \in Conns, step[c] \notin {"idle", "unloaded"}
  PROVE  /\ current[c] \in Tasks /\ current[c] \in Nat \ {0}
         /\ current[c] = Len(finished[c]) + 1 /\ Begun(c) = current[c]
         /\ Len(kinds[c]) = current[c] + Len(pending[c])
         /\ Len(kinds[c]) <= MaxTasks /\ current[c] <= Len(kinds[c])
<1>1. QueueInv(c) /\ StepInv(c)
  BY DEF Inv, ConnInv, TaskInv
<1>2. current[c] # 0 /\ current[c] = Len(finished[c]) + 1
  BY <1>1 DEF StepInv, QueueInv
<1>3. current[c] \in Nat \ {0}
  BY <1>2, ConnFacts
<1>4. Begun(c) = current[c]
  BY <1>2, ConnFacts DEF Begun
<1>5. Len(kinds[c]) = current[c] + Len(pending[c]) /\ Len(kinds[c]) <= MaxTasks
  BY <1>1, <1>4 DEF QueueInv
<1>6. Len(kinds[c]) \in Nat /\ Len(pending[c]) \in Nat /\ MaxTasks \in Nat
  BY ConnFacts
<1>7. current[c] <= Len(kinds[c])
  BY <1>3, <1>5, <1>6
<1>8. current[c] \in Tasks
  BY <1>3, <1>5, <1>6, <1>7 DEF Tasks
<1> QED
  BY <1>2, <1>3, <1>4, <1>5, <1>7, <1>8

-----------------------------------------------------------------------------
(* What a step does to the queue and the current task                      *)

\* The task goes on, and may tell the page that it has failed.
LEMMA TaskGoesOn ==
  ASSUME Inv, NEW c \in Conns,
         step[c] \notin {"idle", "unloaded", "abort"},
         step'[c] \notin {"idle", "unloaded"},
         /\ finished'[c] = finished[c] /\ current'[c] = current[c]
         /\ pending'[c] = pending[c] /\ kinds'[c] = kinds[c]
         /\ ticks'[c] = ticks[c],
         NEW told, calls'[c] = [calls[c] EXCEPT ![current[c]] = told],
         told \in Seq(Outcomes), Len(told) <= 1,
         told = <<>> <=> step'[c] # "abort"
  PROVE  TaskInv(c)'
<1>1. ConnInv(c)
  BY DEF Inv
<1>2. QueueInv(c)' /\ Begun(c)' = Begun(c)
  BY <1>1 DEF ConnInv, TaskInv, QueueInv, Begun
<1>3. StepInv(c)'
  BY <1>1 DEF ConnInv, TaskInv, StepInv
<1>4. current[c] \in Tasks /\ current[c] # 0 /\ current[c] = Len(finished[c]) + 1
  BY CurrentTask
<1>5. \A n \in Tasks : calls'[c][n] = IF n = current[c] THEN told ELSE calls[c][n]
  BY <1>4, ConnFacts
<1>6. \A n \in Tasks : n > Begun(c) \/ n <= Len(finished[c]) => n # current[c]
  BY <1>4, ConnFacts DEF Begun
<1>7. CallInv(c)'
  BY <1>1, <1>2, <1>5, <1>6 DEF ConnInv, TaskInv, CallInv
<1> QED
  BY <1>2, <1>3, <1>7 DEF TaskInv


\* What the queue and the task are after Finish.
LEMMA FinishResult ==
  ASSUME Inv, NEW c \in Conns, NEW queue \in Seq(Nat), Finish(c, queue)
  PROVE  /\ finished' \in [Conns -> Seq(Nat)] /\ current' \in [Conns -> Nat]
         /\ pending' \in [Conns -> Seq(Nat)] /\ step' \in [Conns -> Steps]
         /\ \A d \in Conns \ {c} :
              /\ finished'[d] = finished[d] /\ current'[d] = current[d]
              /\ pending'[d] = pending[d] /\ step'[d] = step[d]
         /\ finished'[c] = Append(finished[c], current[c])
         /\ queue = <<>> => /\ current'[c] = 0 /\ pending'[c] = <<>>
                            /\ step'[c] = "idle"
         /\ queue # <<>> => /\ current'[c] = Head(queue)
                            /\ pending'[c] = Tail(queue) /\ step'[c] = "posted"
<1>1. /\ finished \in [Conns -> Seq(Nat)] /\ current \in [Conns -> Nat]
      /\ pending \in [Conns -> Seq(Nat)] /\ step \in [Conns -> Steps]
  BY DEF Inv, Shape
<1>2. Append(finished[c], current[c]) \in Seq(Nat)
  BY <1>1, AppendProperties
<1>3. finished' = [finished EXCEPT ![c] = Append(finished[c], current[c])]
  BY DEF Finish
<1>4. PICK f \in Seq(Nat) : f = Append(finished[c], current[c])
  BY <1>2
<1>5. /\ finished' \in [Conns -> Seq(Nat)] /\ finished'[c] = f
      /\ \A d \in Conns \ {c} : finished'[d] = finished[d]
  BY <1>1, <1>3, <1>4
<1>6. CASE queue = <<>>
  <2>1. /\ current' = [current EXCEPT ![c] = 0]
        /\ pending' = [pending EXCEPT ![c] = <<>>]
        /\ step' = [step EXCEPT ![c] = "idle"]
    BY <1>6 DEF Finish
  <2>2. <<>> \in Seq(Nat) /\ "idle" \in Steps
    BY EmptySeq DEF Steps
  <2> QED
    BY <1>1, <1>4, <1>5, <1>6, <2>1, <2>2
<1>7. CASE queue # <<>>
  <2>1. /\ current' = [current EXCEPT ![c] = Head(queue)]
        /\ pending' = [pending EXCEPT ![c] = Tail(queue)]
        /\ step' = [step EXCEPT ![c] = "posted"]
    BY <1>7 DEF Finish
  <2>2. Head(queue) \in Nat /\ Tail(queue) \in Seq(Nat) /\ "posted" \in Steps
    BY <1>7, HeadTailProperties DEF Steps
  <2> QED
    BY <1>1, <1>4, <1>5, <1>7, <2>1, <2>2
<1> QED
  BY <1>6, <1>7

\* The current task ends, and the next one of queue is taken up, which is the
\* queue of before with the tasks that the ended one has scheduled.
LEMMA TaskEnds ==
  ASSUME Inv, NEW c \in Conns, step[c] \notin {"idle", "unloaded"},
         NEW queue \in Seq(Nat), Finish(c, queue), ticks'[c] = ticks[c],
         \A i \in 1..Len(queue) : queue[i] = current[c] + i,
         Len(kinds'[c]) = current[c] + Len(queue),
         Len(kinds'[c]) <= MaxTasks,
         \A n \in 1..Len(kinds[c]) : kinds'[c][n] = kinds[c][n],
         Len(kinds[c]) <= Len(kinds'[c]),
         \A n \in Tasks : n # current[c] => calls'[c][n] = calls[c][n],
         Len(calls'[c][current[c]]) <= 1,
         kinds[c][current[c]] # "create" => calls'[c][current[c]] # <<>>
  PROVE  TaskInv(c)' /\ step'[c] \in {"idle", "posted"}
<1> DEFINE k == current[c]
<1>1. ConnInv(c)
  BY DEF Inv
<1>2. k \in Tasks /\ k = Len(finished[c]) + 1 /\ Begun(c) = k /\ k \in Nat \ {0}
      /\ k <= Len(kinds[c])
  BY CurrentTask
<1>3. \A n \in Tasks : n > k => calls[c][n] = <<>>
  BY <1>1, <1>2 DEF ConnInv, TaskInv, CallInv
<1>4. \A n \in Tasks : n < k /\ kinds[c][n] # "create" => calls[c][n] # <<>>
  BY <1>1, <1>2, ConnFacts DEF ConnInv, TaskInv, CallInv, Tasks
<1>5. \A n \in Tasks : Len(calls[c][n]) <= 1
  BY <1>1 DEF ConnInv, TaskInv, CallInv
<1>6. finished'[c] = Append(finished[c], k)
  BY FinishResult
<1>7. Len(finished'[c]) = k /\ \A i \in 1..k : finished'[c][i] = i
  <2>1. PICK m \in Nat : m = Len(finished[c])
    BY ConnFacts
  <2>2. /\ Len(finished'[c]) = m + 1
        /\ \A i \in 1..m : finished'[c][i] = finished[c][i]
        /\ finished'[c][m + 1] = k
    BY <1>2, <1>6, <2>1, ConnFacts, AppendProperties
  <2>3. \A i \in 1..m : finished[c][i] = i
    BY <1>1, <2>1 DEF ConnInv, TaskInv, QueueInv
  <2>4. k = m + 1
    BY <1>2, <2>1
  <2>5. \A i \in 1..(m + 1) : finished'[c][i] = i
    <3> TAKE i \in 1..(m + 1)
    <3>1. CASE i = m + 1
      BY <2>2, <2>4, <3>1
    <3>2. CASE i \in 1..m
      BY <2>2, <2>3, <3>2
    <3>3. i = m + 1 \/ i \in 1..m
      BY SMTT(30), <2>1
    <3> QED
      BY <3>1, <3>2, <3>3
  <2> HIDE DEF k
  <2> QED
    BY <2>2, <2>4, <2>5
<1>8. /\ step'[c] \in {"idle", "posted"}
      /\ step'[c] = "idle" => current'[c] = 0 /\ pending'[c] = <<>>
      /\ step'[c] = "posted" => current'[c] = k + 1
      /\ current'[c] \in {0, k + 1}
      /\ Len(kinds'[c]) = Begun(c)' + Len(pending'[c])
      /\ \A i \in 1..Len(pending'[c]) : pending'[c][i] = Begun(c)' + i
      /\ Begun(c)' = IF current'[c] = 0 THEN k ELSE k + 1
  <2>1. CASE queue = <<>>
    <3>1. /\ current'[c] = 0 /\ pending'[c] = <<>> /\ step'[c] = "idle"
          /\ Len(queue) = 0
      BY <2>1, FinishResult, EmptySeq
    <3>2. Begun(c)' = k
      BY <1>2, <1>7, <3>1 DEF Begun
    <3> QED
      BY <1>2, <2>1, <3>1, <3>2
  <2>2. CASE queue # <<>>
    <3>1. /\ current'[c] = Head(queue) /\ pending'[c] = Tail(queue)
          /\ step'[c] = "posted"
      BY <2>2, FinishResult
    <3>2. Len(queue) \in Nat \ {0} /\ Head(queue) = queue[1]
      BY <2>2, EmptySeq
    <3>3. Head(queue) = k + 1
      BY SMTT(30), <3>2
    <3>4. /\ Len(Tail(queue)) = Len(queue) - 1
          /\ \A i \in 1..Len(Tail(queue)) : Tail(queue)[i] = queue[i + 1]
      BY <2>2, HeadTailProperties
    <3>5. Begun(c)' = k + 1
      <4>1. current'[c] = k + 1 /\ k + 1 # 0
        BY <1>2, <3>1, <3>3
      <4>2. Len(finished'[c]) = k
        BY <1>7
      <4> HIDE DEF k
      <4> QED
        BY <4>1, <4>2 DEF Begun
    <3>6. \A i \in 1..Len(Tail(queue)) : Tail(queue)[i] = k + 1 + i
      BY <1>2, <3>2, <3>4
    <3> HIDE DEF k
    <3>7. Len(kinds'[c]) = k + 1 + Len(Tail(queue))
      BY <1>2, <3>2, <3>4 DEF k
    <3>8. k + 1 # 0 /\ k \in Nat
      BY <1>2 DEF k
    <3>9. current'[c] = k + 1
      BY <3>1, <3>3
    <3>10. Len(kinds'[c]) = Begun(c)' + Len(pending'[c])
      BY <3>1, <3>5, <3>7
    <3>11. \A i \in 1..Len(pending'[c]) : pending'[c][i] = Begun(c)' + i
      BY <3>1, <3>5, <3>6
    <3> QED
      BY <3>1, <3>5, <3>8, <3>9, <3>10, <3>11
  <2> QED
    BY <2>1, <2>2
<1>9. QueueInv(c)'
  BY <1>2, <1>7, <1>8 DEF QueueInv
<1>10. StepInv(c)'
  BY <1>1, <1>2, <1>8, ConnFacts DEF ConnInv, TaskInv, StepInv
<1>11. CallInv(c)'
  <2> SUFFICES ASSUME NEW n \in Tasks
               PROVE  /\ Len(calls'[c][n]) <= 1
                      /\ n > Begun(c)' => calls'[c][n] = <<>>
                      /\ n = current'[c] => calls'[c][n] = <<>>
                      /\ n <= Len(finished'[c]) /\ kinds'[c][n] # "create" =>
                           calls'[c][n] # <<>>
    BY <1>8 DEF CallInv
  <2>1. CASE n = k
    BY <1>2, <1>8, <1>7, <2>1
  <2>2. CASE n < k
    <3>1. calls'[c][n] = calls[c][n] /\ kinds'[c][n] = kinds[c][n]
      BY SMTT(30), <1>2, <2>2 DEF Tasks
    <3> QED
      BY <1>2, <1>4, <1>5, <1>8, <2>2, <3>1 DEF Tasks
  <2>3. CASE n > k
    <3>1. calls'[c][n] = <<>>
      BY <1>2, <1>3, <2>3
    <3> QED
      BY <1>2, <1>5, <1>7, <2>3, <3>1 DEF Tasks
  <2> QED
    BY <1>2, <2>1, <2>2, <2>3 DEF Tasks
<1> QED
  BY <1>8, <1>9, <1>10, <1>11 DEF TaskInv

\* A task is put at the end of the queue; an idle object posts a doNext.
LEMMA TaskAdded ==
  ASSUME Inv, NEW c \in Conns, RoomForTask(c), NEW kind \in Kinds,
         kinds'[c] = Append(kinds[c], kind),
         pending'[c] = Append(pending[c], NewTask(c)),
         finished'[c] = finished[c], current'[c] = current[c],
         step'[c] = step[c], calls'[c] = calls[c],
         ticks'[c] \in {ticks[c], ticks[c] + 1},
         step[c] = "idle" => ticks'[c] = ticks[c] + 1
  PROVE  TaskInv(c)'
<1>1. QueueInv(c) /\ StepInv(c) /\ CallInv(c)
  BY DEF Inv, ConnInv, TaskInv
<1>2. PICK n \in Nat : n = Len(kinds[c])
  BY ConnFacts
<1>3. PICK m \in Nat : m = Len(pending[c])
  BY ConnFacts
<1>4. PICK b \in Nat : b = Begun(c)
  BY ConnFacts
<1>5. n = b + m /\ n + 1 <= MaxTasks /\ NewTask(c) = n + 1
  BY <1>1, <1>2, <1>3, <1>4, ConnFacts DEF QueueInv, RoomForTask, NewTask
<1>6. /\ Len(kinds'[c]) = n + 1
      /\ \A i \in 1..n : kinds'[c][i] = kinds[c][i]
  BY <1>2, ConnFacts, AppendProperties
<1>7. /\ Len(pending'[c]) = m + 1
      /\ \A i \in 1..m : pending'[c][i] = pending[c][i]
      /\ pending'[c][m + 1] = n + 1
  <2>1. NewTask(c) \in Nat
    BY <1>5
  <2> QED
    BY <1>3, <1>5, <2>1, ConnFacts, AppendProperties
<1>8. Begun(c)' = b
  BY <1>4 DEF Begun
<1>9. \A i \in 1..(m + 1) : pending'[c][i] = b + i
  <2>1. \A i \in 1..m : pending[c][i] = b + i
    BY <1>1, <1>3, <1>4 DEF QueueInv
  <2> TAKE i \in 1..(m + 1)
  <2>2. CASE i = m + 1
    BY <1>5, <1>7, <2>2
  <2>3. CASE i \in 1..m
    BY <1>7, <2>1, <2>3
  <2> QED
    BY <1>3, <2>2, <2>3
<1>10. QueueInv(c)'
  <2>1. \A i \in 1..Len(finished'[c]) : finished'[c][i] = i
    BY <1>1 DEF QueueInv
  <2>2. current'[c] # 0 => current'[c] = Len(finished'[c]) + 1
    BY <1>1 DEF QueueInv
  <2>3. Len(kinds'[c]) = Begun(c)' + Len(pending'[c])
    BY <1>5, <1>6, <1>7, <1>8
  <2>4. Len(kinds'[c]) <= MaxTasks
    BY <1>5, <1>6
  <2>5. \A i \in 1..Len(pending'[c]) : pending'[c][i] = Begun(c)' + i
    BY <1>7, <1>8, <1>9
  <2> QED
    BY <2>1, <2>2, <2>3, <2>4, <2>5 DEF QueueInv
<1>11. StepInv(c)'
  <2>1. PICK t \in Nat : t = ticks[c]
    BY ConnFacts
  <2>2. t <= n /\ ticks'[c] \in {t, t + 1} /\ (step[c] = "idle" => ticks'[c] = t + 1)
    BY <1>1, <1>2, <2>1 DEF StepInv
  <2>3. ticks'[c] <= Len(kinds'[c]) /\ (step[c] = "idle" => ticks'[c] > 0)
    BY <1>6, <2>2
  <2> QED
    BY <1>1, <2>3 DEF StepInv
<1>12. CallInv(c)'
  <2>1. PICK f \in Nat : f = Len(finished[c])
    BY ConnFacts
  <2>2. f <= b
    <3>1. CASE current[c] = 0
      <4>1. b = Len(finished[c]) + 0
        BY <1>4, <3>1 DEF Begun
      <4> QED
        BY <2>1, <4>1
    <3>2. CASE current[c] # 0
      <4>1. b = Len(finished[c]) + 1
        BY <1>4, <3>2 DEF Begun
      <4> QED
        BY <2>1, <4>1
    <3> QED
      BY <3>1, <3>2
  <2>3. \A i \in Tasks : i <= f => kinds'[c][i] = kinds[c][i]
    BY <1>3, <1>5, <1>6, <2>2 DEF Tasks
  <2> SUFFICES ASSUME NEW i \in Tasks
               PROVE  /\ Len(calls'[c][i]) <= 1
                      /\ i > Begun(c)' => calls'[c][i] = <<>>
                      /\ i = current'[c] /\ step'[c] \notin {"abort", "unloaded"} =>
                           calls'[c][i] = <<>>
                      /\ i = current'[c] /\ step'[c] = "abort" =>
                           calls'[c][i] # <<>>
                      /\ i <= Len(finished'[c]) /\ kinds'[c][i] # "create" =>
                           calls'[c][i] # <<>>
    BY DEF CallInv
  <2>4. /\ Len(calls'[c][i]) <= 1
        /\ i > b => calls'[c][i] = <<>>
        /\ i = current'[c] /\ step'[c] \notin {"abort", "unloaded"} =>
             calls'[c][i] = <<>>
        /\ i = current'[c] /\ step'[c] = "abort" => calls'[c][i] # <<>>
    BY <1>1, <1>4 DEF CallInv
  <2>5. i <= f /\ kinds'[c][i] # "create" => calls'[c][i] # <<>>
    BY <1>1, <2>1, <2>3 DEF CallInv
  <2>6. Len(finished'[c]) = f
    BY <2>1
  <2> QED
    BY <1>8, <2>4, <2>5, <2>6
<1> QED
  BY <1>10, <1>11, <1>12 DEF TaskInv

-----------------------------------------------------------------------------
(* The steps of a task                                                     *)

\* What a step of the task of c keeps: types, and the other objects.
TaskFrame(c) ==
  /\ out' \in [Conns -> Sent \cup {"none"}] /\ step' \in [Conns -> Steps]
  /\ pending' \in [Conns -> Seq(Nat)] /\ finished' \in [Conns -> Seq(Nat)]
  /\ current' \in [Conns -> Nat] /\ calls' \in [Conns -> [Tasks -> Seq(Outcomes)]]
  /\ \A d \in Conns \ {c} :
       /\ out'[d] = out[d] /\ step'[d] = step[d] /\ pending'[d] = pending[d]
       /\ finished'[d] = finished[d] /\ current'[d] = current[d]
       /\ calls'[d] = calls[d]

LEMMA SettleResult ==
  ASSUME Inv, NEW c \in Conns, step[c] \notin {"idle", "unloaded", "abort"},
         NEW how \in Outcomes, Settle(c, how)
  PROVE  /\ calls' \in [Conns -> [Tasks -> Seq(Outcomes)]]
         /\ \A d \in Conns \ {c} : calls'[d] = calls[d]
         /\ calls'[c] = [calls[c] EXCEPT ![current[c]] = <<how>>]
         /\ \A n \in Tasks : n # current[c] => calls'[c][n] = calls[c][n]
         /\ Len(calls'[c][current[c]]) <= 1 /\ calls'[c][current[c]] # <<>>
         /\ <<how>> \in Seq(Outcomes) /\ Len(<<how>>) <= 1 /\ <<how>> # <<>>
<1>1. current[c] \in Tasks
  BY CurrentTask
<1>2. calls[c][current[c]] = <<>>
  BY <1>1 DEF Inv, ConnInv, TaskInv, CallInv
<1>3. calls \in [Conns -> [Tasks -> Seq(Outcomes)]]
  BY DEF Inv, Shape
<1>4. Append(<<>>, how) = <<how>> /\ <<how>> \in Seq(Outcomes)
      /\ Len(<<how>>) <= 1 /\ <<how>> # <<>>
  OBVIOUS
<1>5. calls' = [calls EXCEPT ![c] = [calls[c] EXCEPT ![current[c]] = <<how>>]]
  BY <1>2, <1>3, <1>4 DEF Settle
<1>6. PICK told \in Seq(Outcomes) : told = <<how>>
  BY <1>4
<1>7. [calls[c] EXCEPT ![current[c]] = told] \in [Tasks -> Seq(Outcomes)]
  BY <1>1, <1>3
<1> QED
  BY <1>1, <1>3, <1>4, <1>5, <1>6, <1>7

LEMMA SayResult ==
  ASSUME Inv, NEW c \in Conns, NEW m \in Sent, Say(c, m)
  PROVE  /\ out' \in [Conns -> Sent \cup {"none"}] /\ step' \in [Conns -> Steps]
         /\ \A d \in Conns \ {c} : out'[d] = out[d] /\ step'[d] = step[d]
         /\ out'[c] = m /\ step'[c] = m
         /\ pending' = pending /\ current' = current /\ finished' = finished
  BY DEF Inv, Shape, Say, Steps

\* The queue as it is, when a task ends without scheduling another.
LEMMA QueueBehind ==
  ASSUME Inv, NEW c \in Conns, step[c] \notin {"idle", "unloaded"}
  PROVE  /\ pending[c] \in Seq(Nat)
         /\ \A i \in 1..Len(pending[c]) : pending[c][i] = current[c] + i
         /\ Len(kinds[c]) = current[c] + Len(pending[c])
         /\ Len(kinds[c]) <= MaxTasks
  BY CurrentTask, ConnFacts DEF Inv, ConnInv, TaskInv, QueueInv

\* A task that ends behind itself leaves the queue as it was.
LEMMA EndResult ==
  ASSUME Inv, NEW c \in Conns, step[c] \notin {"idle", "unloaded"},
         Finish(c, pending[c]), kinds'[c] = kinds[c], ticks'[c] = ticks[c],
         out' = out, calls' \in [Conns -> [Tasks -> Seq(Outcomes)]],
         \A d \in Conns \ {c} : calls'[d] = calls[d],
         \A n \in Tasks : n # current[c] => calls'[c][n] = calls[c][n],
         Len(calls'[c][current[c]]) <= 1,
         kinds[c][current[c]] # "create" => calls'[c][current[c]] # <<>>
  PROVE  TaskInv(c)' /\ TaskFrame(c) /\ step'[c] \in {"idle", "posted"}
<1>1. /\ pending[c] \in Seq(Nat)
      /\ \A i \in 1..Len(pending[c]) : pending[c][i] = current[c] + i
      /\ Len(kinds[c]) = current[c] + Len(pending[c])
      /\ Len(kinds[c]) <= MaxTasks
  BY QueueBehind
<1>2. Len(kinds[c]) <= Len(kinds'[c])
  BY ConnFacts
<1>3. PICK queue \in Seq(Nat) : queue = pending[c]
  BY <1>1
<1>4. TaskInv(c)' /\ step'[c] \in {"idle", "posted"}
  BY <1>1, <1>2, <1>3, TaskEnds
<1>5. TaskFrame(c)
  BY SMTT(30), <1>3, FinishResult DEF TaskFrame, Inv, Shape
<1> QED
  BY <1>4, <1>5

LEMMA FailResult ==
  ASSUME Inv, NEW c \in Conns, step[c] \notin {"idle", "unloaded", "abort"},
         NEW open \in BOOLEAN, Fail(c, open),
         kinds'[c] = kinds[c], ticks'[c] = ticks[c]
  PROVE  /\ TaskInv(c)' /\ TaskFrame(c)
         /\ open => out'[c] = "abort" /\ step'[c] = "abort"
         /\ ~open => out' = out /\ step'[c] \in {"idle", "posted"}
<1>1. Settle(c, "error") /\ "error" \in Outcomes
  BY DEF Fail, Outcomes
<1>2. /\ calls' \in [Conns -> [Tasks -> Seq(Outcomes)]]
      /\ \A d \in Conns \ {c} : calls'[d] = calls[d]
      /\ calls'[c] = [calls[c] EXCEPT ![current[c]] = <<"error">>]
      /\ \A n \in Tasks : n # current[c] => calls'[c][n] = calls[c][n]
      /\ Len(calls'[c][current[c]]) <= 1 /\ calls'[c][current[c]] # <<>>
      /\ <<"error">> \in Seq(Outcomes) /\ Len(<<"error">>) <= 1
      /\ <<"error">> # <<>>
  BY <1>1, SettleResult
<1>3. CASE open
  <2>1. Say(c, "abort") /\ "abort" \in Sent
    BY <1>3 DEF Fail, Sent
  <2>2. /\ out' \in [Conns -> Sent \cup {"none"}] /\ step' \in [Conns -> Steps]
        /\ \A d \in Conns \ {c} : out'[d] = out[d] /\ step'[d] = step[d]
        /\ out'[c] = "abort" /\ step'[c] = "abort"
        /\ pending' = pending /\ current' = current /\ finished' = finished
    BY <2>1, SayResult
  <2>3. PICK told \in Seq(Outcomes) : told = <<"error">>
    BY <1>2
  <2>4. TaskInv(c)'
    <3>1. /\ calls'[c] = [calls[c] EXCEPT ![current[c]] = told]
          /\ Len(told) <= 1 /\ told # <<>>
      BY <1>2, <2>3
    <3>2. /\ finished'[c] = finished[c] /\ current'[c] = current[c]
          /\ pending'[c] = pending[c] /\ step'[c] = "abort"
      BY <2>2
    <3> QED
      BY <3>1, <3>2, TaskGoesOn
  <2>5. TaskFrame(c)
    BY <1>2, <2>2 DEF TaskFrame, Inv, Shape
  <2> QED
    BY <1>3, <2>2, <2>4, <2>5
<1>4. CASE ~open
  <2>1. Finish(c, pending[c]) /\ out' = out
    BY <1>4 DEF Fail
  <2>3. TaskInv(c)' /\ TaskFrame(c) /\ step'[c] \in {"idle", "posted"}
    BY <1>2, <2>1, EndResult
  <2> QED
    BY <1>4, <2>1, <2>3
<1> QED
  BY <1>3, <1>4

LEMMA AdvanceResult ==
  ASSUME Inv, NEW c \in Conns, step[c] \notin {"idle", "unloaded", "abort"},
         NEW m \in Sent \ {"abort"}, Advance(c, m),
         kinds'[c] = kinds[c], ticks'[c] = ticks[c]
  PROVE  /\ TaskInv(c)' /\ TaskFrame(c)
         /\ ws[c] = "open" => out'[c] = m /\ step'[c] = m
         /\ ws[c] # "open" => out' = out /\ step'[c] \in {"idle", "posted"}
<1>1. CASE ws[c] = "open"
  <2>1. Say(c, m) /\ calls' = calls /\ m \in Sent
    BY <1>1 DEF Advance
  <2>2. /\ out' \in [Conns -> Sent \cup {"none"}] /\ step' \in [Conns -> Steps]
        /\ \A d \in Conns \ {c} : out'[d] = out[d] /\ step'[d] = step[d]
        /\ out'[c] = m /\ step'[c] = m
        /\ pending' = pending /\ current' = current /\ finished' = finished
    BY <2>1, SayResult
  <2>3. current[c] \in Tasks /\ calls[c] \in [Tasks -> Seq(Outcomes)]
    BY CurrentTask, ConnFacts
  <2>4. calls[c][current[c]] = <<>>
    BY <2>3 DEF Inv, ConnInv, TaskInv, CallInv
  <2>5. calls'[c] = [calls[c] EXCEPT ![current[c]] = <<>>]
    BY <2>1, <2>3, <2>4
  <2>6. <<>> \in Seq(Outcomes) /\ Len(<<>>) <= 1
    BY EmptySeq
  <2>7. step'[c] \notin {"idle", "unloaded", "abort"}
    BY <2>2 DEF Sent
  <2>8. PICK told \in Seq(Outcomes) : told = <<>>
    BY <2>6
  <2>9. TaskInv(c)'
    BY <2>2, <2>5, <2>6, <2>7, <2>8, TaskGoesOn
  <2>10. TaskFrame(c)
    BY <2>1, <2>2 DEF TaskFrame, Inv, Shape
  <2> QED
    BY <1>1, <2>2, <2>9, <2>10
<1>2. CASE ws[c] # "open"
  <2>1. Fail(c, FALSE)
    BY <1>2 DEF Advance
  <2> QED
    BY <1>2, <2>1, FailResult
<1> QED
  BY <1>1, <1>2

-----------------------------------------------------------------------------
(* Every step keeps the invariant                                          *)

\* A step that leaves the tasks of c alone.
LEMMA TaskUntouched ==
  ASSUME Inv, NEW c \in Conns,
         UNCHANGED <<kinds, pending, ticks, current, step, calls, finished>>
  PROVE  TaskInv(c)'
  BY DEF Inv, ConnInv, TaskInv, QueueInv, StepInv, CallInv, Begun

LEMMA WireSteps ==
  ASSUME Inv, NEW c \in Conns,
         \/ (Accept(c) \/ Refuse(c)) /\ UNCHANGED busy
         \/ Take(c) \/ Serve(c)
  PROVE  Inv'
<1> USE DEF Accept, Refuse, Take, Serve, queueVars, sqlVars
<1>1. TaskInv(c)'
  BY TaskUntouched
<1>2. Shape'
  <2>1. CASE (Accept(c) \/ Refuse(c)) /\ UNCHANGED busy
    BY <2>1 DEF Inv, Shape, Sockets
  <2>2. CASE Take(c)
    BY <2>2 DEF Inv, Shape
  <2>3. CASE Serve(c)
    BY <2>3 DEF Inv, Shape
  <2> QED
    BY <2>1, <2>2, <2>3
<1>3. Others(c)
  BY DEF Inv, Shape, Others
<1>4. WireInv(c) /\ sql[c] <= asked[c] /\ c \in DOMAIN ws
      /\ c \in DOMAIN out /\ c \in DOMAIN reply /\ c \in DOMAIN busy
      /\ out[c] \in Sent \cup {"none"}
  BY DEF Inv, Shape, ConnInv
<1>5. WireInv(c)'
  <2>1. CASE Accept(c) /\ UNCHANGED busy
    BY <1>4, <2>1 DEF WireInv
  <2>2. CASE Refuse(c) /\ UNCHANGED busy
    BY <1>4, <2>2 DEF WireInv
  <2>3. CASE Take(c)
    BY <1>4, <2>3 DEF WireInv
  <2>4. CASE Serve(c)
    BY <1>4, <2>4 DEF WireInv
  <2> QED
    BY <2>1, <2>2, <2>3, <2>4
<1>6. ConnInv(c)'
  BY <1>1, <1>4, <1>5 DEF ConnInv
<1> QED
  BY <1>2, <1>3, <1>6, OthersKeep

LEMMA TickStep ==
  ASSUME Inv, NEW c \in Conns, Tick(c), UNCHANGED busy PROVE Inv'
<1>1. QueueInv(c) /\ StepInv(c) /\ CallInv(c) /\ WireInv(c) /\ sql[c] <= asked[c]
  BY DEF Inv, ConnInv, TaskInv
<1>2. /\ ticks[c] \in Nat \ {0} /\ ticks' = [ticks EXCEPT ![c] = ticks[c] - 1]
      /\ UNCHANGED <<ws, out, reply, busy, kinds, sql, asked, forceFail, calls,
                     finished>>
  BY ConnFacts DEF Tick, sqlVars
<1>3. ticks \in [Conns -> Nat] /\ ticks[c] - 1 \in Nat
  BY <1>2 DEF Inv, Shape
<1>4. /\ ticks' \in [Conns -> Nat] /\ ticks'[c] <= Len(kinds[c])
      /\ \A d \in Conns \ {c} : ticks'[d] = ticks[d]
  <2>1. ticks[c] <= Len(kinds[c]) /\ Len(kinds[c]) \in Nat
    BY <1>1, ConnFacts DEF StepInv
  <2>2. ticks[c] - 1 <= Len(kinds[c])
    BY <1>2, <2>1
  <2> QED
    BY <1>2, <1>3, <2>2
<1>5. CASE Running(c) \/ pending[c] = <<>>
  <2>1. UNCHANGED <<pending, current, step>>
    BY <1>5 DEF Tick
  <2>2. Shape' /\ Others(c)
    BY <1>2, <1>4, <2>1 DEF Inv, Shape, Others
  <2>3. QueueInv(c)' /\ CallInv(c)' /\ WireInv(c)' /\ (sql[c] <= asked[c])'
    BY <1>1, <1>2, <2>1 DEF QueueInv, CallInv, WireInv, Begun
  <2>4. StepInv(c)'
    BY <1>1, <1>2, <1>4, <1>5, <2>1 DEF StepInv, Running
  <2> QED
    BY <2>2, <2>3, <2>4, OthersKeep DEF ConnInv, TaskInv
<1>6. CASE ~(Running(c) \/ pending[c] = <<>>)
  <2>1. /\ step[c] = "idle" /\ pending[c] # <<>>
        /\ current' = [current EXCEPT ![c] = Head(pending[c])]
        /\ pending' = [pending EXCEPT ![c] = Tail(pending[c])]
        /\ step' = [step EXCEPT ![c] = "posted"]
    BY <1>6 DEF Tick, Running
  <2>2. PICK q \in Seq(Nat) : q = pending[c]
    BY ConnFacts
  <2>3. PICK h \in Nat : h = Head(q)
    BY <2>1, <2>2, HeadTailProperties
  <2>4. PICK t \in Seq(Nat) : t = Tail(q)
    BY <2>1, <2>2, HeadTailProperties
  <2>5. PICK m \in Nat : m = Len(finished[c])
    BY ConnFacts
  <2>6. PICK n \in Nat : n = Len(t)
    BY <2>4, LenProperties
  <2>7. /\ h = q[1] /\ Len(q) = n + 1 /\ \A i \in 1..n : t[i] = q[i + 1]
    <3>1. Len(q) \in Nat \ {0} /\ Len(t) = Len(q) - 1
          /\ \A i \in 1..Len(t) : t[i] = q[i + 1]
      BY <2>1, <2>2, <2>4, HeadTailProperties, EmptySeq
    <3>2. h = q[1]
      BY <2>1, <2>2, <2>3, HeadTailProperties
    <3> QED
      BY <2>6, <3>1, <3>2
  <2>8. Begun(c) = m /\ current[c] = 0
    <3>1. current[c] = 0
      BY <1>1, <2>1 DEF StepInv
    <3> QED
      BY <2>5, <3>1 DEF Begun
  <2>9. \A i \in 1..(n + 1) : q[i] = m + i
    BY <1>1, <2>2, <2>7, <2>8 DEF QueueInv
  <2>10. h = m + 1 /\ \A i \in 1..n : t[i] = m + 1 + i
    BY <2>7, <2>9
  <2>11. /\ current' \in [Conns -> Nat] /\ current'[c] = h
         /\ pending' \in [Conns -> Seq(Nat)] /\ pending'[c] = t
         /\ step' \in [Conns -> Steps] /\ step'[c] = "posted"
         /\ \A d \in Conns \ {c} :
              /\ current'[d] = current[d] /\ pending'[d] = pending[d]
              /\ step'[d] = step[d]
    BY <2>1, <2>2, <2>3, <2>4 DEF Inv, Shape, Steps
  <2>12. Shape' /\ Others(c)
    BY <1>2, <1>4, <2>11 DEF Inv, Shape, Others
  <2>13. Begun(c)' = m + 1
    <3>1. current'[c] # 0 /\ Len(finished'[c]) = m
      BY <1>2, <2>5, <2>10, <2>11
    <3> QED
      BY <3>1 DEF Begun
  <2>14. QueueInv(c)'
    <3>1. Len(kinds'[c]) = m + 1 + n /\ Len(kinds'[c]) <= MaxTasks
      <4>1. Len(kinds[c]) = m + Len(q) /\ Len(kinds[c]) <= MaxTasks
        BY <1>1, <2>2, <2>8 DEF QueueInv
      <4> QED
        BY <1>2, <2>7, <4>1
    <3>2. \A i \in 1..m : finished'[c][i] = i
      BY <1>1, <1>2, <2>5 DEF QueueInv
    <3>3. Len(finished'[c]) = m /\ Len(pending'[c]) = n
      BY <1>2, <2>5, <2>6, <2>11
    <3> QED
      BY <2>10, <2>11, <2>13, <3>1, <3>2, <3>3 DEF QueueInv
  <2>15. StepInv(c)'
    BY <1>2, <1>4, <2>10, <2>11 DEF StepInv
  <2>16. CallInv(c)'
    <3>1. \A i \in Tasks : i > m => calls'[c][i] = <<>>
      BY <1>1, <1>2, <2>8 DEF CallInv
    <3>2. \A i \in Tasks :
            /\ Len(calls'[c][i]) <= 1
            /\ i <= Len(finished'[c]) /\ kinds'[c][i] # "create" =>
                 calls'[c][i] # <<>>
      BY <1>1, <1>2 DEF CallInv
    <3>3. \A i \in Tasks : (i > m + 1 \/ i = m + 1) => calls'[c][i] = <<>>
      BY <3>1 DEF Tasks
    <3> QED
      BY <2>10, <2>11, <2>13, <3>2, <3>3 DEF CallInv
  <2>17. WireInv(c)' /\ (sql[c] <= asked[c])'
    <3>1. out[c] \in Sent \cup {"none"}
      BY DEF Inv, Shape
    <3> QED
      BY <1>1, <1>2, <2>1, <2>11, <3>1 DEF WireInv, Sent
  <2> QED
    BY <2>12, <2>14, <2>15, <2>16, <2>17, OthersKeep DEF ConnInv, TaskInv
<1> QED
  BY <1>5, <1>6

\* A task is scheduled, by the page or by the constructor.
LEMMA CallSteps ==
  ASSUME Inv, NEW c \in Conns, UserCalls(c) \/ NewDb(c), UNCHANGED busy
  PROVE  Inv'
<1>1. /\ UNCHANGED <<out, reply, busy, current, step, sql, asked, forceFail,
                     calls, finished>>
      /\ ws' \in [Conns -> Sockets] /\ \A d \in Conns \ {c} : ws'[d] = ws[d]
      /\ ws'[c] = ws[c] \/ (ws[c] = "new" /\ ws'[c] = "connecting")
  <2>1. CASE UserCalls(c)
    BY <2>1 DEF UserCalls, sqlVars, Inv, Shape
  <2>2. CASE NewDb(c)
    BY <2>2 DEF NewDb, sqlVars, Inv, Shape, Sockets
  <2> QED
    BY <2>1, <2>2
<1>2. WireInv(c)' /\ (sql[c] <= asked[c])'
  BY <1>1 DEF Inv, ConnInv, WireInv
<1>3. CASE UNCHANGED <<kinds, pending, ticks>>
  <2>1. TaskInv(c)'
    BY <1>1, <1>3, TaskUntouched
  <2>2. Shape' /\ Others(c)
    BY <1>1, <1>3 DEF Inv, Shape, Others
  <2> QED
    BY <1>2, <2>1, <2>2, OthersKeep DEF ConnInv
<1>4. ASSUME NEW kind \in Kinds, RoomForTask(c),
             kinds' = [kinds EXCEPT ![c] = Append(@, kind)],
             pending' = [pending EXCEPT ![c] = Append(@, NewTask(c))],
             NEW t \in {ticks[c], ticks[c] + 1},
             ticks' = [ticks EXCEPT ![c] = t],
             step[c] = "idle" => t = ticks[c] + 1
      PROVE  Inv'
  <2>1. PICK k \in Seq(Kinds) : k = Append(kinds[c], kind)
    BY ConnFacts, AppendProperties
  <2>2. NewTask(c) \in Nat
    BY ConnFacts DEF NewTask
  <2>3. PICK q \in Seq(Nat) : q = Append(pending[c], NewTask(c))
    BY <2>2, ConnFacts, AppendProperties
  <2>4. t \in Nat
    BY ConnFacts
  <2>5. /\ kinds' \in [Conns -> Seq(Kinds)] /\ kinds'[c] = k
        /\ pending' \in [Conns -> Seq(Nat)] /\ pending'[c] = q
        /\ ticks' \in [Conns -> Nat] /\ ticks'[c] = t
        /\ \A d \in Conns \ {c} :
             /\ kinds'[d] = kinds[d] /\ pending'[d] = pending[d]
             /\ ticks'[d] = ticks[d]
    BY <1>4, <2>1, <2>3, <2>4 DEF Inv, Shape
  <2>6. Shape' /\ Others(c)
    BY <1>1, <2>5 DEF Inv, Shape, Others
  <2>7. /\ kinds'[c] = Append(kinds[c], kind)
        /\ pending'[c] = Append(pending[c], NewTask(c))
        /\ finished'[c] = finished[c] /\ current'[c] = current[c]
        /\ step'[c] = step[c] /\ calls'[c] = calls[c]
        /\ ticks'[c] \in {ticks[c], ticks[c] + 1}
        /\ step[c] = "idle" => ticks'[c] = ticks[c] + 1
    BY <1>1, <1>4, <2>1, <2>3, <2>5
  <2>8. TaskInv(c)'
    BY <1>4, <2>7, TaskAdded
  <2> QED
    BY <1>2, <2>6, <2>8, OthersKeep DEF ConnInv
<1>5. CASE UserCalls(c)
  <2>1. PICK kind \in {"tx", IF forceFail[c] THEN "forced" ELSE "changeVersion"} :
          kinds' = [kinds EXCEPT ![c] = Append(@, kind)]
    BY <1>5 DEF UserCalls
  <2>2. kind \in Kinds
    BY DEF Kinds
  <2>3. PICK t \in {ticks[c], ticks[c] + 1} :
          /\ t = IF Running(c) THEN ticks[c] ELSE ticks[c] + 1
          /\ ticks' = [ticks EXCEPT ![c] = t]
    BY <1>5 DEF UserCalls, Running
  <2>4. step[c] = "idle" => t = ticks[c] + 1
    BY <2>3 DEF Running
  <2>5. RoomForTask(c) /\ pending' = [pending EXCEPT ![c] = Append(@, NewTask(c))]
    BY <1>5 DEF UserCalls
  <2> QED
    BY <1>4, <2>1, <2>2, <2>3, <2>4, <2>5
<1>6. CASE NewDb(c)
  <2>1. CASE UNCHANGED <<kinds, pending, ticks>>
    BY <1>3, <2>1
  <2>2. CASE ~ UNCHANGED <<kinds, pending, ticks>>
    <3>1. /\ RoomForTask(c)
          /\ kinds' = [kinds EXCEPT ![c] = Append(@, "create")]
          /\ pending' = [pending EXCEPT ![c] = Append(@, NewTask(c))]
          /\ ticks' = [ticks EXCEPT ![c] = @ + 1]
      BY <1>6, <2>2 DEF NewDb
    <3>2. PICK t \in {ticks[c], ticks[c] + 1} :
            t = ticks[c] + 1 /\ ticks' = [ticks EXCEPT ![c] = t]
      BY <3>1
    <3>3. "create" \in Kinds
      BY DEF Kinds
    <3> QED
      BY <1>4, <3>1, <3>2, <3>3
  <2> QED
    BY <2>1, <2>2
<1> QED
  BY <1>5, <1>6

LEMMA UserSqlStep ==
  ASSUME Inv, NEW c \in Conns, UserSql(c), UNCHANGED busy PROVE Inv'
<1>1. TaskInv(c)' /\ WireInv(c)'
  BY TaskUntouched DEF UserSql, queueVars, Inv, ConnInv, WireInv
<1>2. PICK a \in Nat : a = asked[c] /\ a + 1 \in 0..MaxSql
  BY PageAssumption DEF UserSql, Inv, Shape
<1>3. PICK b \in Nat : b = sql[c] /\ b <= a
  BY <1>2 DEF Inv, Shape, ConnInv
<1>4. /\ asked' \in [Conns -> 0..MaxSql] /\ sql' \in [Conns -> Nat]
      /\ asked'[c] = a + 1 /\ sql'[c] = b + 1
      /\ \A d \in Conns \ {c} : asked'[d] = asked[d] /\ sql'[d] = sql[d]
  BY <1>2, <1>3 DEF UserSql, Inv, Shape
<1>5. Shape' /\ Others(c)
  BY <1>4 DEF UserSql, queueVars, Inv, Shape, Others
<1>6. sql'[c] <= asked'[c]
  BY <1>2, <1>3, <1>4
<1> QED
  BY <1>1, <1>5, <1>6, OthersKeep DEF ConnInv

LEMMA UnloadStep ==
  ASSUME Inv, NEW c \in Conns, Unload(c), UNCHANGED busy PROVE Inv'
<1>1. /\ UNCHANGED <<out, reply, busy, kinds, pending, ticks, current, sql,
                     asked, forceFail, calls, finished>>
      /\ ws' \in [Conns -> Sockets] /\ step' \in [Conns -> Steps]
      /\ ws'[c] \in {"closed", "failed"} /\ step'[c] = "unloaded"
      /\ \A d \in Conns \ {c} : ws'[d] = ws[d] /\ step'[d] = step[d]
  BY DEF Unload, queueVars, sqlVars, Inv, Shape, Sockets, Steps
<1>2. Shape' /\ Others(c)
  BY <1>1 DEF Inv, Shape, Others
<1>3. QueueInv(c) /\ StepInv(c) /\ CallInv(c) /\ sql[c] <= asked[c]
  BY DEF Inv, ConnInv, TaskInv
<1>4. QueueInv(c)' /\ StepInv(c)' /\ CallInv(c)' /\ (sql[c] <= asked[c])'
  BY <1>1, <1>3 DEF QueueInv, StepInv, CallInv, Begun
<1>5. WireInv(c)'
  BY <1>1 DEF WireInv, Sent
<1> QED
  BY <1>2, <1>4, <1>5, OthersKeep DEF ConnInv, TaskInv

\* A step of the task is over: what is left to show is the wire and the
\* statements.
LEMMA TaskStep ==
  ASSUME Inv, NEW c \in Conns, TaskInv(c)', TaskFrame(c),
         UNCHANGED <<busy, ticks>>,
         /\ ws' \in [Conns -> Sockets] /\ reply' \in [Conns -> {"none", "ok", "error"}]
         /\ kinds' \in [Conns -> Seq(Kinds)] /\ forceFail' \in [Conns -> BOOLEAN]
         /\ sql' \in [Conns -> Nat] /\ asked' \in [Conns -> 0..MaxSql]
         /\ \A d \in Conns \ {c} :
              /\ ws'[d] = ws[d] /\ reply'[d] = reply[d] /\ kinds'[d] = kinds[d]
              /\ sql'[d] = sql[d] /\ asked'[d] = asked[d],
         WireInv(c)', sql'[c] <= asked'[c]
  PROVE  Inv'
<1>1. Shape'
  BY DEF Inv, Shape, TaskFrame
<1>2. Others(c)
  BY DEF Others, TaskFrame
<1>3. ConnInv(c)'
  BY DEF ConnInv
<1> QED
  BY <1>1, <1>2, <1>3, OthersKeep

\* The same, when the task alone has changed.
LEMMA TaskOnly ==
  ASSUME Inv, NEW c \in Conns, TaskInv(c)', TaskFrame(c), WireInv(c)',
         UNCHANGED <<busy, ticks, ws, reply, kinds, sql, asked>>,
         forceFail' \in [Conns -> BOOLEAN]
  PROVE  Inv'
<1>1. sql'[c] <= asked'[c]
  BY DEF Inv, ConnInv
<1> QED
  BY <1>1, TaskStep DEF Inv, Shape

\* A task that takes no answer leaves a wire that fits.
LEMMA QuietWire ==
  ASSUME Inv, NEW c \in Conns, step[c] \notin Sent, step[c] # "unloaded",
         step'[c] \notin Sent, step'[c] # "unloaded",
         UNCHANGED <<busy, ws, reply>>, out'[c] = out[c]
  PROVE  WireInv(c)'
<1>1. WireInv(c) /\ out[c] \in Sent \cup {"none"}
  BY DEF Inv, ConnInv, Shape
<1> QED
  BY <1>1 DEF WireInv

LEMMA RunForcedStep ==
  ASSUME Inv, NEW c \in Conns, RunForced(c), UNCHANGED busy PROVE Inv'
<1>1. /\ step[c] = "posted" /\ Settle(c, "error") /\ Finish(c, pending[c])
      /\ UNCHANGED <<ws, out, reply, kinds, ticks, sql, asked, forceFail>>
  BY DEF RunForced, sqlVars
<1>2. step[c] \notin {"idle", "unloaded", "abort"} /\ step[c] \notin Sent
  BY <1>1 DEF Sent
<1>3. FALSE \in BOOLEAN /\ Fail(c, FALSE)
  BY <1>1 DEF Fail
<1>4. TaskInv(c)' /\ TaskFrame(c) /\ out' = out /\ step'[c] \in {"idle", "posted"}
  BY <1>1, <1>2, <1>3, FailResult
<1>5. WireInv(c)'
  BY <1>1, <1>2, <1>4, QuietWire DEF Sent
<1> QED
  BY <1>1, <1>4, <1>5, TaskOnly DEF Inv, Shape

LEMMA RunTxStep ==
  ASSUME Inv, NEW c \in Conns, RunTx(c), UNCHANGED busy PROVE Inv'
<1>1. /\ step[c] = "posted" /\ step' = [step EXCEPT ![c] = "connect"]
      /\ sql' = [sql EXCEPT ![c] = 0] /\ asked' = [asked EXCEPT ![c] = 0]
      /\ UNCHANGED <<ws, out, reply, kinds, ticks, forceFail, calls, pending,
                     current, finished>>
  BY DEF RunTx, queueVars
<1>2. /\ step' \in [Conns -> Steps] /\ step'[c] = "connect"
      /\ sql' \in [Conns -> Nat] /\ sql'[c] = 0
      /\ asked' \in [Conns -> 0..MaxSql] /\ asked'[c] = 0
      /\ \A d \in Conns \ {c} :
           step'[d] = step[d] /\ sql'[d] = sql[d] /\ asked'[d] = asked[d]
  BY <1>1, PageAssumption DEF Inv, Shape, Steps
<1>3. TaskFrame(c)
  BY <1>1, <1>2 DEF TaskFrame, Inv, Shape
<1>4. TaskInv(c)'
  <2>1. QueueInv(c) /\ StepInv(c) /\ CallInv(c)
    BY DEF Inv, ConnInv, TaskInv
  <2> QED
    BY <1>1, <1>2, <2>1 DEF TaskInv, QueueInv, StepInv, CallInv, Begun
<1>5. WireInv(c)'
  BY <1>1, <1>2, QuietWire DEF Sent
<1>6. sql'[c] <= asked'[c]
  BY <1>2
<1> QED
  BY <1>1, <1>2, <1>3, <1>4, <1>5, <1>6, TaskStep DEF Inv, Shape

LEMMA ConnectedStep ==
  ASSUME Inv, NEW c \in Conns, Connected(c), UNCHANGED busy PROVE Inv'
<1>1. /\ step[c] = "connect"
      /\ \/ ws[c] \in {"open", "closed"} /\ Advance(c, "begin")
         \/ ws[c] = "failed" /\ Fail(c, FALSE)
      /\ UNCHANGED <<ws, reply, kinds, ticks, sql, asked, forceFail>>
  BY DEF Connected, sqlVars
<1>2. step[c] \notin {"idle", "unloaded", "abort"} /\ step[c] \notin Sent
  BY <1>1 DEF Sent
<1>3. CASE Advance(c, "begin")
  <2>1. "begin" \in Sent \ {"abort"}
    BY DEF Sent
  <2>2. /\ TaskInv(c)' /\ TaskFrame(c)
        /\ ws[c] = "open" => out'[c] = "begin" /\ step'[c] = "begin"
        /\ ws[c] # "open" => out' = out /\ step'[c] \in {"idle", "posted"}
    BY <1>1, <1>2, <1>3, <2>1, AdvanceResult
  <2>3. WireInv(c)'
    <3>1. CASE ws[c] = "open"
      BY <1>1, <1>2, <2>2, <3>1 DEF Inv, ConnInv, WireInv, Sent
    <3>2. CASE ws[c] # "open"
      BY <1>1, <1>2, <2>2, <3>2, QuietWire DEF Sent
    <3> QED
      BY <3>1, <3>2
  <2> QED
    BY <1>1, <2>2, <2>3, TaskOnly DEF Inv, Shape
<1>4. CASE Fail(c, FALSE)
  <2>1. FALSE \in BOOLEAN
    OBVIOUS
  <2>2. TaskInv(c)' /\ TaskFrame(c) /\ out' = out /\ step'[c] \in {"idle", "posted"}
    BY <1>1, <1>2, <1>4, <2>1, FailResult
  <2>3. WireInv(c)'
    BY <1>1, <1>2, <2>2, QuietWire DEF Sent
  <2> QED
    BY <1>1, <2>2, <2>3, TaskOnly DEF Inv, Shape
<1> QED
  BY <1>1, <1>3, <1>4

LEMMA SocketClosedStep ==
  ASSUME Inv, NEW c \in Conns, SocketClosed(c), UNCHANGED busy PROVE Inv'
<1>1. /\ ws[c] = "open" /\ ws' = [ws EXCEPT ![c] = "closed"]
      /\ UNCHANGED <<reply, kinds, ticks, sql, asked, forceFail>>
  BY DEF SocketClosed, sqlVars
<1>2. /\ ws' \in [Conns -> Sockets] /\ ws'[c] = "closed"
      /\ \A d \in Conns \ {c} : ws'[d] = ws[d]
  BY <1>1 DEF Inv, Shape, Sockets
<1>3. sql'[c] <= asked'[c]
  BY <1>1 DEF Inv, ConnInv
<1>4. ASSUME TaskInv(c)', TaskFrame(c), step'[c] \notin Sent PROVE Inv'
  <2>1. WireInv(c)'
    BY <1>2, <1>4 DEF WireInv
  <2> QED
    BY <1>1, <1>2, <1>3, <1>4, <2>1, TaskStep DEF Inv, Shape
<1>5. CASE step[c] \in Sent \ {"abort"} /\ Fail(c, FALSE)
  <2>1. step[c] \notin {"idle", "unloaded", "abort"} /\ FALSE \in BOOLEAN
    BY <1>5 DEF Sent
  <2>2. TaskInv(c)' /\ TaskFrame(c) /\ step'[c] \in {"idle", "posted"}
    BY <1>1, <1>5, <2>1, FailResult
  <2> QED
    BY <1>4, <2>2 DEF Sent
<1>6. CASE step[c] = "abort" /\ Finish(c, pending[c]) /\ UNCHANGED <<out, calls>>
  <2>1. step[c] \notin {"idle", "unloaded"} /\ current[c] \in Tasks
    BY <1>6, CurrentTask
  <2>2. Len(calls[c][current[c]]) <= 1 /\ calls[c][current[c]] # <<>>
    BY <1>6, <2>1 DEF Inv, ConnInv, TaskInv, CallInv
  <2>3. calls' \in [Conns -> [Tasks -> Seq(Outcomes)]]
    BY <1>6 DEF Inv, Shape
  <2>4. TaskInv(c)' /\ TaskFrame(c) /\ step'[c] \in {"idle", "posted"}
    BY <1>1, <1>6, <2>1, <2>2, <2>3, EndResult
  <2> QED
    BY <1>4, <2>4 DEF Sent
<1>7. CASE step[c] \notin Sent
           /\ UNCHANGED <<out, calls, pending, current, finished, step>>
  <2>1. TaskInv(c)'
    BY <1>1, <1>7, TaskUntouched
  <2>2. TaskFrame(c)
    BY <1>7 DEF TaskFrame, Inv, Shape
  <2> QED
    BY <1>4, <1>7, <2>1, <2>2
<1> QED
  BY <1>5, <1>6, <1>7 DEF SocketClosed

\* What an answer leaves of the wire before its task has gone on.
LEMMA AnsweredWire ==
  ASSUME Inv, NEW c \in Conns, ws[c] = "open", reply[c] # "none",
         reply' = [reply EXCEPT ![c] = "none"], UNCHANGED <<busy, ws>>,
         \/ out'[c] = step'[c] /\ step'[c] \in Sent
         \/ out'[c] = out[c] /\ step'[c] \in {"idle", "posted"}
  PROVE  /\ WireInv(c)' /\ reply' \in [Conns -> {"none", "ok", "error"}]
         /\ \A d \in Conns \ {c} : reply'[d] = reply[d]
<1>1. WireInv(c) /\ reply \in [Conns -> {"none", "ok", "error"}]
      /\ busy[c] \in BOOLEAN
  BY DEF Inv, Shape, ConnInv
<1>2. out[c] = "none" /\ ~busy[c]
  BY <1>1 DEF WireInv
<1>3. reply'[c] = "none" /\ reply' \in [Conns -> {"none", "ok", "error"}]
      /\ \A d \in Conns \ {c} : reply'[d] = reply[d]
  BY <1>1
<1>4. WireInv(c)'
  BY <1>2, <1>3 DEF WireInv, Sent
<1> QED
  BY <1>3, <1>4

\* The step of a task on an answer, with the statements it leaves.
LEMMA AnsweredTask ==
  ASSUME Inv, NEW c \in Conns, Answered(c), UNCHANGED busy,
         TaskInv(c)', TaskFrame(c),
         \/ out'[c] = step'[c] /\ step'[c] \in Sent
         \/ out'[c] = out[c] /\ step'[c] \in {"idle", "posted"},
         sql' \in [Conns -> Nat], asked' \in [Conns -> 0..MaxSql],
         \A d \in Conns \ {c} : sql'[d] = sql[d] /\ asked'[d] = asked[d],
         sql'[c] <= asked'[c]
  PROVE  Inv'
<1>1. /\ ws[c] = "open" /\ reply[c] # "none"
      /\ reply' = [reply EXCEPT ![c] = "none"]
      /\ UNCHANGED <<ws, kinds, ticks, forceFail>>
  BY DEF Answered
<1>2. /\ WireInv(c)' /\ reply' \in [Conns -> {"none", "ok", "error"}]
      /\ \A d \in Conns \ {c} : reply'[d] = reply[d]
  BY <1>1, AnsweredWire
<1> QED
  BY <1>1, <1>2, TaskStep DEF Inv, Shape

\* The statements are left alone.
LEMMA SqlAlone ==
  ASSUME Inv, NEW c \in Conns, UNCHANGED sqlVars
  PROVE  /\ sql' \in [Conns -> Nat] /\ asked' \in [Conns -> 0..MaxSql]
         /\ \A d \in Conns \ {c} : sql'[d] = sql[d] /\ asked'[d] = asked[d]
         /\ sql'[c] <= asked'[c]
  BY DEF Inv, Shape, ConnInv, sqlVars

LEMMA CallbackStep ==
  ASSUME Inv, NEW c \in Conns, Answered(c), UNCHANGED busy,
         step[c] \in Sent \ {"abort"}, Callback(c)
  PROVE  Inv'
<1>1. step[c] \notin {"idle", "unloaded", "abort"}
  BY DEF Sent
<1>2. ws[c] = "open" /\ kinds'[c] = kinds[c] /\ ticks'[c] = ticks[c]
  BY DEF Answered
<1>3. ASSUME NEW more \in 0..(MaxSql - asked[c]),
             asked' = [asked EXCEPT ![c] = @ + more],
             NextStatement(c, sql[c] + more)
      PROVE  Inv'
  <2>1. PICK a \in Nat : a = asked[c] /\ a <= MaxSql
    BY PageAssumption DEF Inv, Shape
  <2>2. PICK b \in Nat : b = sql[c] /\ b <= a
    BY <2>1 DEF Inv, Shape, ConnInv
  <2>3. a + more \in 0..MaxSql /\ more \in Nat
    BY <1>3, <2>1, PageAssumption
  <2>4. /\ asked' \in [Conns -> 0..MaxSql] /\ asked'[c] = a + more
        /\ \A d \in Conns \ {c} : asked'[d] = asked[d]
    BY <1>3, <2>1, <2>3 DEF Inv, Shape
  <2>5. CASE b + more > 0
    <3>1. Advance(c, "exec") /\ sql' = [sql EXCEPT ![c] = b + more - 1]
      BY <1>3, <2>2, <2>5 DEF NextStatement
    <3>2. "exec" \in Sent \ {"abort"}
      BY DEF Sent
    <3>3. TaskInv(c)' /\ TaskFrame(c) /\ out'[c] = "exec" /\ step'[c] = "exec"
      BY <1>1, <1>2, <3>1, <3>2, AdvanceResult
    <3>4. b + more - 1 \in Nat /\ b + more - 1 <= a + more
      BY <2>2, <2>3, <2>5
    <3>5. /\ sql' \in [Conns -> Nat] /\ sql'[c] <= asked'[c]
          /\ \A d \in Conns \ {c} : sql'[d] = sql[d]
      BY <2>4, <3>1, <3>4 DEF Inv, Shape
    <3> QED
      BY <2>4, <3>2, <3>3, <3>5, AnsweredTask
  <2>6. CASE ~(b + more > 0)
    <3>1. Advance(c, "commit") /\ sql' = sql
      BY <1>3, <2>2, <2>6 DEF NextStatement
    <3>2. "commit" \in Sent \ {"abort"}
      BY DEF Sent
    <3>3. TaskInv(c)' /\ TaskFrame(c) /\ out'[c] = "commit" /\ step'[c] = "commit"
      BY <1>1, <1>2, <3>1, <3>2, AdvanceResult
    <3>4. b <= a + more
      BY <2>2, <2>3
    <3>5. /\ sql' \in [Conns -> Nat] /\ sql'[c] <= asked'[c]
          /\ \A d \in Conns \ {c} : sql'[d] = sql[d]
      BY <2>2, <2>4, <3>1, <3>4 DEF Inv, Shape
    <3> QED
      BY <2>4, <3>2, <3>3, <3>5, AnsweredTask
  <2> QED
    BY <2>5, <2>6
<1>4. ASSUME Fail(c, TRUE), UNCHANGED sqlVars PROVE Inv'
  <2>1. TRUE \in BOOLEAN
    OBVIOUS
  <2>2. TaskInv(c)' /\ TaskFrame(c) /\ out'[c] = "abort" /\ step'[c] = "abort"
    BY <1>1, <1>2, <1>4, <2>1, FailResult
  <2>3. out'[c] = step'[c] /\ step'[c] \in Sent
    BY <2>2 DEF Sent
  <2> QED
    BY <1>4, <2>2, <2>3, SqlAlone, AnsweredTask
<1> QED
  BY <1>3, <1>4 DEF Callback

LEMMA AnsweredStep ==
  ASSUME Inv, NEW c \in Conns, Answered(c), UNCHANGED busy PROVE Inv'
<1>1. /\ step[c] \in Sent /\ step[c] \notin {"idle", "unloaded"}
      /\ ws[c] = "open" /\ kinds'[c] = kinds[c] /\ ticks'[c] = ticks[c]
  BY DEF Answered, Sent
<1>2. current[c] \in Tasks
  BY <1>1, CurrentTask
<1>3. CASE Callback(c) /\ step[c] # "abort"
  BY <1>1, <1>3, CallbackStep
<1>4. CASE Advance(c, "changeVersion") /\ UNCHANGED sqlVars /\ step[c] # "abort"
  <2>1. "changeVersion" \in Sent \ {"abort"}
    BY DEF Sent
  <2>2. /\ TaskInv(c)' /\ TaskFrame(c)
        /\ out'[c] = "changeVersion" /\ step'[c] = "changeVersion"
    BY <1>1, <1>4, <2>1, AdvanceResult
  <2> QED
    BY <1>4, <2>1, <2>2, SqlAlone, AnsweredTask
<1>5. CASE AfterCommit(c) /\ step[c] # "abort"
  <2>1. /\ Settle(c, "success") /\ Finish(c, pending[c]) /\ out' = out
        /\ UNCHANGED sqlVars /\ "success" \in Outcomes
    BY <1>5 DEF AfterCommit, Outcomes
  <2>2. /\ calls' \in [Conns -> [Tasks -> Seq(Outcomes)]]
        /\ \A d \in Conns \ {c} : calls'[d] = calls[d]
        /\ \A n \in Tasks : n # current[c] => calls'[c][n] = calls[c][n]
        /\ Len(calls'[c][current[c]]) <= 1 /\ calls'[c][current[c]] # <<>>
    BY <1>1, <1>5, <2>1, SettleResult
  <2>3. TaskInv(c)' /\ TaskFrame(c) /\ step'[c] \in {"idle", "posted"}
    BY <1>1, <2>1, <2>2, EndResult
  <2> QED
    BY <2>1, <2>3, SqlAlone, AnsweredTask
<1>6. CASE Fail(c, TRUE) /\ UNCHANGED sqlVars /\ step[c] # "abort"
  <2>1. TRUE \in BOOLEAN /\ "abort" \in Sent
    BY DEF Sent
  <2>2. TaskInv(c)' /\ TaskFrame(c) /\ out'[c] = "abort" /\ step'[c] = "abort"
    BY <1>1, <1>6, <2>1, FailResult
  <2> QED
    BY <1>6, <2>1, <2>2, SqlAlone, AnsweredTask
<1>7. CASE /\ step[c] = "abort" /\ Finish(c, pending[c])
           /\ UNCHANGED <<out, calls, sqlVars>>
  <2>1. Len(calls[c][current[c]]) <= 1 /\ calls[c][current[c]] # <<>>
    BY <1>2, <1>7 DEF Inv, ConnInv, TaskInv, CallInv
  <2>2. calls' \in [Conns -> [Tasks -> Seq(Outcomes)]]
    BY <1>7 DEF Inv, Shape
  <2>3. TaskInv(c)' /\ TaskFrame(c) /\ step'[c] \in {"idle", "posted"}
    BY <1>1, <1>7, <2>1, <2>2, EndResult
  <2> QED
    BY <1>7, <2>3, SqlAlone, AnsweredTask
<1> QED
  BY <1>3, <1>4, <1>5, <1>6, <1>7 DEF Answered

\* The creation callback has scheduled the tasks it called for.
LEMMA RunCreationStep ==
  ASSUME Inv, NEW c \in Conns, RunCreation(c), UNCHANGED busy PROVE Inv'
<1>1. /\ step[c] = "posted" /\ kinds[c][current[c]] = "create"
      /\ UNCHANGED <<ws, out, reply, ticks, sql, asked, calls>>
      /\ forceFail' \in [Conns -> BOOLEAN]
  BY DEF RunCreation, sqlVars, Inv, Shape
<1>2. step[c] \notin {"idle", "unloaded"} /\ step[c] \notin Sent
  BY <1>1 DEF Sent
<1>3. PICK called \in BoundedSeq({"tx", "forced"}, MaxTasks - Len(kinds[c])) :
        /\ kinds' = [kinds EXCEPT ![c] = @ \o called]
        /\ Finish(c, pending[c] \o [i \in 1..Len(called) |-> Len(kinds[c]) + i])
  BY DEF RunCreation
<1>4. PICK n \in Nat : n = Len(kinds[c])
  BY ConnFacts
<1>5. PICK p \in Nat : p = Len(pending[c])
  BY ConnFacts
<1>6. PICK k \in Nat : k = current[c]
  BY ConnFacts
<1>7. /\ n = k + p /\ n <= MaxTasks /\ k \in Tasks
      /\ \A i \in 1..p : pending[c][i] = k + i
  BY <1>2, <1>4, <1>5, <1>6, CurrentTask, QueueBehind
<1>8. PICK m \in 0..(MaxTasks - n) : called \in [1..m -> {"tx", "forced"}]
  BY <1>4 DEF BoundedSeq, SeqOf
<1>9. m \in Nat /\ n + m <= MaxTasks
  BY <1>8, <1>4, PageAssumption
<1>10. called \in Seq(Kinds) /\ Len(called) = m
  <2>1. called \in [1..m -> Kinds]
    BY <1>8 DEF Kinds
  <2> QED
    BY <1>9, <2>1
<1>11. PICK more : more = [i \in 1..m |-> n + i]
  OBVIOUS
<1>12. more \in Seq(Nat) /\ Len(more) = m /\ \A i \in 1..m : more[i] = n + i
  <2>1. more \in [1..m -> Nat]
    BY <1>9, <1>11
  <2> QED
    BY <1>9, <1>11, <2>1
<1>13. PICK queue \in Seq(Nat) : queue = pending[c] \o more
  BY <1>12, ConcatProperties, ConnFacts
<1>14. /\ Len(queue) = p + m
       /\ \A i \in 1..p : queue[i] = pending[c][i]
       /\ \A i \in 1..m : queue[p + i] = more[i]
  <2>1. pending[c] \in Seq(Nat) /\ Len(pending[c]) = p
    BY <1>5, ConnFacts
  <2>2. PICK q \in Seq(Nat) : q = pending[c] /\ p = Len(q)
    BY <2>1
  <2>3. more \in Seq(Nat) /\ m \in Nat /\ m = Len(more) /\ queue = q \o more
    BY <1>9, <1>12, <1>13, <2>2
  <2>4. Len(queue) = p + m
    BY <2>2, <2>3, ConcatParts
  <2>5. \A i \in 1..p : queue[i] = q[i]
    BY <1>9, <1>12, <2>2, <2>3, ConcatParts
  <2>6. \A i \in 1..m : queue[p + i] = more[i]
    BY <1>9, <1>12, <2>2, <2>3, ConcatParts
  <2> QED
    BY <2>2, <2>4, <2>5, <2>6
<1>15. \A i \in 1..Len(queue) : queue[i] = k + i
  <2> SUFFICES ASSUME NEW i \in 1..(p + m) PROVE queue[i] = k + i
    BY <1>14
  <2>1. CASE i \in 1..p
    BY <1>7, <1>14, <2>1
  <2>2. CASE i \notin 1..p
    <3>1. PICK j \in 1..m : i = p + j
      <4>1. i - p \in 1..m /\ i = p + (i - p)
        BY <1>9, <2>2
      <4> QED
        BY <4>1
    <3>2. queue[i] = n + j
      BY <1>12, <1>14, <3>1
    <3> QED
      BY <1>7, <1>9, <3>1, <3>2
  <2> QED
    BY <2>1, <2>2
<1>16. PICK ks \in Seq(Kinds) : ks = kinds[c] \o called
  BY <1>10, ConcatProperties, ConnFacts
<1>17. /\ Len(ks) = n + m
       /\ \A i \in 1..n : ks[i] = kinds[c][i]
  <2>1. /\ Len(ks) = n + m
        /\ \A i \in 1..(n + m) : ks[i] = IF i <= n THEN kinds[c][i] ELSE called[i - n]
    BY ZenonT(60), <1>4, <1>10, <1>16, ConcatProperties, ConnFacts
  <2> QED
    BY <1>9, <2>1
<1>18. /\ kinds' \in [Conns -> Seq(Kinds)] /\ kinds'[c] = ks
       /\ \A d \in Conns \ {c} : kinds'[d] = kinds[d]
  BY <1>3, <1>16 DEF Inv, Shape
<1>19. Finish(c, queue)
  <2>1. [i \in 1..Len(called) |-> Len(kinds[c]) + i] = more
    BY <1>4, <1>10, <1>11
  <2> QED
    BY <1>3, <1>13, <2>1
<1>20. TaskInv(c)' /\ step'[c] \in {"idle", "posted"}
  <2>1. Len(kinds'[c]) = current[c] + Len(queue) /\ Len(kinds'[c]) <= MaxTasks
        /\ Len(kinds[c]) <= Len(kinds'[c])
    BY <1>4, <1>6, <1>7, <1>9, <1>14, <1>17, <1>18
  <2>2. \A i \in 1..Len(kinds[c]) : kinds'[c][i] = kinds[c][i]
    BY <1>4, <1>17, <1>18
  <2>3. \A i \in 1..Len(queue) : queue[i] = current[c] + i
    BY <1>6, <1>15
  <2>4. Len(calls'[c][current[c]]) <= 1
        /\ \A i \in Tasks : i # current[c] => calls'[c][i] = calls[c][i]
    BY <1>1, <1>6, <1>7 DEF Inv, ConnInv, TaskInv, CallInv
  <2>5. ticks'[c] = ticks[c]
    BY <1>1
  <2> QED
    BY <1>1, <1>2, <1>19, <2>1, <2>2, <2>3, <2>4, <2>5, TaskEnds
<1>21. TaskFrame(c)
  BY ZenonT(60), <1>1, <1>19, FinishResult DEF TaskFrame, Inv, Shape
<1>22. WireInv(c)'
  BY <1>1, <1>2, <1>20, QuietWire DEF Sent
<1>23. sql'[c] <= asked'[c]
  BY <1>1 DEF Inv, ConnInv
<1> QED
  BY <1>1, <1>18, <1>20, <1>21, <1>22, <1>23, TaskStep DEF Inv, Shape

-----------------------------------------------------------------------------
LEMMA InvInit ==
  ASSUME Init PROVE Inv
<1>1. <<>> \in Seq(Nat) /\ <<>> \in Seq(Kinds) /\ <<>> \in Seq(Outcomes)
      /\ Len(<<>>) = 0
  BY EmptySeq
<1>2. Shape
  BY <1>1, PageAssumption DEF Init, Shape, Sockets, Steps
<1> SUFFICES ASSUME NEW c \in Conns PROVE ConnInv(c)
  BY <1>2 DEF Inv
<1>3. Begun(c) = 0
  BY <1>1 DEF Init, Begun
<1>4. QueueInv(c)
  BY <1>1, <1>3, PageAssumption DEF Init, QueueInv
<1>5. StepInv(c) /\ WireInv(c) /\ sql[c] <= asked[c]
  BY <1>1 DEF Init, StepInv, WireInv, Sent
<1>6. CallInv(c)
  BY <1>1 DEF Init, CallInv, Tasks
<1> QED
  BY <1>4, <1>5, <1>6 DEF ConnInv, TaskInv

LEMMA InvStep ==
  ASSUME Inv, [Next]_<<pageVars, busy>> PROVE Inv'
<1>1. CASE UNCHANGED <<pageVars, busy>>
  BY <1>1 DEF pageVars, Inv, Shape, ConnInv, TaskInv, QueueInv, StepInv, CallInv,
              WireInv, Begun
<1>2. ASSUME NEW c \in Conns, PageStep(c), UNCHANGED busy PROVE Inv'
  BY <1>2, TickStep, RunCreationStep, RunForcedStep, RunTxStep, ConnectedStep,
     AnsweredStep, CallSteps, UserSqlStep, UnloadStep DEF PageStep, Turn
<1>3. ASSUME NEW c \in Conns, WireStep(c), UNCHANGED busy PROVE Inv'
  BY <1>3, WireSteps, SocketClosedStep DEF WireStep
<1>4. ASSUME NEW c \in Conns, Take(c) \/ Serve(c) PROVE Inv'
  BY <1>4, WireSteps
<1> QED
  BY <1>1, <1>2, <1>3, <1>4 DEF Next

LEMMA Invariance == Spec => []Inv
<1>1. Init => Inv
  BY InvInit
<1>2. Inv /\ [Next]_<<pageVars, busy>> => Inv'
  BY InvStep
<1> QED
  BY <1>1, <1>2, PTL DEF Spec

-----------------------------------------------------------------------------
(* What the invariant says                                                 *)

LEMMA FinishedCount ==
  ASSUME Inv, NEW c \in Conns
  PROVE  Len(finished[c]) <= Begun(c) /\ Len(finished[c]) <= MaxTasks
<1>1. PICK m \in Nat : m = Len(finished[c])
  BY ConnFacts
<1>2. Begun(c) = m \/ Begun(c) = m + 1
  <2>1. CASE current[c] = 0
    <3>1. Begun(c) = Len(finished[c]) + 0
      BY <2>1 DEF Begun
    <3> QED
      BY <1>1, <3>1
  <2>2. CASE current[c] # 0
    <3>1. Begun(c) = Len(finished[c]) + 1
      BY <2>2 DEF Begun
    <3> QED
      BY <1>1, <3>1
  <2> QED
    BY <2>1, <2>2
<1>3. m <= Begun(c)
  BY <1>2
<1>4. m <= MaxTasks
  BY <1>2, ConnFacts, PageAssumption
<1> QED
  BY <1>1, <1>3, <1>4

LEMMA InvTypeOK ==
  ASSUME Inv PROVE TypeOK
<1>1. ASSUME NEW c \in Conns PROVE pending[c] \in Seq(Tasks)
  <2>1. PICK p \in Nat : p = Len(pending[c])
    BY ConnFacts
  <2>2. PICK b \in Nat : b = Begun(c)
    BY ConnFacts
  <2>3. /\ b + p <= MaxTasks /\ \A i \in 1..p : pending[c][i] = b + i
    BY <1>1, <2>1, <2>2 DEF Inv, ConnInv, TaskInv, QueueInv
  <2>4. \A i \in 1..p : pending[c][i] \in Tasks
    BY <2>3, PageAssumption DEF Tasks
  <2>5. pending[c] \in [1..p -> Nat]
    BY <1>1, <2>1, ConnFacts, LenProperties
  <2> QED
    BY <2>4, <2>5
<1>2. ASSUME NEW c \in Conns PROVE finished[c] \in Seq(Tasks)
  <2>1. PICK m \in Nat : m = Len(finished[c])
    BY ConnFacts
  <2>2. m <= MaxTasks
    BY <1>2, <2>1, FinishedCount
  <2>3. \A i \in 1..m : finished[c][i] = i
    BY <1>2, <2>1 DEF Inv, ConnInv, TaskInv, QueueInv
  <2>4. \A i \in 1..m : finished[c][i] \in Tasks
    BY <2>2, <2>3, PageAssumption DEF Tasks
  <2>5. finished[c] \in [1..m -> Nat]
    BY <1>2, <2>1, ConnFacts, LenProperties
  <2>6. finished[c] \in [1..m -> Tasks]
    BY <2>4, <2>5
  <2> QED
    BY <2>6
<1>3. ASSUME NEW c \in Conns
      PROVE  ticks[c] \in 0..MaxTasks /\ current[c] \in 0..MaxTasks
             /\ sql[c] \in 0..MaxSql /\ sql[c] <= asked[c]
  <2>1. ticks[c] <= Len(kinds[c]) /\ Len(kinds[c]) <= MaxTasks
    BY DEF Inv, ConnInv, TaskInv, StepInv, QueueInv
  <2>2. ticks[c] \in 0..MaxTasks
    BY <2>1, ConnFacts
  <2>3. sql[c] \in Nat /\ asked[c] \in 0..MaxSql /\ sql[c] <= asked[c]
    BY DEF Inv, ConnInv, Shape
  <2> QED
    BY <2>2, <2>3, ConnFacts
<1> QED
  BY <1>1, <1>2, <1>3 DEF Inv, Shape, TypeOK, Outcomes

LEMMA InvTasksInOrder ==
  ASSUME Inv PROVE TasksInOrder
<1> SUFFICES ASSUME NEW c \in Conns
             PROVE  finished[c]
                      \o (IF current[c] = 0 THEN <<>> ELSE <<current[c]>>)
                      \o pending[c]
                    = [n \in 1..Len(kinds[c]) |-> n]
  BY DEF TasksInOrder
<1>1. PICK mid : mid = IF current[c] = 0 THEN <<>> ELSE <<current[c]>>
  OBVIOUS
<1>2. PICK m \in Nat : m = Len(finished[c])
  BY ConnFacts
<1>3. PICK p \in Nat : p = Len(pending[c])
  BY ConnFacts
<1>4. PICK h \in Nat : h = IF current[c] = 0 THEN 0 ELSE 1
  OBVIOUS
<1>5. /\ \A i \in 1..m : finished[c][i] = i
      /\ current[c] # 0 => current[c] = m + 1
      /\ \A i \in 1..p : pending[c][i] = m + h + i
      /\ Len(kinds[c]) = m + h + p
  BY <1>2, <1>3, <1>4 DEF Inv, ConnInv, TaskInv, QueueInv, Begun
<1>6. mid \in Seq(Nat) /\ Len(mid) = h /\ \A i \in 1..h : mid[i] = m + i
  <2>1. CASE current[c] = 0
    BY <1>1, <1>4, <2>1, EmptySeq
  <2>2. CASE current[c] # 0
    <3>1. mid = <<current[c]>> /\ current[c] = m + 1 /\ h = 1
      BY <1>1, <1>4, <1>5, <2>2
    <3>2. mid = <<m + 1>>
      BY <3>1
    <3> QED
      BY <3>1, <3>2
  <2> QED
    BY <2>1, <2>2
<1>12. PICK done \in Seq(Nat) : done = finished[c] /\ m = Len(done)
  BY <1>2, ConnFacts
<1>13. PICK rest \in Seq(Nat) : rest = pending[c] /\ p = Len(rest)
  BY <1>3, ConnFacts
<1>14. h = Len(mid) /\ mid \in Seq(Nat)
  BY <1>6
<1>7. PICK left \in Seq(Nat) : left = done \o mid
  BY <1>14, ConcatProperties
<1>8. Len(left) = m + h /\ \A i \in 1..(m + h) : left[i] = i
  <2>1. /\ Len(left) = m + h /\ \A i \in 1..m : left[i] = done[i]
        /\ \A i \in 1..h : left[m + i] = mid[i]
    <3>1. Len(left) = m + h
      BY <1>7, <1>12, <1>14, ConcatParts
    <3>2. \A i \in 1..m : left[i] = done[i]
      BY <1>7, <1>12, <1>14, ConcatParts
    <3>3. \A i \in 1..h : left[m + i] = mid[i]
      BY <1>7, <1>12, <1>14, ConcatParts
    <3> QED
      BY <3>1, <3>2, <3>3
  <2> SUFFICES ASSUME NEW i \in 1..(m + h) PROVE left[i] = i
    BY <2>1
  <2>2. CASE i \in 1..m
    BY <1>5, <1>12, <2>1, <2>2
  <2>3. CASE i \notin 1..m
    <3>1. i - m \in 1..h /\ i = m + (i - m)
      BY <2>3
    <3> QED
      BY <1>6, <2>1, <3>1
  <2> QED
    BY <2>2, <2>3
<1>9. PICK all \in Seq(Nat) : all = left \o rest
  BY ConcatProperties
<1>10. Len(all) = m + h + p /\ \A i \in 1..(m + h + p) : all[i] = i
  <2>1. PICK l \in Nat : l = m + h
    OBVIOUS
  <2>2. /\ Len(all) = l + p /\ \A i \in 1..l : all[i] = left[i]
        /\ \A i \in 1..p : all[l + i] = rest[i]
    <3>1. l = Len(left)
      BY <1>8, <2>1
    <3>2. Len(all) = l + p
      BY <1>9, <1>13, <3>1, ConcatParts
    <3>3. \A i \in 1..l : all[i] = left[i]
      BY <1>9, <1>13, <3>1, ConcatParts
    <3>4. \A i \in 1..p : all[l + i] = rest[i]
      BY <1>9, <1>13, <3>1, ConcatParts
    <3> QED
      BY <3>2, <3>3, <3>4
  <2>3. ASSUME NEW i \in 1..(l + p) PROVE all[i] = i
    <3>1. CASE i \in 1..l
      BY <1>8, <2>1, <2>2, <3>1
    <3>2. CASE i \notin 1..l
      <4>1. i - l \in 1..p /\ i = l + (i - l)
        BY <3>2
      <4> QED
        BY <1>5, <1>13, <2>1, <2>2, <4>1
    <3> QED
      BY <3>1, <3>2
  <2> QED
    BY <2>1, <2>2, <2>3
<1>11. all = [n \in 1..Len(kinds[c]) |-> n]
  <2>1. all = [n \in 1..Len(all) |-> all[n]]
    OBVIOUS
  <2> QED
    BY <1>5, <1>10, <2>1
<1> QED
  BY <1>1, <1>7, <1>9, <1>11, <1>12, <1>13

LEMMA InvOneOutcome ==
  ASSUME Inv PROVE OneOutcome
<1> SUFFICES ASSUME NEW c \in Conns, NEW n \in Tasks
             PROVE  /\ Len(calls[c][n]) <= 1
                    /\ n \in ToSet(finished[c]) /\ kinds[c][n] # "create" =>
                         calls[c][n] # <<>>
  BY DEF OneOutcome
<1>1. CallInv(c) /\ QueueInv(c)
  BY DEF Inv, ConnInv, TaskInv
<1>2. n \in ToSet(finished[c]) => n <= Len(finished[c])
  <2>1. PICK m \in Nat : m = Len(finished[c])
    BY ConnFacts
  <2>2. \A i \in DOMAIN finished[c] : finished[c][i] = i /\ i <= m
    BY <1>1, <2>1, ConnFacts DEF QueueInv
  <2> QED
    BY <2>1, <2>2 DEF ToSet
<1> QED
  BY <1>1, <1>2 DEF CallInv

-----------------------------------------------------------------------------
(* The variables keep their types, however many tasks and statements the   *)
(* page asks for, and no more statements wait than were asked for.         *)
THEOREM TypeCorrect == Spec => []TypeOK
<1>1. Inv => TypeOK
  BY InvTypeOK
<1> QED
  BY <1>1, Invariance, PTL

(* schedule and doNext: the tasks of an object end in the order they were  *)
(* scheduled, each once, and every other one is still in the queue or      *)
(* being run, whichever of the posted doNext and the ends of tasks runs    *)
(* first.                                                                  *)
THEOREM InOrder == Spec => []TasksInOrder
<1>1. Inv => TasksInOrder
  BY InvTasksInOrder
<1> QED
  BY <1>1, Invariance, PTL

(* schedule against doNext: a task that waits has a task running before    *)
(* it, or a doNext posted that will find it.                               *)
THEOREM NoneStranded == Spec => []NoTaskStranded
<1>1. Inv => NoTaskStranded
  BY DEF Inv, ConnInv, TaskInv, StepInv, NoTaskStranded, Running
<1> QED
  BY <1>1, Invariance, PTL

(* transactionAsync: a transaction calls onSuccess or onError once, and    *)
(* has called one of them when it is over, whether it ends by an answer, a *)
(* closed websocket, a forced failure or an abort.                         *)
THEOREM OutcomeOnce == Spec => []OneOutcome
<1>1. Inv => OneOutcome
  BY InvOneOutcome
<1> QED
  BY <1>1, Invariance, PTL

(* sendMessage: one command at a time is on an open websocket, and the     *)
(* answer that comes is the answer to the command the task awaits.         *)
THEOREM AnswersMatched == Spec => []AnswersMatch
<1>1. Inv => AnswersMatch
  BY DEF Inv, ConnInv, WireInv, AnswersMatch
<1> QED
  BY <1>1, Invariance, PTL
=============================================================================

-------------------------- MODULE EventRelayProofs --------------------------
(***************************************************************************)
(* Theorems about EventRelay for any sets of triggers and subscribers and  *)
(* any capacity.                                                           *)
(*                                                                         *)
(* NoEventLost is not inductive: that the copy a trigger sends next is the *)
(* next event of the log needs that the mutex holder is the last of the    *)
(* log and owes exactly the registered channels it has not served, each    *)
(* once.  Inv adds that.                                                   *)
(***************************************************************************)
EXTENDS EventRelay, SequenceTheorems, TLAPS

\* q is the piece of l that follows its first j elements.
Slice(q, l, j) ==
  /\ j + Len(q) <= Len(l)
  /\ \A i \in 1..Len(q) : q[i] = l[j + i]

Injective(q) == \A i, j \in 1..Len(q) : q[i] = q[j] => i = j

\* The mutex: its holder, and nobody else, walks the channels, and its event
\* is the last of the log.
MutexInv ==
  /\ \A t \in Triggers : tpc[t] = "sending" <=> mutex = t
  /\ \A t \in Triggers : tpc[t] # "sending" => todo[t] = <<>>
  /\ mutex # NoOne => log # <<>> /\ log[Len(log)] = mutex

\* The registered channels are those of the handlers that serve, each once.
ChannelInv ==
  /\ Injective(channels)
  /\ \A s \in Subs : Registered(s) <=> s \in ToSet(channels)

\* What a trigger still has to serve is registered, and served once.
TodoInv ==
  \A t \in Triggers : Injective(todo[t]) /\ ToSet(todo[t]) \subseteq ToSet(channels)

\* Nothing has been through a channel that was never registered.
FreshInv ==
  \A s \in Subs : spc[s] \in {"off", "adding"} =>
    ch[s] = <<>> /\ got[s] = <<>> /\ received[s] = <<>>

\* Everything put into a channel is a slice of the log, also once its handler
\* has ended.
SliceInv == \A s \in Subs : Slice(Sent(s), log, joined[s])

\* For a registered channel it lacks at most the event it is owed.
CountInv ==
  \A s \in Subs : Registered(s) =>
    /\ Owed(s) => joined[s] + Len(Sent(s)) + 1 = Len(log)
    /\ ~Owed(s) => joined[s] + Len(Sent(s)) = Len(log)

\* A page has received what its handler took, but for the message being
\* written, and nothing more once it is gone.
ReceivedInv ==
  \A s \in Subs :
    /\ Slice(received[s], got[s], 0)
    /\ s \notin gone =>
         /\ spc[s] = "writing" => Len(got[s]) = Len(received[s]) + 1
         /\ spc[s] # "writing" => Len(got[s]) = Len(received[s])

Inv ==
  /\ TypeOK /\ MutexInv /\ ChannelInv /\ TodoInv /\ FreshInv
  /\ SliceInv /\ CountInv /\ ReceivedInv
-----------------------------------------------------------------------------
(* Sequences                                                               *)

LEMMA ConcatFacts ==
  ASSUME NEW S, NEW q \in Seq(S), NEW r \in Seq(S)
  PROVE  /\ q \o r \in Seq(S)
         /\ Len(q \o r) = Len(q) + Len(r)
         /\ \A i \in 1..Len(q \o r) :
              (q \o r)[i] = IF i <= Len(q) THEN q[i] ELSE r[i - Len(q)]
OBVIOUS

\* Putting one more into the buffer of a channel.
LEMMA ConcatAppend ==
  ASSUME NEW S, NEW q \in Seq(S), NEW r \in Seq(S), NEW x \in S
  PROVE  q \o Append(r, x) = Append(q \o r, x)
<1>1. /\ q \o r \in Seq(S) /\ <<x>> \in Seq(S)
      /\ Append(r, x) = r \o <<x>> /\ Append(q \o r, x) = (q \o r) \o <<x>>
  BY ConcatFacts, AppendIsConcat
<1> QED
  BY <1>1, ConcatAssociative

\* Taking the oldest out of the buffer of a channel.
LEMMA MoveHead ==
  ASSUME NEW S, NEW q \in Seq(S), NEW r \in Seq(S), r # <<>>
  PROVE  Append(q, Head(r)) \o Tail(r) = q \o r
<1> DEFINE a == Append(q, Head(r)) \o Tail(r)
           b == q \o r
<1>1. /\ Head(r) \in S /\ Head(r) = r[1] /\ Tail(r) \in Seq(S)
      /\ Len(Tail(r)) = Len(r) - 1 /\ Len(r) \in Nat /\ Len(q) \in Nat
      /\ \A i \in 1..Len(Tail(r)) : Tail(r)[i] = r[i + 1]
  BY HeadTailProperties
<1>2. /\ Append(q, Head(r)) \in Seq(S)
      /\ Len(Append(q, Head(r))) = Len(q) + 1
      /\ \A i \in 1..Len(q) : Append(q, Head(r))[i] = q[i]
      /\ Append(q, Head(r))[Len(q) + 1] = r[1]
  BY <1>1, AppendProperties
<1>3. /\ a \in Seq(S) /\ Len(a) = Len(q) + Len(r)
      /\ \A i \in 1..Len(a) : a[i] = IF i <= Len(q) + 1 THEN Append(q, Head(r))[i]
                                     ELSE Tail(r)[i - (Len(q) + 1)]
  BY <1>1, <1>2, ConcatFacts
<1>4. /\ b \in Seq(S) /\ Len(b) = Len(q) + Len(r)
      /\ \A i \in 1..Len(b) : b[i] = IF i <= Len(q) THEN q[i] ELSE r[i - Len(q)]
  BY ConcatFacts
<1> HIDE DEF a, b
<1>5. ASSUME NEW i \in 1..Len(a) PROVE a[i] = b[i]
  <2>1. CASE i <= Len(q)
    BY <2>1, <1>1, <1>2, <1>3, <1>4
  <2>2. CASE i = Len(q) + 1
    BY <2>2, <1>1, <1>2, <1>3, <1>4
  <2>3. CASE i > Len(q) + 1
    <3>1. /\ i - (Len(q) + 1) \in 1..Len(Tail(r))
          /\ (i - (Len(q) + 1)) + 1 = i - Len(q)
      BY <2>3, <1>1, <1>3
    <3> QED
      BY <2>3, <3>1, <1>1, <1>3, <1>4
  <2> QED
    BY <1>1, <2>1, <2>2, <2>3
<1>6. a = b
  BY <1>3, <1>4, <1>5, SeqEqual
<1> QED
  BY <1>6 DEF a, b

LEMMA TailFacts ==
  ASSUME NEW S, NEW q \in Seq(S), q # <<>>
  PROVE  /\ Len(q) >= 1 /\ Len(q) \in Nat
         /\ Head(q) \in S /\ Head(q) = q[1]
         /\ Tail(q) \in Seq(S)
         /\ Len(Tail(q)) = Len(q) - 1
         /\ \A i \in 1..Len(Tail(q)) : Tail(q)[i] = q[i + 1]
OBVIOUS

\* The elements of a sequence, by position.
LEMMA ToSetFacts ==
  ASSUME NEW S, NEW q \in Seq(S), NEW x
  PROVE  x \in ToSet(q) <=> \E i \in 1..Len(q) : q[i] = x
BY DEF ToSet

\* Serving the head leaves the other elements to serve.
LEMMA TailOfInjective ==
  ASSUME NEW S, NEW q \in Seq(S), q # <<>>, Injective(q)
  PROVE  /\ Injective(Tail(q))
         /\ ToSet(Tail(q)) = ToSet(q) \ {Head(q)}
<1>1. Injective(Tail(q))
  BY TailFacts, SMTT(30) DEF Injective
<1>2. ASSUME NEW x PROVE x \in ToSet(Tail(q)) <=> x \in ToSet(q) /\ x # Head(q)
  <2>a. Tail(q) \in Seq(S) /\ Head(q) = q[1]
    BY TailFacts
  <2>b. /\ x \in ToSet(Tail(q)) <=> \E i \in 1..Len(Tail(q)) : Tail(q)[i] = x
        /\ x \in ToSet(q) <=> \E i \in 1..Len(q) : q[i] = x
    BY <2>a, ToSetFacts
  <2>1. CASE x \in ToSet(Tail(q))
    <3>1. PICK i \in 1..Len(Tail(q)) : Tail(q)[i] = x
      BY <2>b, <2>1
    <3>2. i + 1 \in 1..Len(q) /\ q[i + 1] = x /\ i + 1 # 1 /\ 1 \in 1..Len(q)
      BY <3>1, TailFacts
    <3> QED
      BY <2>a, <2>b, <2>1, <3>2 DEF Injective
  <2>2. CASE x \in ToSet(q) /\ x # Head(q)
    <3>1. PICK i \in 1..Len(q) : q[i] = x
      BY <2>b, <2>2
    <3>2. i # 1
      BY <2>a, <2>2, <3>1
    <3>3. i - 1 \in 1..Len(Tail(q)) /\ Tail(q)[i - 1] = q[(i - 1) + 1]
      BY <3>1, <3>2, TailFacts
    <3> QED
      BY <2>b, <2>2, <3>1, <3>3
  <2> QED
    BY <2>1, <2>2
<1> QED
  BY <1>1, <1>2

\* RemoveFirst on a sequence without duplicates takes out just that element.
LEMMA RemoveFirstFacts ==
  ASSUME NEW S, NEW q \in Seq(S), Injective(q), NEW x \in S
  PROVE  /\ RemoveFirst(q, x) \in Seq(S)
         /\ Injective(RemoveFirst(q, x))
         /\ ToSet(RemoveFirst(q, x)) = ToSet(q) \ {x}
<1>1. CASE ~\E i \in 1..Len(q) : q[i] = x
  BY <1>1, ToSetFacts DEF RemoveFirst
<1>2. CASE \E i \in 1..Len(q) : q[i] = x
  <2>1. PICK k \in 1..Len(q) : q[k] = x
    BY <1>2
  <2>2. {i \in 1..Len(q) : q[i] = x} = {k}
    BY <2>1 DEF Injective
  <2>3. Min({k}) = k
    BY <2>1 DEF Min
  <2>4. SelectInSeq(q, LAMBDA v : v = x) = k
    BY <2>2, <2>3 DEF SelectInSeq
  <2> DEFINE r == SubSeq(q, 1, k - 1) \o SubSeq(q, k + 1, Len(q))
  <2>5. RemoveFirst(q, x) = r
    BY <1>2, <2>4 DEF RemoveFirst, RemoveAt
  <2>6. /\ r \in Seq(S)
        /\ Len(r) = Len(q) - 1
        /\ \A i \in 1..Len(r) : r[i] = IF i < k THEN q[i] ELSE q[i + 1]
    <3> DEFINE a == SubSeq(q, 1, k - 1)
               b == SubSeq(q, k + 1, Len(q))
    <3>1. /\ a \in Seq(S) /\ Len(a) = k - 1
          /\ \A i \in 1..Len(a) : a[i] = q[i]
      BY <2>1
    <3>2. /\ b \in Seq(S) /\ Len(b) = Len(q) - k
          /\ \A i \in 1..Len(b) : b[i] = q[i + k]
      BY <2>1
    <3> HIDE DEF a, b
    <3>3. Len(a \o b) = Len(q) - 1 /\ a \o b \in Seq(S)
      BY <2>1, <3>1, <3>2, ConcatFacts
    <3>4. ASSUME NEW i \in 1..Len(a \o b)
          PROVE  (a \o b)[i] = IF i < k THEN q[i] ELSE q[i + 1]
      <4>1. (a \o b)[i] = IF i <= Len(a) THEN a[i] ELSE b[i - Len(a)]
        BY <3>1, <3>2, ConcatFacts
      <4>2. CASE i < k
        BY <2>1, <3>1, <3>3, <4>1, <4>2
      <4>3. CASE i >= k
        <5>1. i - (k - 1) \in 1..Len(b) /\ b[i - (k - 1)] = q[(i - (k - 1)) + k]
          BY <2>1, <3>2, <3>3, <4>3
        <5> QED
          BY <2>1, <3>1, <3>3, <4>1, <4>3, <5>1
      <4> QED
        BY <2>1, <3>3, <4>2, <4>3
    <3> QED
      BY <3>3, <3>4 DEF a, b
  <2> HIDE DEF r
  <2>7. Injective(r)
    BY <2>1, <2>6, SMTT(30) DEF Injective
  <2>8. ASSUME NEW y PROVE y \in ToSet(r) <=> y \in ToSet(q) /\ y # x
    <3>1. CASE y \in ToSet(r)
      <4>1. PICK i \in 1..Len(r) : r[i] = y
        BY <2>6, <3>1, ToSetFacts
      <4>2. \E j \in 1..Len(q) : j # k /\ q[j] = y
        BY <2>1, <2>6, <4>1
      <4> QED
        BY <2>1, <3>1, <4>2, ToSetFacts DEF Injective
    <3>2. CASE y \in ToSet(q) /\ y # x
      <4>1. PICK j \in 1..Len(q) : q[j] = y /\ j # k
        BY <2>1, <3>2, ToSetFacts
      <4>2. \E i \in 1..Len(r) : r[i] = y
        <5>1. CASE j < k
          BY <2>1, <2>6, <4>1, <5>1
        <5>2. CASE j > k
          <6>1. j - 1 \in 1..Len(r) /\ r[j - 1] = q[(j - 1) + 1]
            BY <2>1, <2>6, <4>1, <5>2
          <6> QED
            BY <4>1, <6>1
        <5> QED
          BY <2>1, <4>1, <5>1, <5>2
      <4> QED
        BY <2>6, <3>2, <4>2, ToSetFacts
    <3> QED
      BY <3>1, <3>2
  <2> QED
    BY <2>5, <2>6, <2>7, <2>8
<1> QED
  BY <1>1, <1>2
-----------------------------------------------------------------------------
(* Slices of the log                                                       *)

LEMMA SliceAppend ==
  ASSUME NEW S, NEW l \in Seq(S), NEW q \in Seq(S), NEW j \in Nat,
         Slice(q, l, j), j + Len(q) < Len(l), NEW x \in S, x = l[j + Len(q) + 1]
  PROVE  Slice(Append(q, x), l, j)
<1>1. /\ Len(Append(q, x)) = Len(q) + 1 /\ Append(q, x)[Len(q) + 1] = x
      /\ \A i \in 1..Len(q) : Append(q, x)[i] = q[i]
      /\ Len(q) \in Nat /\ Len(l) \in Nat
  BY AppendProperties
<1>2. ASSUME NEW i \in 1..Len(Append(q, x)) PROVE Append(q, x)[i] = l[j + i]
  <2>1. CASE i = Len(q) + 1
    BY <1>1, <2>1
  <2>2. CASE i \in 1..Len(q)
    BY <1>1, <2>2 DEF Slice
  <2> QED
    BY <1>1, <2>1, <2>2
<1> QED
  BY <1>1, <1>2 DEF Slice

LEMMA SliceGrow ==
  ASSUME NEW S, NEW l \in Seq(S), NEW q \in Seq(S), NEW j \in Nat,
         Slice(q, l, j), NEW x \in S
  PROVE  Slice(q, Append(l, x), j)
<1>1. /\ Len(Append(l, x)) = Len(l) + 1
      /\ \A i \in 1..Len(l) : Append(l, x)[i] = l[i]
      /\ Len(q) \in Nat /\ Len(l) \in Nat
  BY AppendProperties
<1>2. ASSUME NEW i \in 1..Len(q) PROVE q[i] = Append(l, x)[j + i]
  <2>1. j + i \in 1..Len(l)
    BY <1>1 DEF Slice
  <2> QED
    BY <1>1, <2>1 DEF Slice
<1> QED
  BY <1>1, <1>2 DEF Slice

LEMMA SlicePrefix ==
  ASSUME NEW S, NEW l \in Seq(S), NEW q \in Seq(S), NEW r \in Seq(S),
         NEW j \in Nat, Slice(q \o r, l, j)
  PROVE  Slice(q, l, j)
<1>1. /\ Len(q \o r) = Len(q) + Len(r)
      /\ Len(q) \in Nat /\ Len(r) \in Nat /\ Len(l) \in Nat
      /\ \A i \in 1..Len(q) : i \in 1..Len(q \o r) /\ (q \o r)[i] = q[i]
  BY ConcatFacts
<1> QED
  BY <1>1 DEF Slice

\* A slice of a slice from its start is a slice.
LEMMA SliceTrans ==
  ASSUME NEW S, NEW l \in Seq(S), NEW q \in Seq(S), NEW p \in Seq(S),
         NEW j \in Nat, Slice(q, l, j), Slice(p, q, 0)
  PROVE  Slice(p, l, j)
<1>1. Len(q) \in Nat /\ Len(p) \in Nat /\ Len(l) \in Nat /\ Len(p) <= Len(q)
  BY DEF Slice
<1>2. ASSUME NEW i \in 1..Len(p) PROVE p[i] = l[j + i]
  <2>1. i \in 1..Len(q) /\ p[i] = q[0 + i] /\ 0 + i = i
    BY <1>1 DEF Slice
  <2> QED
    BY <2>1 DEF Slice
<1> QED
  BY <1>1, <1>2 DEF Slice

-----------------------------------------------------------------------------
LEMMA TypesAt ==
  ASSUME TypeOK, NEW s \in Subs
  PROVE  /\ ch[s] \in Seq(Triggers) /\ Len(ch[s]) \in Nat
         /\ got[s] \in Seq(Triggers) /\ Len(got[s]) \in Nat
         /\ received[s] \in Seq(Triggers) /\ Len(received[s]) \in Nat
         /\ log \in Seq(Triggers) /\ Len(log) \in Nat
         /\ joined[s] \in Nat
         /\ Sent(s) \in Seq(Triggers) /\ Len(Sent(s)) = Len(got[s]) + Len(ch[s])
<1>1. /\ ch[s] \in Seq(Triggers) /\ got[s] \in Seq(Triggers)
      /\ received[s] \in Seq(Triggers) /\ log \in Seq(Triggers) /\ joined[s] \in Nat
  BY DEF TypeOK
<1> QED
  BY <1>1, ConcatFacts DEF Sent

LEMMA InitInv == Init => Inv
<1> SUFFICES ASSUME Init PROVE Inv
  OBVIOUS
<1> USE RelayAssumption DEF Init
<1>1. TypeOK
  BY DEF TypeOK, TriggerStates, SubStates
<1>2. MutexInv
  BY DEF MutexInv
<1>3. TodoInv /\ FreshInv
  BY DEF TodoInv, FreshInv, Injective, ToSet
<1>4. ChannelInv /\ CountInv
  BY DEF ChannelInv, CountInv, Injective, Registered, ToSet
<1>5. SliceInv
  <2>1. \A s \in Subs : got[s] = <<>> /\ ch[s] = <<>> /\ joined[s] = 0
    OBVIOUS
  <2>2. <<>> \o <<>> = <<>>
    BY EmptySeq, ConcatEmptySeq
  <2> QED
    BY <2>1, <2>2 DEF SliceInv, Slice, Sent
<1>6. ReceivedInv
  BY DEF ReceivedInv, Slice
<1> QED
  BY <1>1, <1>2, <1>3, <1>4, <1>5, <1>6 DEF Inv

LEMMA StutterStep == ASSUME Inv, UNCHANGED relayVars PROVE Inv'
BY DEF Inv, relayVars, TypeOK, MutexInv, ChannelInv, TodoInv, FreshInv, SliceInv,
       CountInv, ReceivedInv, Registered, Sent, Owed

-----------------------------------------------------------------------------
(* eventTrigger                                                            *)

LEMMA ArriveStep == ASSUME Inv, NEW t \in Triggers, Arrive(t) PROVE Inv'
<1> USE DEF Inv
<1>1. TypeOK'
  BY DEF Arrive, TypeOK, TriggerStates
<1>2. MutexInv'
  BY DEF Arrive, TypeOK, MutexInv
<1>3. ChannelInv' /\ TodoInv' /\ FreshInv' /\ ReceivedInv'
  BY DEF Arrive, ChannelInv, TodoInv, FreshInv, ReceivedInv, Registered
<1>4. SliceInv' /\ CountInv'
  BY DEF Arrive, SliceInv, CountInv, Registered, Sent, Owed
<1> QED
  BY <1>1, <1>2, <1>3, <1>4

LEMMA LockForSendStep == ASSUME Inv, NEW t \in Triggers, LockForSend(t) PROVE Inv'
<1> USE RelayAssumption DEF Inv
<1>1. TypeOK'
  BY DEF LockForSend, TypeOK, TriggerStates
<1>2. \A u \in Triggers : todo[u] = <<>> /\ tpc[u] # "sending"
  BY DEF LockForSend, MutexInv
<1>3. \A s \in Subs : ~Owed(s)
  BY <1>2 DEF LockForSend, Owed, ToSet
<1>4. /\ todo'[t] = channels
      /\ \A u \in Triggers : u # t => todo'[u] = <<>>
  BY <1>2 DEF LockForSend, TypeOK
<1>5. \A s \in Subs : Owed(s)' <=> Registered(s)
  BY <1>4 DEF LockForSend, Owed, ChannelInv, ToSet
<1>6. /\ log \in Seq(Triggers) /\ Len(log) \in Nat
      /\ log' = Append(log, t) /\ log' # <<>>
      /\ Len(log') = Len(log) + 1
      /\ log'[Len(log')] = t
  <2>1. log \in Seq(Triggers) /\ log' = Append(log, t)
    BY DEF LockForSend, TypeOK
  <2> QED
    BY <2>1, AppendProperties, LenProperties
<1>7. MutexInv'
  <2>1. \A u \in Triggers : tpc'[u] = IF u = t THEN "sending" ELSE tpc[u]
    BY DEF LockForSend, TypeOK
  <2>2. mutex' = t
    BY DEF LockForSend
  <2>3. \A u \in Triggers : tpc'[u] = "sending" <=> mutex' = u
    BY <1>2, <2>1, <2>2 DEF LockForSend
  <2>4. \A u \in Triggers : tpc'[u] # "sending" => todo'[u] = <<>>
    BY <1>4, <2>1 DEF LockForSend
  <2> QED
    BY <1>6, <2>2, <2>3, <2>4 DEF MutexInv
<1>8. ChannelInv' /\ FreshInv' /\ ReceivedInv'
  BY DEF LockForSend, ChannelInv, FreshInv, ReceivedInv, Registered
<1>9. TodoInv'
  BY <1>4 DEF LockForSend, TodoInv, ChannelInv, Injective, ToSet
<1>10. SliceInv'
  <2> SUFFICES ASSUME NEW s \in Subs
               PROVE  Slice(got[s] \o ch[s], Append(log, t), joined[s])
    BY DEF LockForSend, SliceInv, Sent
  <2>1. Slice(Sent(s), log, joined[s]) /\ Sent(s) = got[s] \o ch[s]
    BY DEF LockForSend, SliceInv, Sent
  <2> QED
    <3>1. /\ log \in Seq(Triggers) /\ joined[s] \in Nat
          /\ Sent(s) \in Seq(Triggers)
      BY TypesAt
    <3> QED
      BY <2>1, <3>1, SliceGrow
<1>11. CountInv'
  <2> SUFFICES ASSUME NEW s \in Subs, Registered(s)
               PROVE  /\ \E u \in Triggers : s \in ToSet(todo'[u])
                      /\ joined[s] + Len(got[s] \o ch[s]) + 1 = Len(log')
    BY DEF LockForSend, CountInv, Registered, Sent, Owed
  <2>1. \E u \in Triggers : s \in ToSet(todo'[u])
    BY <1>5 DEF Owed
  <2>2. joined[s] + Len(got[s] \o ch[s]) = Len(log)
    BY <1>3 DEF CountInv, Sent
  <2> QED
    BY <1>6, <2>1, <2>2
<1> QED
  BY <1>1, <1>7, <1>8, <1>9, <1>10, <1>11

LEMMA SendStep == ASSUME Inv, NEW t \in Triggers, Send(t) PROVE Inv'
<1> USE RelayAssumption DEF Inv
<1> DEFINE s0 == Head(todo[t])
<1>1. /\ tpc[t] = "sending" /\ todo[t] # <<>>
      /\ Len(ch[s0]) < Capacity
      /\ ch' = [ch EXCEPT ![s0] = Append(@, t)]
      /\ todo' = [todo EXCEPT ![t] = Tail(@)]
      /\ UNCHANGED <<mutex, channels, tpc, spc, gone, disconnected, received,
                    log, joined, got>>
  BY DEF Send, Room
<1>2. todo[t] \in Seq(Subs) /\ ch \in [Subs -> Seq(Triggers)]
  BY DEF TypeOK
<1>3. /\ s0 \in Subs /\ s0 = todo[t][1] /\ Tail(todo[t]) \in Seq(Subs)
      /\ 1 \in 1..Len(todo[t])
  BY <1>1, <1>2, TailFacts
<1>4. Injective(Tail(todo[t])) /\ ToSet(Tail(todo[t])) = ToSet(todo[t]) \ {s0}
  BY <1>1, <1>2, TailOfInjective DEF TodoInv
<1>5. mutex = t /\ \A u \in Triggers : u # t => todo[u] = <<>>
  BY <1>1 DEF MutexInv
<1>6. s0 \in ToSet(todo[t])
  BY <1>2, <1>3, ToSetFacts
<1>7. s0 \in ToSet(channels) /\ Registered(s0) /\ Owed(s0)
  BY <1>3, <1>6 DEF TodoInv, ChannelInv, Owed
<1> HIDE DEF s0
<1>8. /\ todo' \in [Triggers -> Seq(Subs)]
      /\ todo'[t] = Tail(todo[t]) /\ \A u \in Triggers : u # t => todo'[u] = <<>>
  BY <1>1, <1>3, <1>5 DEF TypeOK
<1>9. \A s \in Subs : (\E u \in Triggers : s \in ToSet(todo'[u])) <=> Owed(s) /\ s # s0
  <2>1. \A s : s \notin ToSet(<<>>)
    BY DEF ToSet
  <2>2. \A s \in Subs : Owed(s) <=> s \in ToSet(todo[t])
    BY <1>5, <2>1 DEF Owed
  <2>3. \A s \in Subs :
          (\E u \in Triggers : s \in ToSet(todo'[u])) <=> s \in ToSet(Tail(todo[t]))
    BY <1>8, <2>1
  <2> QED
    BY <1>4, <2>2, <2>3
<1>10. /\ ch[s0] \in Seq(Triggers) /\ got[s0] \in Seq(Triggers)
       /\ Len(ch[s0]) \in Nat
       /\ ch'[s0] = Append(ch[s0], t) /\ ch' \in [Subs -> Seq(Triggers)]
       /\ Len(ch'[s0]) = Len(ch[s0]) + 1
       /\ \A s \in Subs : s # s0 => ch'[s] = ch[s]
  <2>1. ch[s0] \in Seq(Triggers) /\ got[s0] \in Seq(Triggers)
    BY <1>3 DEF TypeOK
  <2>2. /\ Append(ch[s0], t) \in Seq(Triggers) /\ Len(ch[s0]) \in Nat
        /\ Len(Append(ch[s0], t)) = Len(ch[s0]) + 1
    BY <2>1, AppendProperties, LenProperties
  <2> QED
    BY <1>1, <1>2, <1>3, <2>1, <2>2
<1>11. TypeOK'
  <2>1. \A s \in Subs : Len(ch'[s]) <= Capacity
    BY <1>1, <1>10 DEF TypeOK
  <2> QED
    BY <1>1, <1>8, <1>10, <2>1 DEF TypeOK
<1>12. MutexInv'
  BY <1>1, <1>5, <1>8 DEF MutexInv
<1>13. ChannelInv' /\ ReceivedInv'
  BY <1>1 DEF ChannelInv, ReceivedInv, Registered
<1>14. FreshInv'
  BY <1>1, <1>7, <1>10 DEF FreshInv, Registered
<1>15. TodoInv'
  <2>1. ToSet(<<>>) = {} /\ Injective(<<>>)
    BY DEF ToSet, Injective
  <2>2. Injective(todo'[t]) /\ ToSet(todo'[t]) \subseteq ToSet(channels)
    BY <1>4, <1>8 DEF TodoInv
  <2> QED
    BY <1>1, <1>8, <2>1, <2>2 DEF TodoInv
<1>16. got[s0] \o ch'[s0] = Append(Sent(s0), t)
  <2>1. got[s0] \o Append(ch[s0], t) = Append(got[s0] \o ch[s0], t)
    <3>1. ch[s0] \in Seq(Triggers) /\ got[s0] \in Seq(Triggers)
      BY <1>10
    <3> QED
      <4>1. \A q, r \in Seq(Triggers) : q \o Append(r, t) = Append(q \o r, t)
        BY ConcatAppend
      <4> QED
        BY <3>1, <4>1, Zenon
  <2> QED
    BY <1>10, <2>1 DEF Sent
<1>17. log[Len(log)] = t /\ Len(log) \in Nat /\ log' = log
  BY <1>1, <1>5 DEF MutexInv, TypeOK
<1>18. joined[s0] + Len(Sent(s0)) + 1 = Len(log)
  BY <1>3, <1>7 DEF CountInv
<1>19. SliceInv'
  <2> SUFFICES ASSUME NEW s \in Subs
               PROVE  Slice(got[s] \o ch'[s], log, joined[s])
    BY <1>1 DEF SliceInv, Sent
  <2>1. CASE s # s0
    BY <2>1, <1>10 DEF SliceInv, Sent
  <2>2. CASE s = s0
    <3>1. /\ log \in Seq(Triggers) /\ joined[s0] \in Nat
          /\ Sent(s0) \in Seq(Triggers) /\ Len(Sent(s0)) \in Nat
      BY <1>3, TypesAt, LenProperties
    <3>2. Slice(Sent(s0), log, joined[s0])
      BY <1>3 DEF SliceInv
    <3>3. /\ joined[s0] + Len(Sent(s0)) < Len(log)
          /\ t = log[joined[s0] + Len(Sent(s0)) + 1]
      BY <1>17, <1>18, <3>1
    <3>4. Slice(Append(Sent(s0), t), log, joined[s0])
      BY <3>1, <3>2, <3>3, SliceAppend
    <3> QED
      BY <1>16, <2>2, <3>4
  <2> QED
    BY <2>1, <2>2
<1>20. CountInv'
  <2> SUFFICES ASSUME NEW s \in Subs, Registered(s)
               PROVE  LET owed == \E u \in Triggers : s \in ToSet(todo'[u])
                          sent == Len(got[s] \o ch'[s])
                      IN  /\ owed => joined[s] + sent + 1 = Len(log)
                          /\ ~owed => joined[s] + sent = Len(log)
    BY <1>1 DEF CountInv, Registered, Sent, Owed
  <2>1. CASE s # s0
    <3>1. got[s] \o ch'[s] = Sent(s)
      BY <1>10, <2>1 DEF Sent
    <3> QED
      BY <1>9, <2>1, <3>1 DEF CountInv
  <2>2. CASE s = s0
    <3>1. /\ Sent(s0) \in Seq(Triggers) /\ Len(Sent(s0)) \in Nat
          /\ joined[s0] \in Nat
      BY <1>3, TypesAt, LenProperties
    <3>2. Len(Append(Sent(s0), t)) = Len(Sent(s0)) + 1
      BY <3>1, AppendProperties
    <3>3. joined[s] + Len(got[s] \o ch'[s]) = Len(log)
      <4>1. got[s] \o ch'[s] = Append(Sent(s0), t)
        BY <1>16, <2>2
      <4> QED
        BY <1>18, <2>2, <3>1, <3>2, <4>1
    <3> QED
      BY <1>9, <2>2, <3>3
  <2> QED
    BY <2>1, <2>2
<1> QED
  BY <1>11, <1>12, <1>13, <1>14, <1>15, <1>19, <1>20

LEMMA UnlockStep == ASSUME Inv, NEW t \in Triggers, Unlock(t) PROVE Inv'
<1> USE RelayAssumption DEF Inv
<1>1. TypeOK'
  BY DEF Unlock, TypeOK, TriggerStates
<1>2. MutexInv'
  BY DEF Unlock, TypeOK, MutexInv
<1>3. ChannelInv' /\ TodoInv' /\ FreshInv' /\ ReceivedInv'
  BY DEF Unlock, ChannelInv, TodoInv, FreshInv, ReceivedInv, Registered
<1>4. SliceInv' /\ CountInv'
  BY DEF Unlock, SliceInv, CountInv, Registered, Sent, Owed
<1> QED
  BY <1>1, <1>2, <1>3, <1>4

-----------------------------------------------------------------------------
(* eventNotification                                                       *)

LEMMA UpgradeStep == ASSUME Inv, NEW s \in Subs, Upgrade(s) PROVE Inv'
<1> USE DEF Inv
<1>1. TypeOK'
  BY DEF Upgrade, TypeOK, SubStates
<1>2. MutexInv' /\ TodoInv'
  BY DEF Upgrade, MutexInv, TodoInv
<1>3. \A u \in Subs : Registered(u)' = Registered(u)
  BY DEF Upgrade, TypeOK, Registered
<1>4. ChannelInv'
  BY <1>3 DEF Upgrade, ChannelInv
<1>5. FreshInv' /\ ReceivedInv'
  BY DEF Upgrade, TypeOK, FreshInv, ReceivedInv
<1>6. SliceInv' /\ CountInv'
  BY <1>3 DEF Upgrade, SliceInv, CountInv, Sent, Owed
<1> QED
  BY <1>1, <1>2, <1>4, <1>5, <1>6

LEMMA AddChannelStep == ASSUME Inv, NEW s \in Subs, AddChannel(s) PROVE Inv'
<1> USE RelayAssumption DEF Inv
<1>1. TypeOK'
  BY DEF AddChannel, TypeOK, SubStates
<1>2. \A t \in Triggers : todo[t] = <<>>
  BY DEF AddChannel, MutexInv
<1>3. \A u \in Subs : ~Owed(u) /\ ~Owed(u)'
  BY <1>2 DEF AddChannel, Owed, ToSet
<1>4. MutexInv'
  BY DEF AddChannel, MutexInv
<1>5. TodoInv'
  BY <1>2 DEF AddChannel, TodoInv, ToSet, Injective
<1>6. s \notin ToSet(channels) /\ channels \in Seq(Subs)
  BY DEF AddChannel, ChannelInv, Registered, TypeOK
<1>7. \A u \in Subs : Registered(u)' <=> Registered(u) \/ u = s
  BY DEF AddChannel, TypeOK, Registered
<1>8. /\ channels' \in Seq(Subs) /\ Len(channels') = Len(channels) + 1
      /\ channels'[Len(channels) + 1] = s
      /\ \A i \in 1..Len(channels) : channels'[i] = channels[i]
  BY <1>6 DEF AddChannel
<1>9. Injective(channels')
  <2>1. \A i \in 1..Len(channels) : channels[i] # s
    BY <1>6, ToSetFacts DEF AddChannel
  <2> QED
    BY <1>6, <1>8, <2>1, SMTT(30) DEF Injective, ChannelInv
<1>10. \A u \in Subs : u \in ToSet(channels') <=> u \in ToSet(channels) \/ u = s
  <2> TAKE u \in Subs
  <2>1. /\ u \in ToSet(channels) <=> \E i \in 1..Len(channels) : channels[i] = u
        /\ u \in ToSet(channels') <=> \E i \in 1..Len(channels') : channels'[i] = u
    <3>1. channels \in Seq(Subs) /\ channels' \in Seq(Subs)
      BY <1>6, <1>8 DEF AddChannel
    <3>2. u \in ToSet(channels) <=> \E i \in 1..Len(channels) : channels[i] = u
      BY <3>1, ToSetFacts DEF AddChannel
    <3>3. u \in ToSet(channels') <=> \E i \in 1..Len(channels') : channels'[i] = u
      BY <3>1, ToSetFacts DEF AddChannel
    <3> QED
      BY <3>2, <3>3
  <2> QED
    BY <1>6, <1>8, <2>1, SMTT(30)
<1>11. ChannelInv'
  BY <1>7, <1>9, <1>10 DEF AddChannel, ChannelInv
<1>12. FreshInv' /\ ReceivedInv'
  BY DEF AddChannel, TypeOK, FreshInv, ReceivedInv
<1>13. /\ \A u \in Subs : u # s => joined'[u] = joined[u]
       /\ joined'[s] = Len(log) /\ Len(log) \in Nat
       /\ got[s] = <<>> /\ ch[s] = <<>> /\ got[s] \o ch[s] = <<>>
  <2>1. got[s] = <<>> /\ ch[s] = <<>>
    BY DEF AddChannel, FreshInv
  <2>2. <<>> \o <<>> = <<>>
    BY EmptySeq, ConcatEmptySeq
  <2>3. /\ \A u \in Subs : u # s => joined'[u] = joined[u]
        /\ joined'[s] = Len(log) /\ Len(log) \in Nat
    BY DEF AddChannel, TypeOK
  <2> QED
    BY <2>1, <2>2, <2>3
<1>14. SliceInv'
  <2> SUFFICES ASSUME NEW u \in Subs
               PROVE  Slice(got[u] \o ch[u], log, joined'[u])
    BY DEF AddChannel, SliceInv, Sent
  <2>1. CASE u # s
    BY <1>13, <2>1 DEF AddChannel, SliceInv, Sent
  <2>2. CASE u = s
    <3>1. Slice(<<>>, log, Len(log))
      BY <1>13 DEF Slice
    <3> QED
      BY <1>13, <2>2, <3>1
  <2> QED
    BY <2>1, <2>2
<1>15. CountInv'
  <2> SUFFICES ASSUME NEW u \in Subs, Registered(u) \/ u = s
               PROVE  joined'[u] + Len(got[u] \o ch[u]) = Len(log)
    <3>1. /\ \A u \in Subs : ~\E v \in Triggers : u \in ToSet(todo'[v])
          /\ \A u \in Subs : spc'[u] \in {"serving", "writing", "removing"}
                              => Registered(u) \/ u = s
          /\ got' = got /\ ch' = ch /\ log' = log
      BY <1>3, <1>7 DEF AddChannel, Owed, Registered
    <3> QED
      BY <3>1 DEF CountInv, Sent, Owed, Registered
  <2>1. CASE u # s
    <3>1. ~Owed(u) /\ Registered(u) /\ joined'[u] = joined[u]
      BY <1>3, <1>13, <2>1
    <3> QED
      BY <3>1 DEF CountInv, Sent
  <2>2. CASE u = s
    <3>1. Len(<<>>) = 0 /\ joined'[u] = Len(log) /\ got[u] \o ch[u] = <<>>
      BY <1>13, <2>2
    <3> QED
      BY <1>13, <3>1
  <2> QED
    BY <2>1, <2>2
<1> QED
  BY <1>1, <1>4, <1>5, <1>11, <1>12, <1>14, <1>15

LEMMA TakeMessageStep == ASSUME Inv, NEW s \in Subs, TakeMessage(s) PROVE Inv'
<1> USE RelayAssumption DEF Inv
<1>1. ch[s] \in Seq(Triggers) /\ got[s] \in Seq(Triggers) /\ ch[s] # <<>>
  BY DEF TakeMessage, TypeOK
<1>2. /\ Head(ch[s]) \in Triggers /\ Tail(ch[s]) \in Seq(Triggers)
      /\ Len(Tail(ch[s])) = Len(ch[s]) - 1 /\ Len(ch[s]) \in Nat
  BY <1>1, TailFacts DEF TakeMessage
<1>3. /\ ch'[s] = Tail(ch[s]) /\ got'[s] = Append(got[s], Head(ch[s]))
      /\ \A u \in Subs : u # s => ch'[u] = ch[u] /\ got'[u] = got[u]
  BY DEF TakeMessage, TypeOK
<1>4. TypeOK'
  BY SMTT(30), <1>1, <1>2 DEF TakeMessage, TypeOK, SubStates
<1>5. MutexInv' /\ TodoInv'
  BY DEF TakeMessage, MutexInv, TodoInv
<1>6. \A u \in Subs : Registered(u)' = Registered(u) /\ Owed(u)' = Owed(u)
  BY SMTT(30) DEF TakeMessage, TypeOK, Registered, Owed
<1>7. ChannelInv'
  BY <1>6 DEF TakeMessage, ChannelInv
<1>8. FreshInv'
  BY <1>3 DEF TakeMessage, TypeOK, FreshInv
<1>9. \A u \in Subs : got'[u] \o ch'[u] = got[u] \o ch[u]
  <2>1. Append(got[s], Head(ch[s])) \o Tail(ch[s]) = got[s] \o ch[s]
    BY <1>1, MoveHead
  <2> QED
    BY <1>3, <2>1
<1>10. SliceInv' /\ CountInv'
  BY <1>6, <1>9 DEF TakeMessage, SliceInv, CountInv, Sent
<1>11. ReceivedInv'
  <2> SUFFICES ASSUME NEW u \in Subs
               PROVE  /\ Slice(received[u], got'[u], 0)
                      /\ u \notin gone =>
                           /\ spc'[u] = "writing"
                                => Len(got'[u]) = Len(received[u]) + 1
                           /\ spc'[u] # "writing"
                                => Len(got'[u]) = Len(received[u])
    BY DEF TakeMessage, ReceivedInv
  <2>1. CASE u # s
    <3>1. spc'[u] = spc[u] /\ got'[u] = got[u]
      BY <1>3, <2>1 DEF TakeMessage, TypeOK
    <3> QED
      BY <3>1 DEF ReceivedInv
  <2>2. CASE u = s
    <3>1. spc[s] = "serving" /\ spc'[s] = "writing" /\ received[s] \in Seq(Triggers)
      BY DEF TakeMessage, TypeOK
    <3>2. Slice(received[s], got[s], 0)
      BY DEF ReceivedInv
    <3>3. Slice(received[s], Append(got[s], Head(ch[s])), 0)
      BY <1>1, <1>2, <3>1, <3>2, SliceGrow
    <3>4. Len(Append(got[s], Head(ch[s]))) = Len(got[s]) + 1
      BY <1>1, <1>2, AppendProperties
    <3>5. s \notin gone => Len(got[s]) = Len(received[s])
      BY <3>1 DEF ReceivedInv
    <3> QED
      BY <1>3, <2>2, <3>1, <3>3, <3>4, <3>5
  <2> QED
    BY <2>1, <2>2
<1> QED
  BY <1>4, <1>5, <1>7, <1>8, <1>10, <1>11

LEMMA WriteStep == ASSUME Inv, NEW s \in Subs, Write(s) PROVE Inv'
<1> USE DEF Inv
<1>1. got[s] \in Seq(Triggers) /\ received[s] \in Seq(Triggers)
  BY DEF Write, TypeOK
<1>2. ASSUME s \notin gone
      PROVE  /\ Len(got[s]) = Len(received[s]) + 1 /\ Len(received[s]) \in Nat
             /\ Last(got[s]) = got[s][Len(received[s]) + 1]
             /\ Last(got[s]) \in Triggers
  <2>1. Len(got[s]) = Len(received[s]) + 1 /\ Len(received[s]) \in Nat
    <3>1. spc[s] = "writing"
      BY DEF Write
    <3> QED
      BY <1>1, <1>2, <3>1, LenProperties DEF ReceivedInv
  <2>2. Last(got[s]) = got[s][Len(got[s])] /\ Len(got[s]) \in 1..Len(got[s])
    BY <2>1 DEF Write, Last
  <2> QED
    BY <1>1, <2>1, <2>2, ElementOfSeq
<1>3. TypeOK'
  BY <1>1, <1>2 DEF Write, TypeOK, SubStates
<1>4. MutexInv' /\ TodoInv'
  BY DEF Write, MutexInv, TodoInv
<1>5. \A u \in Subs : Registered(u)' = Registered(u)
  BY DEF Write, TypeOK, Registered
<1>6. ChannelInv'
  BY <1>5 DEF Write, ChannelInv
<1>7. SliceInv' /\ CountInv'
  BY <1>5 DEF Write, SliceInv, CountInv, Sent, Owed
<1>8. FreshInv'
  BY DEF Write, TypeOK, FreshInv
<1>9. ReceivedInv'
  <2> SUFFICES ASSUME NEW u \in Subs
               PROVE  /\ Slice(received'[u], got[u], 0)
                      /\ u \notin gone =>
                           /\ spc'[u] = "writing"
                                => Len(got[u]) = Len(received'[u]) + 1
                           /\ spc'[u] # "writing"
                                => Len(got[u]) = Len(received'[u])
    BY DEF Write, ReceivedInv
  <2>1. CASE u # s
    <3>1. spc'[u] = spc[u] /\ received'[u] = received[u]
      BY <2>1 DEF Write, TypeOK
    <3> QED
      BY <3>1 DEF ReceivedInv
  <2>2. CASE u = s /\ s \in gone
    BY <2>2 DEF Write, ReceivedInv
  <2>3. CASE u = s /\ s \notin gone
    <3>1. /\ received'[s] = Append(received[s], Last(got[s]))
          /\ spc'[s] = "serving"
      BY <2>3 DEF Write, TypeOK
    <3>2. Slice(received[s], got[s], 0)
      BY DEF Write, ReceivedInv
    <3>3. /\ 0 \in Nat /\ 0 + Len(received[s]) < Len(got[s])
          /\ Last(got[s]) = got[s][0 + Len(received[s]) + 1]
      BY <1>2, <2>3
    <3>4. Slice(Append(received[s], Last(got[s])), got[s], 0)
      BY <1>1, <1>2, <2>3, <3>2, <3>3, SliceAppend
    <3>5. Len(Append(received[s], Last(got[s]))) = Len(received[s]) + 1
      BY <1>1, <1>2, <2>3, AppendProperties
    <3> QED
      BY <1>2, <2>3, <3>1, <3>4, <3>5
  <2> QED
    BY <2>1, <2>2, <2>3
<1> QED
  BY <1>3, <1>4, <1>6, <1>7, <1>8, <1>9

LEMMA SeeDisconnectStep == ASSUME Inv, NEW s \in Subs, SeeDisconnect(s) PROVE Inv'
<1> USE DEF Inv
<1>1. TypeOK'
  BY DEF SeeDisconnect, TypeOK, SubStates
<1>2. MutexInv' /\ TodoInv'
  BY DEF SeeDisconnect, MutexInv, TodoInv
<1>3. \A u \in Subs : Registered(u)' = Registered(u)
  BY DEF SeeDisconnect, TypeOK, Registered
<1>4. ChannelInv'
  BY <1>3 DEF SeeDisconnect, ChannelInv
<1>5. FreshInv' /\ ReceivedInv'
  BY DEF SeeDisconnect, TypeOK, FreshInv, ReceivedInv
<1>6. SliceInv' /\ CountInv'
  BY <1>3 DEF SeeDisconnect, SliceInv, CountInv, Sent, Owed
<1> QED
  BY <1>1, <1>2, <1>4, <1>5, <1>6

LEMMA RemoveChannelStep == ASSUME Inv, NEW s \in Subs, RemoveChannel(s) PROVE Inv'
<1> USE RelayAssumption DEF Inv
<1>1. /\ channels' \in Seq(Subs) /\ Injective(channels')
      /\ ToSet(channels') = ToSet(channels) \ {s}
  BY RemoveFirstFacts DEF RemoveChannel, TypeOK, ChannelInv
<1>2. TypeOK'
  BY <1>1 DEF RemoveChannel, TypeOK, SubStates
<1>3. MutexInv'
  BY DEF RemoveChannel, MutexInv
<1>4. TodoInv'
  <2>1. \A t \in Triggers : todo'[t] = <<>>
    BY DEF RemoveChannel, MutexInv
  <2> QED
    BY <2>1 DEF TodoInv, Injective, ToSet
<1>5. \A u \in Subs : Registered(u)' <=> Registered(u) /\ u # s
  BY DEF RemoveChannel, TypeOK, Registered
<1>6. ChannelInv'
  BY <1>1, <1>5 DEF RemoveChannel, ChannelInv
<1>7. FreshInv' /\ ReceivedInv'
  BY DEF RemoveChannel, TypeOK, FreshInv, ReceivedInv
<1>8. SliceInv' /\ CountInv'
  BY <1>5 DEF RemoveChannel, SliceInv, CountInv, Sent, Owed
<1> QED
  BY <1>2, <1>3, <1>4, <1>6, <1>7, <1>8

LEMMA PageStep ==
  ASSUME Inv, NEW s \in Subs, PageLeaves(s) \/ WatcherReports(s) PROVE Inv'
<1> USE RelayAssumption DEF Inv
<1>1. TypeOK'
  BY DEF PageLeaves, WatcherReports, TypeOK
<1>2. MutexInv' /\ TodoInv' /\ ChannelInv' /\ FreshInv'
  BY DEF PageLeaves, WatcherReports, MutexInv, TodoInv, ChannelInv, FreshInv, Registered
<1>3. SliceInv' /\ CountInv'
  BY DEF PageLeaves, WatcherReports, SliceInv, CountInv, Registered, Sent, Owed
<1>4. ReceivedInv'
  BY DEF PageLeaves, WatcherReports, ReceivedInv
<1> QED
  BY <1>1, <1>2, <1>3, <1>4

-----------------------------------------------------------------------------
LEMMA NextStep == Inv /\ [Next]_relayVars => Inv'
<1> SUFFICES ASSUME Inv, [Next]_relayVars PROVE Inv'
  OBVIOUS
<1>1. ASSUME NEW t \in Triggers, TriggerNext(t) PROVE Inv'
  BY <1>1, ArriveStep, LockForSendStep, SendStep, UnlockStep DEF TriggerNext
<1>2. ASSUME NEW s \in Subs, SubNext(s) PROVE Inv'
  BY <1>2, UpgradeStep, AddChannelStep, TakeMessageStep, WriteStep,
     SeeDisconnectStep, RemoveChannelStep, PageStep DEF SubNext
<1>3. CASE UNCHANGED relayVars
  BY <1>3, StutterStep
<1> QED
  BY <1>1, <1>2, <1>3 DEF Next

THEOREM Invariance == Spec => []Inv
  BY InitInv, NextStep, PTL DEF Spec

\* The types hold, and no channel outgrows its buffer, for every instance.
THEOREM TypeCorrect == Spec => []TypeOK
<1>1. Inv => TypeOK
  BY DEF Inv
<1> QED
  BY <1>1, Invariance, PTL

\* eventTrigger, addChannel and removeChannel never lose, repeat or reorder an
\* event on its way into a registered channel.
THEOREM NothingLost == Spec => []NoEventLost
<1>1. Inv => NoEventLost
  <2> SUFFICES ASSUME Inv, NEW s \in Subs, Registered(s)
               PROVE  /\ joined[s] + Len(Sent(s)) = Len(log) - (IF Owed(s) THEN 1 ELSE 0)
                      /\ \A i \in 1..Len(Sent(s)) : Sent(s)[i] = log[joined[s] + i]
    BY DEF NoEventLost
  <2>1. /\ joined[s] \in Nat /\ Len(Sent(s)) \in Nat /\ Len(log) \in Nat
        /\ Slice(Sent(s), log, joined[s])
        /\ Owed(s) => joined[s] + Len(Sent(s)) + 1 = Len(log)
        /\ ~Owed(s) => joined[s] + Len(Sent(s)) = Len(log)
    BY TypesAt, LenProperties DEF Inv, SliceInv, CountInv
  <2> QED
    BY <2>1 DEF Slice
<1> QED
  BY <1>1, Invariance, PTL

\* Every page receives a gap-free piece of one and the same log.
THEOREM PagesAgreeAlways == Spec => []PagesAgree
<1>1. Inv => PagesAgree
  <2> SUFFICES ASSUME Inv, NEW s \in Subs PROVE Slice(received[s], log, joined[s])
    BY DEF PagesAgree, Slice
  <2>1. /\ got[s] \in Seq(Triggers) /\ ch[s] \in Seq(Triggers)
        /\ received[s] \in Seq(Triggers) /\ log \in Seq(Triggers)
        /\ joined[s] \in Nat
    BY TypesAt DEF Inv
  <2>2. Slice(got[s] \o ch[s], log, joined[s])
    BY DEF Inv, SliceInv, Sent
  <2>3. Slice(got[s], log, joined[s])
    BY <2>1, <2>2, SlicePrefix
  <2>4. Slice(received[s], got[s], 0)
    BY DEF Inv, ReceivedInv
  <2> QED
    BY <2>1, <2>3, <2>4, SliceTrans
<1> QED
  BY <1>1, Invariance, PTL

-----------------------------------------------------------------------------
(* The refinement of EventBroadcast                                        *)

\* An event enters the log once: its trigger has been through the mutex.
LogInv == \A i \in 1..Len(log) : tpc[log[i]] \in {"sending", "done"}

LEMMA LogStep == ASSUME Inv, LogInv, [Next]_relayVars PROVE LogInv'
<1>1. /\ log \in Seq(Triggers) /\ Len(log) \in Nat
      /\ \A i \in 1..Len(log) : log[i] \in Triggers
      /\ tpc \in [Triggers -> TriggerStates]
  <2>1. log \in Seq(Triggers) /\ tpc \in [Triggers -> TriggerStates]
    BY DEF Inv, TypeOK
  <2> QED
    BY <2>1, ElementOfSeq, LenProperties
<1>2. ASSUME NEW t \in Triggers, Arrive(t) \/ Unlock(t) PROVE LogInv'
  BY <1>1, <1>2 DEF Arrive, Unlock, LogInv
<1>3. ASSUME NEW t \in Triggers, LockForSend(t) PROVE LogInv'
  <2>1. /\ Len(log') = Len(log) + 1 /\ log'[Len(log) + 1] = t
        /\ \A i \in 1..Len(log) : log'[i] = log[i]
    BY <1>1, <1>3, AppendProperties DEF LockForSend
  <2>2. \A u \in Triggers : tpc'[u] = IF u = t THEN "sending" ELSE tpc[u]
    BY <1>1, <1>3 DEF LockForSend
  <2>3. ASSUME NEW i \in 1..Len(log') PROVE tpc'[log'[i]] \in {"sending", "done"}
    <3>1. CASE i = Len(log) + 1
      BY <2>1, <2>2, <3>1
    <3>2. CASE i \in 1..Len(log)
      BY <1>1, <2>1, <2>2, <3>2 DEF LogInv
    <3> QED
      BY <1>1, <2>1, <3>1, <3>2
  <2> QED
    BY <2>3 DEF LogInv
<1>4. CASE UNCHANGED <<log, tpc>>
  BY <1>4 DEF LogInv
<1>5. ASSUME NEW t \in Triggers, Send(t) PROVE UNCHANGED <<log, tpc>>
  BY <1>5 DEF Send
<1>6. ASSUME NEW s \in Subs, SubNext(s) PROVE UNCHANGED <<log, tpc>>
  BY <1>6 DEF SubNext, Upgrade, AddChannel, TakeMessage, Write, SeeDisconnect,
              RemoveChannel, PageLeaves, WatcherReports
<1> QED
  BY <1>2, <1>3, <1>4, <1>5, <1>6 DEF Next, TriggerNext, relayVars

\* The pages that have been connected, as EventBroadcast counts them.
Connected == {s \in Subs : spc[s] \notin {"off", "adding"}}

LEMMA InitRefines == Init => Broadcast!Init
BY DEF Init, Broadcast!Init

\* eventTrigger takes the mutex: the event is published.
LEMMA PublishRefines ==
  ASSUME Inv, LogInv, NEW t \in Triggers, LockForSend(t)
  PROVE  Broadcast!Publish(t)
<1>1. \A i \in 1..Len(log) : log[i] # t
  BY DEF LockForSend, LogInv
<1>2. DOMAIN log = 1..Len(log)
  BY DEF Inv, TypeOK
<1> QED
  BY <1>1, <1>2 DEF LockForSend, Broadcast!Publish

LEMMA ConnectRefines ==
  ASSUME Inv, NEW s \in Subs, AddChannel(s) PROVE Broadcast!Connect(s)
<1>1. Connected' = Connected \cup {s} /\ s \notin Connected
  BY DEF AddChannel, Connected, Inv, TypeOK
<1> QED
  BY <1>1 DEF AddChannel, Connected, Broadcast!Connect

\* A write that reaches the page is the delivery of the next event.
LEMMA DeliverRefines ==
  ASSUME Inv, NEW s \in Subs, Write(s), s \notin gone PROVE Broadcast!Deliver(s)
<1> DEFINE next == joined[s] + Len(received[s]) + 1
<1>1. /\ Connected' = Connected /\ s \in Connected
  BY DEF Write, Connected, Inv, TypeOK
<1>2. /\ got[s] \in Seq(Triggers) /\ ch[s] \in Seq(Triggers)
      /\ log \in Seq(Triggers) /\ joined[s] \in Nat
      /\ Len(got[s]) \in Nat /\ Len(received[s]) \in Nat /\ Len(log) \in Nat
  BY TypesAt DEF Inv
<1>3. Slice(got[s], log, joined[s])
  <2>1. Slice(got[s] \o ch[s], log, joined[s])
    BY DEF Inv, SliceInv, Sent
  <2> QED
    BY <1>2, <2>1, SlicePrefix
<1>4. Len(got[s]) = Len(received[s]) + 1
  BY DEF Write, Inv, ReceivedInv
<1>5. Last(got[s]) = log[next] /\ next <= Len(log)
  <2>1. Last(got[s]) = got[s][Len(got[s])] /\ Len(got[s]) \in 1..Len(got[s])
    BY <1>2, <1>4 DEF Last
  <2>2. /\ joined[s] + Len(got[s]) <= Len(log)
        /\ got[s][Len(got[s])] = log[joined[s] + Len(got[s])]
    BY <1>3, <2>1 DEF Slice
  <2>3. joined[s] + Len(got[s]) = next
    BY <1>2, <1>4
  <2> QED
    BY <2>1, <2>2, <2>3
<1>6. received' = [received EXCEPT ![s] = Append(@, log[next])]
  BY <1>5 DEF Write
<1> QED
  BY <1>1, <1>5, <1>6 DEF Write, Connected, Broadcast!Deliver

\* Every step of the relay is one step of the broadcast, or none.
LEMMA StepRefines ==
  ASSUME Inv, LogInv, [Next]_relayVars
  PROVE  [Broadcast!Next]_(Broadcast!broadcastVars)
<1> USE DEF Broadcast!Next, Broadcast!broadcastVars
<1>1. ASSUME UNCHANGED <<log, joined, received, spc, gone>>
      PROVE  UNCHANGED Broadcast!broadcastVars
  BY <1>1
<1>2. ASSUME NEW t \in Triggers, TriggerNext(t)
      PROVE  [Broadcast!Next]_(Broadcast!broadcastVars)
  <2>1. CASE LockForSend(t)
    BY <2>1, PublishRefines
  <2>2. CASE Arrive(t) \/ Send(t) \/ Unlock(t)
    BY <1>1, <2>2 DEF Arrive, Send, Unlock
  <2> QED
    BY <1>2, <2>1, <2>2 DEF TriggerNext
<1>3. ASSUME NEW s \in Subs, SubNext(s)
      PROVE  [Broadcast!Next]_(Broadcast!broadcastVars)
  <2>1. CASE AddChannel(s)
    BY <2>1, ConnectRefines
  <2>2. CASE Write(s) /\ s \notin gone
    BY <2>2, DeliverRefines
  <2>3. CASE PageLeaves(s)
    BY <2>3, RelayAssumption DEF PageLeaves, Broadcast!Leave
  <2>4. CASE \/ Upgrade(s) \/ TakeMessage(s) \/ (Write(s) /\ s \in gone)
             \/ SeeDisconnect(s) \/ RemoveChannel(s) \/ WatcherReports(s)
    <3>1. UNCHANGED <<log, joined, received, gone>>
      BY <2>4 DEF Upgrade, TakeMessage, Write, SeeDisconnect, RemoveChannel,
                  WatcherReports
    <3>2. Connected' = Connected
      BY <2>4 DEF Upgrade, TakeMessage, Write, SeeDisconnect, RemoveChannel,
                  WatcherReports, Connected, Inv, TypeOK
    <3> QED
      BY <3>1, <3>2 DEF Connected
  <2>5. \/ AddChannel(s) \/ (Write(s) /\ s \notin gone) \/ PageLeaves(s)
        \/ Upgrade(s) \/ TakeMessage(s) \/ (Write(s) /\ s \in gone)
        \/ SeeDisconnect(s) \/ RemoveChannel(s) \/ WatcherReports(s)
    BY <1>3 DEF SubNext
  <2> HIDE DEF Broadcast!Next, Broadcast!broadcastVars
  <2> QED
    BY <2>1, <2>2, <2>3, <2>4, <2>5
<1>4. CASE UNCHANGED relayVars
  BY <1>1, <1>4 DEF relayVars
<1> QED
  BY <1>2, <1>3, <1>4 DEF Next

\* The relay, with its mutex, channels and goroutines, is a broadcast with one
\* order of events and no gaps (eventTrigger and eventNotification), for any
\* number of triggers and pages.
THEOREM Refinement == Spec => RefinesBroadcast
<1>1. Init => LogInv
  BY DEF Init, LogInv
<1>2. Spec => [](Inv /\ LogInv)
  BY <1>1, InitInv, NextStep, LogStep, PTL DEF Spec
<1>3. Inv /\ LogInv /\ [Next]_relayVars => [Broadcast!Next]_(Broadcast!broadcastVars)
  BY StepRefines
<1> QED
  BY <1>2, <1>3, InitRefines, PTL DEF Spec, RefinesBroadcast, Broadcast!Spec
=============================================================================

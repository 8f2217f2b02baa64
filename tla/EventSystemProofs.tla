------------------------- MODULE EventSystemProofs --------------------------
(***************************************************************************)
(* Theorems about EventSystem for any pages, sockets, events and listeners.*)
(*                                                                         *)
(* A socket has seen a slice of the relay's order (SeenInv), the sockets   *)
(* of a page follow each other (SocketInv), and what the page was told     *)
(* lies, in order, before the place that its live socket has reached       *)
(* (ToldInv): a later socket begins where the relay was when it connected. *)
(***************************************************************************)
EXTENDS EventSystem, SequenceTheorems, TLAPS

Live == {"connecting", "open", "closed"}

Shape ==
  /\ published \in Seq(Triggers)
  /\ from \in [Conns -> Nat]
  /\ seen \in [Conns -> Seq(Triggers)]
  /\ connected \subseteq Conns
  /\ left \subseteq Conns
  /\ sock \in [Conns -> SocketStates]
  /\ handled \in [Conns -> Nat]
  /\ unloaded \subseteq Pages
  /\ listeners \in [Pages -> SUBSET Apis]
  /\ networkStat \in [Pages -> 0..3]
  /\ told \in [Pages -> Seq(Triggers)]

\* Event t is the n-th that the relay took.
At(n, t) == n \in 1..Len(published) /\ published[n] = t

PublishedInv == \A m, n \in 1..Len(published) : published[m] = published[n] => m = n

SeenInv(c) ==
  /\ from[c] + Len(seen[c]) <= Len(published)
  /\ \A i \in 1..Len(seen[c]) : seen[c][i] = published[from[c] + i]
  /\ handled[c] <= Len(seen[c])
  /\ c \notin connected => seen[c] = <<>>
  /\ sock[c] = "none" => c \notin connected \cup left

SocketInv(p) ==
  \A j, k \in 1..MaxConns :
    j < k /\ sock[<<p, k>>] # "none" => sock[<<p, j>>] = "done"

ToldInv(p) ==
  /\ \A i \in 1..Len(told[p]) : \E n \in Nat : At(n, told[p][i])
  /\ \A i, j \in 1..Len(told[p]) : \A m, n \in Nat :
       i < j /\ At(m, told[p][i]) /\ At(n, told[p][j]) => m < n

\* What a page was told lies before the place that its live socket has reached.
Reached(c) ==
  sock[c] \in Live /\ c \in connected =>
    \A i \in 1..Len(told[c[1]]) : \A n \in Nat :
      At(n, told[c[1]][i]) => n <= from[c] + handled[c]

Inv ==
  /\ Shape /\ PublishedInv /\ NetworkStatCurrent
  /\ \A c \in Conns : SeenInv(c) /\ Reached(c)
  /\ \A p \in Pages : SocketInv(p) /\ ToldInv(p)

-----------------------------------------------------------------------------
LEMMA ConnFacts ==
  ASSUME NEW c \in Conns
  PROVE  /\ c[1] \in Pages /\ c[2] \in 1..MaxConns /\ c = <<c[1], c[2]>>
         /\ MaxConns \in Nat \ {0}
  BY EventAssumption DEF Conns

LEMMA Connection ==
  ASSUME NEW p \in Pages, NEW k \in 1..MaxConns PROVE <<p, k>> \in Conns
  BY DEF Conns

LEMMA LengthFacts ==
  ASSUME Inv
  PROVE  /\ Len(published) \in Nat
         /\ \A c \in Conns : /\ seen[c] \in Seq(Triggers) /\ Len(seen[c]) \in Nat
                             /\ from[c] \in Nat /\ handled[c] \in Nat
         /\ \A p \in Pages : told[p] \in Seq(Triggers) /\ Len(told[p]) \in Nat
<1>1. ASSUME NEW c \in Conns
      PROVE  /\ seen[c] \in Seq(Triggers) /\ Len(seen[c]) \in Nat
             /\ from[c] \in Nat /\ handled[c] \in Nat
  BY LenProperties DEF Inv, Shape
<1>2. ASSUME NEW p \in Pages PROVE told[p] \in Seq(Triggers) /\ Len(told[p]) \in Nat
  BY LenProperties DEF Inv, Shape
<1>3. Len(published) \in Nat
  BY LenProperties DEF Inv, Shape
<1> QED
  BY <1>1, <1>2, <1>3

-----------------------------------------------------------------------------
(* The relay                                                               *)

\* A step of the relay tells nothing to the page.
LEMMA PublishStep ==
  ASSUME Inv, NEW t \in Triggers, Publish(t) PROVE Inv'
<1>1. /\ \A i \in DOMAIN published : published[i] # t
      /\ published' = Append(published, t)
      /\ UNCHANGED <<from, seen, connected, left, sock, handled, unloaded,
                     listeners, networkStat, told>>
  BY DEF Publish, Relay!Publish, pageVars, objectVars
<1>2. PICK n \in Nat : n = Len(published)
  BY LengthFacts
<1>3. /\ published \in Seq(Triggers) /\ DOMAIN published = 1..n
  BY <1>2, LenProperties DEF Inv, Shape
<1>4. /\ published' \in Seq(Triggers) /\ Len(published') = n + 1
      /\ published'[n + 1] = t /\ \A i \in 1..n : published'[i] = published[i]
  BY <1>1, <1>2, <1>3, AppendProperties
<1>5. Shape'
  BY <1>1, <1>4 DEF Inv, Shape
<1>6. PublishedInv'
  <2> SUFFICES ASSUME NEW i \in 1..(n + 1), NEW j \in 1..(n + 1),
                      published'[i] = published'[j]
               PROVE  i = j
    BY <1>4 DEF PublishedInv
  <2>1. \A k \in 1..(n + 1) : k \in 1..n \/ k = n + 1
    OBVIOUS
  <2> QED
    BY <1>1, <1>2, <1>3, <1>4, <2>1 DEF Inv, PublishedInv
<1>7. \A m \in Nat : \A e : At(m, e) => At(m, e)'
  BY <1>2, <1>4 DEF At
<1>8. \A m \in Nat : \A e : At(m, e)' /\ e # t => At(m, e)
  <2>1. \A k \in 1..(n + 1) : k \in 1..n \/ k = n + 1
    OBVIOUS
  <2> QED
    BY <1>2, <1>4, <2>1 DEF At
<1>9. ASSUME NEW p \in Pages, NEW i \in 1..Len(told[p]) PROVE told[p][i] # t
  <2>1. PICK m \in Nat : At(m, told[p][i])
    BY DEF Inv, ToldInv
  <2> QED
    BY <1>1, <1>2, <1>3, <2>1 DEF At
<1>10. ASSUME NEW c \in Conns PROVE SeenInv(c)' /\ Reached(c)'
  <2>1. PICK f \in Nat : f = from[c]
    BY LengthFacts
  <2>2. PICK l \in Nat : l = Len(seen[c])
    BY LengthFacts
  <2>3. f + l <= n /\ \A i \in 1..l : seen[c][i] = published[f + i]
    BY <1>2, <2>1, <2>2 DEF Inv, SeenInv
  <2>4. f + l <= n + 1 /\ \A i \in 1..l : seen[c][i] = published'[f + i]
    <3>1. \A i \in 1..l : f + i \in 1..n
      BY <2>3
    <3> QED
      BY <1>4, <2>3, <3>1
  <2>5. SeenInv(c)'
    BY <1>1, <1>4, <2>1, <2>2, <2>4 DEF Inv, SeenInv
  <2>6. Reached(c)'
    BY <1>1, <1>8, <1>9, ConnFacts DEF Inv, Reached
  <2> QED
    BY <2>5, <2>6
<1>11. ASSUME NEW p \in Pages PROVE SocketInv(p)' /\ ToldInv(p)'
  <2>1. SocketInv(p)'
    BY <1>1 DEF Inv, SocketInv
  <2>2. told'[p] = told[p]
    BY <1>1
  <2>3. ASSUME NEW i \in 1..Len(told[p])
        PROVE  \E m \in Nat : m \in 1..(n + 1) /\ published'[m] = told[p][i]
    <3>1. PICK m \in Nat : At(m, told[p][i])
      BY DEF Inv, ToldInv
    <3> QED
      BY <1>2, <1>4, <3>1 DEF At
  <2>4. ASSUME NEW i \in 1..Len(told[p]), NEW j \in 1..Len(told[p]),
               NEW k \in Nat, NEW m \in Nat,
               i < j, k \in 1..(n + 1), published'[k] = told[p][i],
               m \in 1..(n + 1), published'[m] = told[p][j]
        PROVE  k < m
    <3>1. told[p][i] # t /\ told[p][j] # t
      BY <1>9
    <3>2. k # n + 1 /\ m # n + 1
      BY <1>4, <2>4, <3>1
    <3>3. k \in 1..n /\ m \in 1..n
      BY <2>4, <3>2
    <3>4. At(k, told[p][i]) /\ At(m, told[p][j])
      BY <1>2, <1>4, <2>4, <3>3 DEF At
    <3> QED
      BY <2>4, <3>4 DEF Inv, ToldInv
  <2>5. ToldInv(p)'
    BY ZenonT(60), <1>4, <2>2, <2>3, <2>4 DEF ToldInv, At
  <2> QED
    BY <2>1, <2>5
<1>12. NetworkStatCurrent'
  BY <1>1 DEF Inv, NetworkStatCurrent, NetworkEvent
<1> QED
  BY <1>5, <1>6, <1>10, <1>11, <1>12 DEF Inv

\* Steps of the sockets and the relay that publish and tell nothing.
LEMMA ToldUntouched ==
  ASSUME Inv, UNCHANGED <<published, told, networkStat>>
  PROVE  /\ PublishedInv' /\ NetworkStatCurrent'
         /\ \A p \in Pages : ToldInv(p)'
         /\ \A n, t : At(n, t)' <=> At(n, t)
<1>1. PublishedInv' /\ NetworkStatCurrent'
  BY DEF Inv, PublishedInv, NetworkStatCurrent, NetworkEvent
<1>2. \A n, t : At(n, t)' <=> At(n, t)
  BY DEF At
<1>3. ASSUME NEW p \in Pages PROVE ToldInv(p)'
  BY <1>2 DEF Inv, ToldInv
<1> QED
  BY <1>1, <1>2, <1>3

LEMMA RegisterStep ==
  ASSUME Inv, NEW c \in Conns, Register(c) PROVE Inv'
<1>1. /\ sock[c] \in {"connecting", "open"} /\ c \notin connected
      /\ connected' = connected \cup {c}
      /\ from' = [from EXCEPT ![c] = Len(published)]
      /\ UNCHANGED <<published, seen, left, sock, handled, unloaded, listeners,
                     networkStat, told>>
  BY DEF Register, Relay!Connect, pageVars, objectVars
<1>2. PICK n \in Nat : n = Len(published)
  BY LengthFacts
<1>3. from' = [from EXCEPT ![c] = n]
  BY <1>1, <1>2
<1>4. Shape' /\ from'[c] = n /\ \A d \in Conns \ {c} : from'[d] = from[d]
  BY <1>1, <1>3 DEF Inv, Shape
<1>5. /\ PublishedInv' /\ NetworkStatCurrent' /\ \A p \in Pages : ToldInv(p)'
      /\ \A k, t : At(k, t)' <=> At(k, t)
  BY <1>1, ToldUntouched
<1>6. \A p \in Pages : SocketInv(p)'
  BY <1>1 DEF Inv, SocketInv
<1>7. seen[c] = <<>> /\ Len(seen[c]) = 0 /\ handled[c] = 0
  <2>1. seen[c] = <<>> /\ handled[c] <= Len(seen[c])
    BY <1>1 DEF Inv, SeenInv
  <2>2. Len(seen[c]) = 0
    BY <2>1, EmptySeq
  <2> QED
    BY <2>1, <2>2, LengthFacts
<1>8. ASSUME NEW d \in Conns PROVE SeenInv(d)' /\ Reached(d)'
  <2>1. CASE d = c
    <3>1. SeenInv(c)'
      BY <1>1, <1>2, <1>4, <1>7 DEF SeenInv
    <3>2. Reached(c)'
      BY <1>1, <1>2, <1>4, <1>5, <1>7 DEF Reached, At
    <3> QED
      BY <2>1, <3>1, <3>2
  <2>2. CASE d # c
    BY <1>1, <1>4, <1>5, <2>2 DEF Inv, SeenInv, Reached
  <2> QED
    BY <2>1, <2>2
<1> QED
  BY <1>4, <1>5, <1>6, <1>8 DEF Inv

LEMMA DeliverStep ==
  ASSUME Inv, NEW c \in Conns, Deliver(c) PROVE Inv'
<1>1. /\ c \in connected
      /\ from[c] + Len(seen[c]) + 1 <= Len(published)
      /\ seen' = [seen EXCEPT ![c] = Append(@, published[from[c] + Len(seen[c]) + 1])]
      /\ UNCHANGED <<published, from, connected, left, sock, handled, unloaded,
                     listeners, networkStat, told>>
  BY DEF Deliver, Relay!Deliver, pageVars, objectVars
<1>2. PICK n \in Nat : n = Len(published)
  BY LengthFacts
<1>3. PICK f \in Nat : f = from[c]
  BY LengthFacts
<1>4. PICK l \in Nat : l = Len(seen[c])
  BY LengthFacts
<1>5. f + l + 1 \in 1..n
  BY <1>1, <1>2, <1>3, <1>4
<1>6. published[f + l + 1] \in Triggers
  BY <1>2, <1>5, ElementOfSeq DEF Inv, Shape
<1>7. PICK more \in Seq(Triggers) : more = Append(seen[c], published[f + l + 1])
  BY <1>6, LengthFacts, AppendProperties
<1>8. /\ Len(more) = l + 1 /\ more[l + 1] = published[f + l + 1]
      /\ \A i \in 1..l : more[i] = seen[c][i]
  BY <1>4, <1>6, <1>7, LengthFacts, AppendProperties
<1>9. seen' = [seen EXCEPT ![c] = more]
  BY <1>1, <1>3, <1>4, <1>7
<1>10. Shape' /\ seen'[c] = more /\ \A d \in Conns \ {c} : seen'[d] = seen[d]
  BY <1>1, <1>9 DEF Inv, Shape
<1>11. /\ PublishedInv' /\ NetworkStatCurrent' /\ \A p \in Pages : ToldInv(p)'
       /\ \A k, t : At(k, t)' <=> At(k, t)
  BY <1>1, ToldUntouched
<1>12. \A p \in Pages : SocketInv(p)'
  BY <1>1 DEF Inv, SocketInv
<1>13. SeenInv(c)'
  <2>1. \A i \in 1..l : seen[c][i] = published[f + i]
    BY <1>3, <1>4 DEF Inv, SeenInv
  <2>2. \A i \in 1..(l + 1) : more[i] = published[f + i]
    <3> TAKE i \in 1..(l + 1)
    <3>1. CASE i = l + 1
      BY <1>8, <3>1
    <3>2. CASE i \in 1..l
      BY <1>8, <2>1, <3>2
    <3> QED
      BY <3>1, <3>2
  <2>3. handled[c] <= l /\ handled[c] \in Nat
    BY <1>4, LengthFacts DEF Inv, SeenInv
  <2>4. handled[c] <= l + 1 /\ f + (l + 1) <= n
    BY <1>5, <2>3
  <2>5. sock[c] # "none"
    BY <1>1 DEF Inv, SeenInv
  <2> QED
    BY <1>1, <1>2, <1>3, <1>8, <1>10, <2>2, <2>4, <2>5 DEF SeenInv
<1>14. ASSUME NEW d \in Conns PROVE SeenInv(d)' /\ Reached(d)'
  <2>1. Reached(d)'
    BY <1>1, <1>11 DEF Inv, Reached
  <2>2. d # c => SeenInv(d)'
    BY <1>1, <1>10 DEF Inv, SeenInv
  <2> QED
    BY <1>13, <2>1, <2>2
<1> QED
  BY <1>10, <1>11, <1>12, <1>14 DEF Inv

-----------------------------------------------------------------------------
(* The sockets                                                             *)

\* A step that changes sockets, listeners and pages, and tells nothing.
LEMMA QuietStep ==
  ASSUME Inv,
         UNCHANGED <<published, from, seen, connected, handled, networkStat, told>>,
         left' \subseteq Conns, sock' \in [Conns -> SocketStates],
         unloaded' \subseteq Pages, listeners' \in [Pages -> SUBSET Apis],
         \A c \in Conns : sock'[c] = "none" =>
           sock[c] = "none" /\ (c \in left' => c \in left),
         \A c \in Conns : sock'[c] \in Live => sock[c] \in Live \cup {"none"},
         \A p \in Pages : SocketInv(p)'
  PROVE  Inv'
<1>1. Shape'
  BY DEF Inv, Shape
<1>2. /\ PublishedInv' /\ NetworkStatCurrent' /\ \A p \in Pages : ToldInv(p)'
      /\ \A k, t : At(k, t)' <=> At(k, t)
  BY ToldUntouched
<1>3. ASSUME NEW c \in Conns PROVE SeenInv(c)'
  BY DEF Inv, SeenInv
<1>4. ASSUME NEW c \in Conns PROVE Reached(c)'
  <2>1. sock'[c] \in Live /\ c \in connected => sock[c] \in Live
    BY DEF Inv, SeenInv
  <2>2. Reached(c)
    BY DEF Inv
  <2> QED
    BY <1>2, <2>1, <2>2 DEF Reached
<1> QED
  BY <1>1, <1>2, <1>3, <1>4 DEF Inv

\* The sockets of the pages other than p are left alone.
LEMMA OtherSockets ==
  ASSUME Inv, NEW p \in Pages,
         \A c \in Conns : c[1] # p => sock'[c] = sock[c],
         SocketInv(p)'
  PROVE  \A q \in Pages : SocketInv(q)'
<1> SUFFICES ASSUME NEW q \in Pages, q # p PROVE SocketInv(q)'
  OBVIOUS
<1>1. \A k \in 1..MaxConns : sock'[<<q, k>>] = sock[<<q, k>>]
  <2> TAKE k \in 1..MaxConns
  <2>1. <<q, k>> \in Conns /\ <<q, k>>[1] = q
    BY Connection
  <2> QED
    BY <2>1
<1> QED
  BY <1>1 DEF Inv, SocketInv

\* A socket that is not there yet stays so, a done one stays done.
LEMMA SocketChanges ==
  ASSUME Inv, NEW c \in Conns, sock[c] \in Live, NEW s \in Live,
         sock' = [sock EXCEPT ![c] = s]
  PROVE  /\ sock' \in [Conns -> SocketStates]
         /\ \A d \in Conns : /\ sock'[d] = "none" => sock[d] = "none"
                             /\ sock'[d] \in Live => sock[d] \in Live
         /\ \A p \in Pages : SocketInv(p)'
<1>1. sock' \in [Conns -> SocketStates] /\ sock'[c] = s
      /\ \A d \in Conns \ {c} : sock'[d] = sock[d]
  BY DEF Inv, Shape, Live, SocketStates
<1>2. \A d \in Conns : /\ sock'[d] = "none" <=> sock[d] = "none"
                       /\ sock'[d] = "done" <=> sock[d] = "done"
                       /\ sock'[d] \in Live => sock[d] \in Live
  <2> TAKE d \in Conns
  <2>1. CASE d = c
    BY <1>1, <2>1 DEF Live
  <2>2. CASE d # c
    BY <1>1, <2>2
  <2> QED
    BY <2>1, <2>2
<1>3. ASSUME NEW p \in Pages PROVE SocketInv(p)'
  BY <1>2, Connection DEF Inv, SocketInv
<1> QED
  BY <1>1, <1>2, <1>3

LEMMA OpenStep ==
  ASSUME Inv, NEW c \in Conns, Open(c) PROVE Inv'
<1>1. /\ sock[c] \in Live /\ sock' = [sock EXCEPT ![c] = "open"]
      /\ UNCHANGED <<published, from, seen, connected, handled, networkStat,
                     told, left, unloaded, listeners>>
  BY DEF Open, relayVars, objectVars, Live
<1>2. "open" \in Live
  BY DEF Live
<1>3. /\ sock' \in [Conns -> SocketStates]
      /\ \A d \in Conns : /\ sock'[d] = "none" => sock[d] = "none"
                          /\ sock'[d] \in Live => sock[d] \in Live
      /\ \A p \in Pages : SocketInv(p)'
  BY <1>1, <1>2, SocketChanges
<1>4. left' \subseteq Conns /\ unloaded' \subseteq Pages
      /\ listeners' \in [Pages -> SUBSET Apis]
  BY <1>1 DEF Inv, Shape
<1> QED
  BY <1>1, <1>3, <1>4, QuietStep

LEMMA ClosedStep ==
  ASSUME Inv, NEW c \in Conns, Closed(c) PROVE Inv'
<1>1. /\ sock[c] \in Live /\ sock' = [sock EXCEPT ![c] = "closed"]
      /\ UNCHANGED <<published, from, seen, connected, handled, networkStat,
                     told, left, unloaded, listeners>>
  BY DEF Closed, relayVars, objectVars, Live
<1>2. "closed" \in Live
  BY DEF Live
<1>3. /\ sock' \in [Conns -> SocketStates]
      /\ \A d \in Conns : /\ sock'[d] = "none" => sock[d] = "none"
                          /\ sock'[d] \in Live => sock[d] \in Live
      /\ \A p \in Pages : SocketInv(p)'
  BY <1>1, <1>2, SocketChanges
<1>4. left' \subseteq Conns /\ unloaded' \subseteq Pages
      /\ listeners' \in [Pages -> SUBSET Apis]
  BY <1>1 DEF Inv, Shape
<1> QED
  BY <1>1, <1>3, <1>4, QuietStep

LEMMA OpenFailsStep ==
  ASSUME Inv, NEW c \in Conns, OpenFails(c) PROVE Inv'
<1>1. /\ sock[c] = "connecting" /\ sock' = [sock EXCEPT ![c] = "closed"]
      /\ left' \in {left, left \cup {c}}
      /\ UNCHANGED <<published, from, seen, connected, handled, networkStat,
                     told, unloaded, listeners>>
  BY DEF OpenFails, Relay!Leave, relayVars, objectVars
<1>2. "closed" \in Live /\ sock[c] \in Live
  BY <1>1 DEF Live
<1>3. /\ sock' \in [Conns -> SocketStates]
      /\ \A d \in Conns : /\ sock'[d] = "none" => sock[d] = "none"
                          /\ sock'[d] \in Live => sock[d] \in Live
      /\ \A p \in Pages : SocketInv(p)'
  BY <1>1, <1>2, SocketChanges
<1>4. left' \subseteq Conns /\ unloaded' \subseteq Pages
      /\ listeners' \in [Pages -> SUBSET Apis]
  BY <1>1 DEF Inv, Shape
<1>5. \A d \in Conns : sock'[d] = "none" => (d \in left' => d \in left)
  BY <1>1, <1>3
<1> QED
  BY <1>1, <1>3, <1>4, <1>5, QuietStep

LEMMA CutStep ==
  ASSUME Inv, NEW c \in Conns, Cut(c) PROVE Inv'
<1>1. /\ sock[c] = "open" /\ left' = left \cup {c}
      /\ UNCHANGED <<published, from, seen, connected, handled, networkStat,
                     told, sock, unloaded, listeners>>
  BY DEF Cut, Relay!Leave, pageVars, objectVars
<1>2. /\ left' \subseteq Conns /\ unloaded' \subseteq Pages
      /\ listeners' \in [Pages -> SUBSET Apis] /\ sock' \in [Conns -> SocketStates]
  BY <1>1 DEF Inv, Shape
<1>3. \A p \in Pages : SocketInv(p)'
  BY <1>1 DEF Inv, SocketInv
<1>4. \A d \in Conns : sock'[d] = "none" =>
        sock[d] = "none" /\ (d \in left' => d \in left)
  BY <1>1
<1> QED
  BY <1>1, <1>2, <1>3, <1>4, QuietStep

LEMMA UnloadStep ==
  ASSUME Inv, NEW p \in Pages, Unload(p) PROVE Inv'
<1>1. /\ \/ left' = left
         \/ \E c \in Conns : sock[c] # "none" /\ left' = left \cup {c}
      /\ unloaded' = unloaded \cup {p}
      /\ UNCHANGED <<published, from, seen, connected, handled, networkStat,
                     told, sock, listeners>>
  BY DEF Unload, Relay!Leave, relayVars
<1>2. /\ left' \subseteq Conns /\ unloaded' \subseteq Pages
      /\ listeners' \in [Pages -> SUBSET Apis] /\ sock' \in [Conns -> SocketStates]
  BY <1>1 DEF Inv, Shape
<1>3. \A q \in Pages : SocketInv(q)'
  BY <1>1 DEF Inv, SocketInv
<1>4. \A d \in Conns : sock'[d] = "none" =>
        sock[d] = "none" /\ (d \in left' => d \in left)
  BY <1>1
<1> QED
  BY <1>1, <1>2, <1>3, <1>4, QuietStep

LEMMA ListenStep ==
  ASSUME Inv, NEW p \in Pages, NEW api \in Listened, Listen(p, api) PROVE Inv'
<1>1. /\ listeners' \in {[listeners EXCEPT ![p] = @ \cup {api}],
                         [listeners EXCEPT ![p] = @ \ {api}]}
      /\ UNCHANGED <<published, from, seen, connected, handled, networkStat,
                     told, sock, left, unloaded>>
  BY DEF Listen, relayVars
<1>2. api \in Apis
  BY EventAssumption
<1>3. /\ left' \subseteq Conns /\ unloaded' \subseteq Pages
      /\ sock' \in [Conns -> SocketStates]
  BY <1>1 DEF Inv, Shape
<1>4. listeners' \in [Pages -> SUBSET Apis]
  <2>1. PICK set \in SUBSET Apis : listeners' = [listeners EXCEPT ![p] = set]
    <3>1. listeners[p] \cup {api} \in SUBSET Apis /\ listeners[p] \ {api} \in SUBSET Apis
      BY <1>2 DEF Inv, Shape
    <3> QED
      BY <1>1, <3>1
  <2> QED
    BY <2>1 DEF Inv, Shape
<1>5. \A q \in Pages : SocketInv(q)'
  BY <1>1 DEF Inv, SocketInv
<1> QED
  BY <1>1, <1>3, <1>4, <1>5, QuietStep

\* A page that has no first socket has no other.
LEMMA ConstructStep ==
  ASSUME Inv, NEW p \in Pages, Construct(p) PROVE Inv'
<1> DEFINE first == <<p, 1>>
<1>1. /\ sock[first] = "none" /\ sock' = [sock EXCEPT ![first] = "connecting"]
      /\ UNCHANGED <<published, from, seen, connected, handled, networkStat,
                     told, left, unloaded, listeners>>
  BY DEF Construct, relayVars, objectVars
<1>2. 1 \in 1..MaxConns /\ first \in Conns /\ first[1] = p
  BY EventAssumption, Connection
<1>3. sock' \in [Conns -> SocketStates] /\ sock'[first] = "connecting"
      /\ \A d \in Conns \ {first} : sock'[d] = sock[d]
  BY <1>1, <1>2 DEF Inv, Shape, SocketStates
<1>4. ASSUME NEW k \in 1..MaxConns, k # 1 PROVE sock'[<<p, k>>] = "none"
  <2>1. <<p, k>> \in Conns /\ <<p, k>> # first /\ 1 < k
    BY <1>4, Connection
  <2>2. sock[<<p, k>>] = "none"
    BY <1>1, <1>2, <2>1 DEF Inv, SocketInv
  <2> QED
    BY <1>3, <2>1, <2>2
<1> HIDE DEF first
<1>5. SocketInv(p)'
  BY <1>4 DEF SocketInv
<1>6. \A q \in Pages : SocketInv(q)'
  BY <1>2, <1>3, <1>5, OtherSockets
<1>7. \A d \in Conns : /\ sock'[d] = "none" => sock[d] = "none"
                       /\ sock'[d] \in Live => sock[d] \in Live \cup {"none"}
  <2> TAKE d \in Conns
  <2>1. CASE d = first
    BY <1>1, <1>3, <2>1
  <2>2. CASE d # first
    BY <1>3, <2>2
  <2> QED
    BY <2>1, <2>2
<1>8. left' \subseteq Conns /\ unloaded' \subseteq Pages
      /\ listeners' \in [Pages -> SUBSET Apis]
  BY <1>1 DEF Inv, Shape
<1> QED
  BY <1>1, <1>3, <1>6, <1>7, <1>8, QuietStep

\* The socket after a closed one is not there yet, those before it are done.
LEMMA ReconnectStep ==
  ASSUME Inv, NEW c \in Conns, Reconnect(c) PROVE Inv'
<1>0. PICK p \in Pages, k \in 1..MaxConns : c = <<p, k>> /\ c[1] = p /\ c[2] = k
  BY ConnFacts
<1> DEFINE next == <<p, k + 1>>
<1>1. /\ sock[c] = "closed" /\ k < MaxConns
      /\ sock' = [sock EXCEPT ![c] = "done", ![next] = "connecting"]
      /\ UNCHANGED <<published, from, seen, connected, handled, networkStat,
                     told, left, unloaded, listeners>>
  BY <1>0 DEF Reconnect, relayVars, objectVars
<1>2. /\ k + 1 \in 1..MaxConns /\ next \in Conns
      /\ next # c /\ next[1] = p
  BY <1>0, <1>1, ConnFacts, Connection
<1>3. /\ sock' \in [Conns -> SocketStates] /\ sock'[c] = "done"
      /\ sock'[next] = "connecting"
      /\ \A d \in Conns \ {c, next} : sock'[d] = sock[d]
  BY <1>1, <1>2 DEF Inv, Shape, SocketStates
<1>4. ASSUME NEW j \in 1..MaxConns, k < j PROVE sock[<<p, j>>] = "none"
  BY <1>0, <1>1, <1>4 DEF Inv, SocketInv
<1>5. ASSUME NEW j \in 1..MaxConns, j < k PROVE sock[<<p, j>>] = "done"
  BY <1>0, <1>1, <1>5 DEF Inv, SocketInv
<1>6. ASSUME NEW j \in 1..MaxConns, k + 1 < j PROVE sock'[<<p, j>>] = "none"
  <2>1. <<p, j>> \in Conns \ {c, next}
    BY <1>0, <1>6, Connection
  <2> QED
    BY <1>3, <1>4, <1>6, <2>1
<1>7. ASSUME NEW j \in 1..MaxConns, j < k PROVE sock'[<<p, j>>] = "done"
  <2>1. <<p, j>> \in Conns \ {c, next}
    BY <1>0, <1>7, Connection
  <2> QED
    BY <1>3, <1>5, <1>7, <2>1
<1>8. SocketInv(p)'
  <2> SUFFICES ASSUME NEW i \in 1..MaxConns, NEW j \in 1..MaxConns, i < j,
                      sock'[<<p, j>>] # "none"
               PROVE  sock'[<<p, i>>] = "done"
    BY DEF SocketInv
  <2>1. ~(k + 1 < j)
    BY <1>6
  <2>2. i = k \/ i < k
    BY <2>1
  <2> QED
    BY <1>0, <1>3, <1>7, <2>2
<1>9. next \in Conns /\ next[1] = p /\ sock[next] = "none"
  BY <1>2, <1>4
<1> HIDE DEF next
<1>10. \A q \in Pages : SocketInv(q)'
  BY <1>0, <1>3, <1>8, <1>9, OtherSockets
<1>11. \A d \in Conns : /\ sock'[d] = "none" => sock[d] = "none"
                        /\ sock'[d] \in Live => sock[d] \in Live \cup {"none"}
  <2> TAKE d \in Conns
  <2>1. CASE d = next
    BY <1>3, <1>9, <2>1
  <2>2. CASE d = c
    BY <1>3, <2>2 DEF Live
  <2>3. CASE d \notin {c, next}
    BY <1>3, <2>3
  <2> QED
    BY <2>1, <2>2, <2>3
<1>12. left' \subseteq Conns /\ unloaded' \subseteq Pages
       /\ listeners' \in [Pages -> SUBSET Apis]
  BY <1>1 DEF Inv, Shape
<1> QED
  BY <1>1, <1>3, <1>10, <1>11, <1>12, QuietStep

-----------------------------------------------------------------------------
(* handleEvent                                                             *)

\* A page has one socket at a time that messages arrive on.
LEMMA OneLive ==
  ASSUME Inv, NEW c \in Conns, NEW d \in Conns, c[1] = d[1],
         sock[c] \in Live, sock[d] \in Live
  PROVE  c = d
<1>1. PICK p \in Pages, j \in 1..MaxConns : c = <<p, j>> /\ c[1] = p
  BY ConnFacts
<1>2. PICK q \in Pages, k \in 1..MaxConns : d = <<q, k>> /\ d[1] = q
  BY ConnFacts
<1>3. p = q
  BY <1>1, <1>2
<1>4. ~(j < k) /\ ~(k < j)
  BY <1>1, <1>2, <1>3 DEF Inv, SocketInv, Live
<1> QED
  BY <1>1, <1>2, <1>3, <1>4

\* The next message of a socket, and the place of its event.
LEMMA NextMessage ==
  ASSUME Inv, NEW c \in Conns, handled[c] < Len(seen[c]),
         NEW t, t = seen[c][handled[c] + 1]
  PROVE  /\ t \in Triggers /\ At(from[c] + handled[c] + 1, t) /\ c \in connected
         /\ \A n \in Nat : At(n, t) => n = from[c] + handled[c] + 1
<1>1. PICK f \in Nat : f = from[c]
  BY LengthFacts
<1>2. PICK h \in Nat : h = handled[c]
  BY LengthFacts
<1>3. PICK l \in Nat : l = Len(seen[c])
  BY LengthFacts
<1>4. PICK n \in Nat : n = Len(published)
  BY LengthFacts
<1>5. f + l <= n /\ \A i \in 1..l : seen[c][i] = published[f + i]
  BY <1>1, <1>3, <1>4 DEF Inv, SeenInv
<1>6. h + 1 \in 1..l
  BY <1>2, <1>3
<1>7. f + (h + 1) \in 1..n /\ t = published[f + (h + 1)]
  <2>1. f + (h + 1) \in 1..n
    BY <1>5, <1>6
  <2>2. t = seen[c][h + 1]
    BY <1>2
  <2>3. seen[c][h + 1] = published[f + (h + 1)]
    BY <1>5, <1>6
  <2> QED
    BY <2>1, <2>2, <2>3
<1>8. t \in Triggers
  BY <1>4, <1>7, ElementOfSeq DEF Inv, Shape
<1>9. c \in connected
  <2>1. c \notin connected => seen[c] = <<>>
    BY DEF Inv, SeenInv
  <2>2. seen[c] # <<>>
    BY <1>3, <1>6, EmptySeq
  <2> QED
    BY <2>1, <2>2
<1>10. f + (h + 1) = from[c] + handled[c] + 1
  BY <1>1, <1>2
<1>11. \A m \in Nat : At(m, t) => m = f + (h + 1)
  BY <1>4, <1>7 DEF At, Inv, PublishedInv
<1> QED
  BY <1>4, <1>7, <1>8, <1>9, <1>10, <1>11 DEF At

\* A network event gives the same state whatever the last one was.
LEMMA NetworkStatFacts ==
  ASSUME NEW t \in Triggers, NEW old \in 0..3
  PROVE  LET code == Event[t].eventCode
         IN /\ NetworkStat(code, old) \in 0..3
            /\ code \in {0, 1, 2, 6} => NetworkStat(code, old) = NetworkStat(code, 2)
            /\ code \notin {0, 1, 2, 6} => NetworkStat(code, old) = old
BY EventAssumption DEF NetworkStat

\* What one page is told changes nothing of what another was told.
LEMMA ToldStep ==
  ASSUME Inv, NEW c \in Conns, NEW p \in Pages, p = c[1],
         NEW t \in Triggers, handled[c] < Len(seen[c]),
         t = seen[c][handled[c] + 1], sock[c] = "open",
         UNCHANGED <<published, from, seen, connected, sock>>,
         handled' = [handled EXCEPT ![c] = @ + 1],
         told' = [told EXCEPT ![p] = Append(@, t)]
  PROVE  /\ told' \in [Pages -> Seq(Triggers)]
         /\ \A q \in Pages : ToldInv(q)'
         /\ \A d \in Conns : Reached(d)'
<1>1. PICK f \in Nat : f = from[c]
  BY LengthFacts
<1>2. PICK h \in Nat : h = handled[c]
  BY LengthFacts
<1>3. PICK l \in Nat : l = Len(told[p])
  BY LengthFacts
<1> DEFINE place == f + h + 1
<1>4. /\ At(place, t) /\ c \in connected /\ place \in Nat
      /\ \A n \in Nat : At(n, t) => n = place
  BY SMTT(30), <1>1, <1>2, NextMessage
<1>5. \A i \in 1..l, n \in Nat : At(n, told[p][i]) => n < place
  <2>1. sock[c] \in Live
    BY DEF Live
  <2>2. \A i \in 1..l, n \in Nat : At(n, told[p][i]) => n <= f + h
    BY <1>1, <1>2, <1>3, <1>4, <2>1 DEF Inv, Reached
  <2> QED
    BY <2>2
<1>6. PICK more \in Seq(Triggers) : more = Append(told[p], t)
  BY LengthFacts, AppendProperties
<1>7. /\ Len(more) = l + 1 /\ more[l + 1] = t
      /\ \A i \in 1..l : more[i] = told[p][i]
  BY <1>3, <1>6, LengthFacts, AppendProperties
<1>8. told' = [told EXCEPT ![p] = more]
  BY <1>6
<1>9. /\ told' \in [Pages -> Seq(Triggers)] /\ told'[p] = more
      /\ \A q \in Pages \ {p} : told'[q] = told[q]
  BY <1>8 DEF Inv, Shape
<1>10. \A n, e : At(n, e)' <=> At(n, e)
  BY DEF At
<1>11. \A k \in 1..(l + 1) : k \in 1..l \/ k = l + 1
  OBVIOUS
<1> HIDE DEF place
<1>12. ToldInv(p)'
  <2>1. ASSUME NEW i \in 1..(l + 1) PROVE \E n \in Nat : At(n, more[i])
    <3>1. CASE i \in 1..l
      BY <1>3, <1>7, <3>1 DEF Inv, ToldInv
    <3>2. CASE i = l + 1
      BY <1>4, <1>7, <3>2
    <3> QED
      BY <1>11, <3>1, <3>2
  <2>2. ASSUME NEW i \in 1..(l + 1), NEW j \in 1..(l + 1),
               NEW m \in Nat, NEW n \in Nat,
               i < j, At(m, more[i]), At(n, more[j])
        PROVE  m < n
    <3>1. i \in 1..l
      BY <2>2
    <3>2. more[i] = told[p][i]
      BY <1>7, <3>1
    <3>3. CASE j \in 1..l
      BY <1>3, <1>7, <2>2, <3>1, <3>2, <3>3 DEF Inv, ToldInv
    <3>4. CASE j = l + 1
      <4>1. n = place
        BY <1>4, <1>7, <2>2, <3>4
      <4> QED
        BY <1>5, <2>2, <3>1, <3>2, <4>1
    <3> QED
      BY <1>11, <3>3, <3>4
  <2>3. told'[p] = more /\ Len(more) = l + 1 /\ published' = published
    BY <1>7, <1>9
  <2>4. \A i \in 1..Len(told'[p]) :
          \E n \in Nat : n \in 1..Len(published') /\ published'[n] = told'[p][i]
    BY ZenonT(60), <2>1, <2>3 DEF At
  <2>5. ASSUME NEW i \in 1..Len(told'[p]), NEW j \in 1..Len(told'[p]),
               NEW m \in Nat, NEW n \in Nat, i < j,
               At(m, told[p][i])', At(n, told[p][j])'
        PROVE  m < n
    <3>1. i \in 1..(l + 1) /\ j \in 1..(l + 1)
      BY <2>3
    <3>2. At(m, more[i]) /\ At(n, more[j])
      BY <2>3, <2>5 DEF At
    <3> QED
      BY <2>2, <2>5, <3>1, <3>2
  <2> QED
    BY <2>4, <2>5 DEF ToldInv, At
<1>13. ASSUME NEW q \in Pages, q # p PROVE ToldInv(q)'
  BY <1>9, <1>13 DEF Inv, ToldInv, At
<1>14. Reached(c)'
  <2>1. handled'[c] = h + 1
    BY <1>2 DEF Inv, Shape
  <2>2. ASSUME NEW i \in 1..(l + 1), NEW n \in Nat, At(n, more[i])
        PROVE  n <= f + (h + 1)
    <3>1. CASE i \in 1..l
      BY <1>5, <1>7, <2>2, <3>1 DEF place
    <3>2. CASE i = l + 1
      BY <1>4, <1>7, <2>2, <3>2 DEF place
    <3> QED
      BY <1>11, <3>1, <3>2
  <2> QED
    BY <1>1, <1>7, <1>9, <2>1, <2>2 DEF Reached, At
<1>15. ASSUME NEW d \in Conns, d # c PROVE Reached(d)'
  <2>1. handled'[d] = handled[d] /\ d[1] \in Pages
    BY <1>15, ConnFacts DEF Inv, Shape
  <2>2. CASE d[1] = p
    <3>1. sock[d] \notin Live
      BY <1>15, <2>2, OneLive DEF Live
    <3> QED
      BY <3>1 DEF Reached
  <2>3. CASE d[1] # p
    BY <1>9, <2>1, <2>3 DEF Inv, Reached, At
  <2> QED
    BY <2>2, <2>3
<1> QED
  BY <1>9, <1>12, <1>13, <1>14, <1>15

\* The state of the network follows the last network event that was told.
LEMMA StatStep ==
  ASSUME Inv, NEW p \in Pages, NEW t \in Triggers, Dispatch(p, t)
  PROVE  networkStat' \in [Pages -> 0..3] /\ NetworkStatCurrent'
<1> DEFINE code == Event[t].eventCode
<1>1. PICK stat \in 0..3 :
        /\ networkStat' = [networkStat EXCEPT ![p] = stat]
        /\ NetworkEvent(t) => stat = NetworkStat(code, 2)
        /\ ~NetworkEvent(t) => stat = networkStat[p]
  <2>1. networkStat[p] \in 0..3 /\ networkStat \in [Pages -> 0..3]
    BY DEF Inv, Shape
  <2>2. CASE Event[t].api = "startEventListen"
    <3>1. networkStat' = [networkStat EXCEPT ![p] = NetworkStat(code, networkStat[p])]
      BY <2>2 DEF Dispatch, NewStat
    <3> QED
      BY <2>1, <2>2, <3>1, NetworkStatFacts DEF NetworkEvent
  <2>3. CASE Event[t].api # "startEventListen"
    BY <2>1, <2>3 DEF Dispatch, NetworkEvent
  <2> QED
    BY <2>2, <2>3
<1>2. PICK l \in Nat : l = Len(told[p])
  BY LengthFacts
<1>3. PICK more \in Seq(Triggers) : more = Append(told[p], t)
  BY LengthFacts, AppendProperties
<1>4. /\ Len(more) = l + 1 /\ more[l + 1] = t /\ DOMAIN more = 1..(l + 1)
      /\ \A i \in 1..l : more[i] = told[p][i]
  BY <1>2, <1>3, LengthFacts, AppendProperties, LenProperties
<1>5. /\ networkStat' \in [Pages -> 0..3] /\ networkStat'[p] = stat
      /\ \A q \in Pages \ {p} : networkStat'[q] = networkStat[q]
  BY <1>1 DEF Inv, Shape
<1>6. told'[p] = more /\ \A q \in Pages \ {p} : told'[q] = told[q]
  <2>1. told' = [told EXCEPT ![p] = more]
    BY <1>3 DEF Dispatch, Told
  <2> QED
    BY <2>1 DEF Inv, Shape
<1>7. DOMAIN told[p] = 1..l
  BY <1>2, LengthFacts, LenProperties
<1>8. \A k \in 1..(l + 1) : k \in 1..l \/ k = l + 1
  OBVIOUS
<1> HIDE DEF code
<1>9. \/ /\ stat = 2
         /\ \A i \in DOMAIN more : ~NetworkEvent(more[i])
      \/ \E i \in DOMAIN more :
           /\ NetworkEvent(more[i])
           /\ \A j \in DOMAIN more : j > i => ~NetworkEvent(more[j])
           /\ stat = NetworkStat(Event[more[i]].eventCode, 2)
  <2>1. CASE NetworkEvent(t)
    <3>1. l + 1 \in DOMAIN more /\ NetworkEvent(more[l + 1])
          /\ stat = NetworkStat(Event[more[l + 1]].eventCode, 2)
      BY <1>1, <1>4, <2>1 DEF code
    <3>2. \A j \in DOMAIN more : ~(j > l + 1)
      BY <1>4
    <3> QED
      BY <3>1, <3>2
  <2>2. CASE ~NetworkEvent(t)
    <3>1. stat = networkStat[p] /\ ~NetworkEvent(more[l + 1])
      BY <1>1, <1>4, <2>2
    <3>2. CASE /\ networkStat[p] = 2
               /\ \A i \in DOMAIN told[p] : ~NetworkEvent(told[p][i])
      BY <1>4, <1>7, <1>8, <3>1, <3>2
    <3>3. CASE \E i \in DOMAIN told[p] :
                 /\ NetworkEvent(told[p][i])
                 /\ \A j \in DOMAIN told[p] : j > i => ~NetworkEvent(told[p][j])
                 /\ networkStat[p] = NetworkStat(Event[told[p][i]].eventCode, 2)
      <4>1. PICK i \in 1..l :
              /\ NetworkEvent(told[p][i])
              /\ \A j \in 1..l : j > i => ~NetworkEvent(told[p][j])
              /\ networkStat[p] = NetworkStat(Event[told[p][i]].eventCode, 2)
        BY <1>7, <3>3
      <4>2. i \in DOMAIN more /\ more[i] = told[p][i]
        BY <1>4
      <4>3. \A j \in DOMAIN more : j > i => ~NetworkEvent(more[j])
        BY <1>4, <1>8, <3>1, <4>1
      <4> QED
        BY <3>1, <4>1, <4>2, <4>3
    <3> QED
      BY <3>2, <3>3 DEF Inv, NetworkStatCurrent
  <2> QED
    BY <2>1, <2>2
<1>10. NetworkStatCurrent'
  <2> SUFFICES ASSUME NEW q \in Pages
        PROVE \/ /\ networkStat'[q] = 2
                 /\ \A i \in DOMAIN told'[q] : ~NetworkEvent(told'[q][i])
              \/ \E i \in DOMAIN told'[q] :
                   /\ NetworkEvent(told'[q][i])
                   /\ \A j \in DOMAIN told'[q] : j > i => ~NetworkEvent(told'[q][j])
                   /\ networkStat'[q] = NetworkStat(Event[told'[q][i]].eventCode, 2)
    BY DEF NetworkStatCurrent, NetworkEvent
  <2>1. CASE q = p
    BY <1>5, <1>6, <1>9, <2>1
  <2>2. CASE q # p
    BY <1>5, <1>6, <2>2 DEF Inv, NetworkStatCurrent
  <2> QED
    BY <2>1, <2>2
<1> QED
  BY <1>5, <1>10

LEMMA HandleStep ==
  ASSUME Inv, NEW c \in Conns, Handle(c) PROVE Inv'
<1> DEFINE t == seen[c][handled[c] + 1]
<1>1. PICK p \in Pages : p = c[1]
  BY ConnFacts
<1>2. /\ sock[c] = "open" /\ handled[c] < Len(seen[c])
      /\ handled' = [handled EXCEPT ![c] = @ + 1]
      /\ UNCHANGED <<published, from, seen, connected, left, sock, unloaded, listeners>>
      /\ Dispatch(p, t) \/ UNCHANGED <<told, networkStat>>
  BY <1>1 DEF Handle, relayVars
<1>3. PICK h \in Nat : h = handled[c]
  BY LengthFacts
<1>4. /\ handled' \in [Conns -> Nat] /\ handled'[c] = h + 1
      /\ \A d \in Conns \ {c} : handled'[d] = handled[d]
  <2>1. handled' = [handled EXCEPT ![c] = h + 1]
    BY <1>2, <1>3
  <2> QED
    BY <2>1 DEF Inv, Shape
<1>5. t \in Triggers /\ c \in connected
  BY <1>2, NextMessage
<1>6. PublishedInv' /\ \A q \in Pages : SocketInv(q)'
  BY <1>2 DEF Inv, PublishedInv, SocketInv
<1>7. ASSUME NEW d \in Conns PROVE SeenInv(d)'
  <2>1. CASE d = c
    <3>1. h + 1 <= Len(seen[c])
      BY <1>2, <1>3, LengthFacts
    <3> QED
      BY <1>2, <1>4, <2>1, <3>1 DEF Inv, SeenInv
  <2>2. CASE d # c
    BY <1>2, <1>4, <2>2 DEF Inv, SeenInv
  <2> QED
    BY <2>1, <2>2
<1>8. ASSUME NEW e \in Triggers, e = t, Dispatch(p, e)
      PROVE  /\ told' \in [Pages -> Seq(Triggers)] /\ networkStat' \in [Pages -> 0..3]
             /\ NetworkStatCurrent' /\ \A q \in Pages : ToldInv(q)'
             /\ \A d \in Conns : Reached(d)'
  <2>1. told' = [told EXCEPT ![p] = Append(@, e)]
    BY <1>8 DEF Dispatch, Told
  <2>2. networkStat' \in [Pages -> 0..3] /\ NetworkStatCurrent'
    BY <1>8, StatStep
  <2>3. /\ told' \in [Pages -> Seq(Triggers)] /\ \A q \in Pages : ToldInv(q)'
        /\ \A d \in Conns : Reached(d)'
    BY <1>1, <1>2, <1>8, <2>1, ToldStep
  <2> QED
    BY <2>2, <2>3
<1>9. ASSUME UNCHANGED <<told, networkStat>>
      PROVE  /\ told' \in [Pages -> Seq(Triggers)] /\ networkStat' \in [Pages -> 0..3]
             /\ NetworkStatCurrent' /\ \A q \in Pages : ToldInv(q)'
             /\ \A d \in Conns : Reached(d)'
  <2>1. /\ NetworkStatCurrent' /\ \A q \in Pages : ToldInv(q)'
        /\ \A n, e : At(n, e)' <=> At(n, e)
    BY <1>2, <1>9, ToldUntouched
  <2>2. ASSUME NEW d \in Conns PROVE Reached(d)'
    <3>1. PICK f \in Nat : f = from[d]
      BY LengthFacts
    <3>2. PICK k \in Nat : k = handled[d]
      BY LengthFacts
    <3>3. PICK g \in Nat : g = handled'[d]
      BY <1>4
    <3>4. k <= g
      BY <1>3, <1>4, <3>2, <3>3
    <3>5. \A n \in Nat : n <= f + k => n <= f + g
      BY <3>4
    <3> QED
      BY <1>2, <1>9, <2>1, <3>1, <3>2, <3>3, <3>5 DEF Inv, Reached
  <2>3. told' \in [Pages -> Seq(Triggers)] /\ networkStat' \in [Pages -> 0..3]
    BY <1>9 DEF Inv, Shape
  <2> QED
    BY <2>1, <2>2, <2>3
<1>10. /\ told' \in [Pages -> Seq(Triggers)] /\ networkStat' \in [Pages -> 0..3]
       /\ NetworkStatCurrent' /\ \A q \in Pages : ToldInv(q)'
       /\ \A d \in Conns : Reached(d)'
  BY <1>2, <1>5, <1>8, <1>9
<1>11. Shape'
  BY <1>2, <1>4, <1>10 DEF Inv, Shape
<1> QED
  BY <1>6, <1>7, <1>10, <1>11 DEF Inv

-----------------------------------------------------------------------------
LEMMA InvInit == Init => Inv
<1> SUFFICES ASSUME Init PROVE Inv
  OBVIOUS
<1>1. /\ published = <<>> /\ from = [c \in Conns |-> 0]
      /\ seen = [c \in Conns |-> <<>>] /\ connected = {} /\ left = {}
      /\ sock = [c \in Conns |-> "none"] /\ handled = [c \in Conns |-> 0]
      /\ unloaded = {} /\ listeners = [p \in Pages |-> {}]
      /\ networkStat = [p \in Pages |-> 2] /\ told = [p \in Pages |-> <<>>]
  BY DEF Init, Relay!Init
<1>2. <<>> \in Seq(Triggers) /\ Len(<<>>) = 0 /\ DOMAIN <<>> = {}
  BY EmptySeq
<1>3. Shape
  BY <1>1, <1>2 DEF Shape, SocketStates
<1>4. PublishedInv /\ NetworkStatCurrent
  BY <1>1, <1>2 DEF PublishedInv, NetworkStatCurrent
<1>5. ASSUME NEW c \in Conns PROVE SeenInv(c) /\ Reached(c)
  BY <1>1, <1>2 DEF SeenInv, Reached
<1>6. ASSUME NEW p \in Pages PROVE SocketInv(p) /\ ToldInv(p)
  BY <1>1, <1>2, Connection DEF SocketInv, ToldInv
<1> QED
  BY <1>3, <1>4, <1>5, <1>6 DEF Inv

LEMMA InvStep == Inv /\ [Next]_systemVars => Inv'
<1> SUFFICES ASSUME Inv, [Next]_systemVars PROVE Inv'
  OBVIOUS
<1>1. ASSUME NEW t \in Triggers, Publish(t) PROVE Inv'
  BY <1>1, PublishStep
<1>2. ASSUME NEW c \in Conns, SocketNext(c) PROVE Inv'
  BY <1>2, OpenStep, OpenFailsStep, CutStep, ClosedStep, ReconnectStep,
     RegisterStep, DeliverStep, HandleStep DEF SocketNext
<1>3. ASSUME NEW p \in Pages, Construct(p) PROVE Inv'
  BY <1>3, ConstructStep
<1>4. ASSUME NEW p \in Pages, Unload(p) PROVE Inv'
  BY <1>4, UnloadStep
<1>5. ASSUME NEW p \in Pages, NEW api \in Listened, Listen(p, api) PROVE Inv'
  BY <1>5, ListenStep
<1>6. CASE UNCHANGED systemVars
  <2>1. UNCHANGED <<published, from, seen, connected, left, sock, handled,
                    unloaded, listeners, networkStat, told>>
    BY <1>6 DEF systemVars, relayVars, pageVars, objectVars
  <2>2. Shape'
    BY <2>1 DEF Inv, Shape
  <2>3. \A p \in Pages : SocketInv(p)'
    BY <2>1 DEF Inv, SocketInv
  <2> QED
    BY <2>1, <2>2, <2>3, QuietStep DEF Shape
<1> QED
  BY <1>1, <1>2, <1>3, <1>4, <1>5, <1>6 DEF Next

LEMMA Invariance == Spec => []Inv
BY InvInit, InvStep, PTL DEF Spec

-----------------------------------------------------------------------------
LEMMA InvTypeOK == Inv => TypeOK
<1> SUFFICES ASSUME Inv PROVE TypeOK
  OBVIOUS
<1>1. \A c \in Conns : handled[c] <= Len(seen[c])
  BY DEF Inv, SeenInv
<1>2. connected \cup left \subseteq {c \in Conns : sock[c] # "none"}
  BY DEF Inv, Shape, SeenInv
<1> QED
  BY <1>1, <1>2 DEF Inv, Shape, TypeOK

LEMMA InvToldInOrder == Inv => ToldInOrder
<1> SUFFICES ASSUME Inv, NEW p \in Pages,
                    NEW i \in DOMAIN told[p], NEW j \in DOMAIN told[p], i < j
             PROVE  Position(told[p][i]) < Position(told[p][j])
  BY DEF ToldInOrder
<1>1. PICK l \in Nat : l = Len(told[p]) /\ DOMAIN told[p] = 1..l
  BY LengthFacts, LenProperties
<1>2. PICK n \in Nat : n = Len(published) /\ DOMAIN published = 1..n
  BY LengthFacts, LenProperties DEF Inv, Shape
<1>3. ASSUME NEW k \in Nat, NEW e, At(k, e) PROVE Position(e) = k
  <2>1. k \in DOMAIN published /\ published[k] = e
    BY <1>2, <1>3 DEF At
  <2>2. \A m \in DOMAIN published : published[m] = e => m = k
    BY <1>2, <2>1 DEF Inv, PublishedInv
  <2> QED
    BY <2>1, <2>2 DEF Position
<1>4. PICK a \in Nat : At(a, told[p][i])
  BY <1>1 DEF Inv, ToldInv
<1>5. PICK b \in Nat : At(b, told[p][j])
  BY <1>1 DEF Inv, ToldInv
<1>6. a < b
  BY <1>1, <1>4, <1>5 DEF Inv, ToldInv
<1> QED
  BY <1>3, <1>4, <1>5, <1>6

(***************************************************************************)
(* The variables keep their types; connected and left sockets are made     *)
(* ones, and a page handles what it has received (handleEvent).            *)
(***************************************************************************)
THEOREM TypeCorrect == Spec => []TypeOK
<1>1. Inv => TypeOK
  BY InvTypeOK
<1> QED
  BY <1>1, Invariance, PTL

(***************************************************************************)
(* Over however many sockets, a page is told of an event at most once, and *)
(* of events in the relay's order (connectWebSocket's onclose).            *)
(***************************************************************************)
THEOREM ToldOnceInOrder == Spec => []ToldInOrder
<1>1. Inv => ToldInOrder
  BY InvToldInOrder
<1> QED
  BY <1>1, Invariance, PTL

(***************************************************************************)
(* getNetworkStat() says what the last network event said that the page    *)
(* was told of, on whichever socket (handleEvent).                         *)
(***************************************************************************)
THEOREM NetworkStatKept == Spec => []NetworkStatCurrent
<1>1. Inv => NetworkStatCurrent
  BY DEF Inv
<1> QED
  BY <1>1, Invariance, PTL
=============================================================================

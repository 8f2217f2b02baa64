--------------------------- MODULE EventBroadcast ---------------------------
(***************************************************************************)
(* What the event relay promises to the pages of a content set, without    *)
(* mutex, channels or goroutines: there is one order of events, a page     *)
(* that is connected sees the events of that order from the moment it was  *)
(* connected, one by one and without a gap, and a page that has left sees  *)
(* nothing more.  EventRelay is shown to implement it.                     *)
(***************************************************************************)
EXTENDS Naturals, Sequences

CONSTANTS Events, Pages

VARIABLES
  published,  (* the events published so far, in order                     *)
  from,       (* how many had been published when a page connected         *)
  seen,       (* the events each page has seen                             *)
  connected,  (* the pages that have been connected                        *)
  left        (* the pages that have gone away                             *)

broadcastVars == <<published, from, seen, connected, left>>

Init ==
  /\ published = <<>>
  /\ from = [p \in Pages |-> 0]
  /\ seen = [p \in Pages |-> <<>>]
  /\ connected = {}
  /\ left = {}

Publish(e) ==
  /\ \A i \in DOMAIN published : published[i] # e
  /\ published' = Append(published, e)
  /\ UNCHANGED <<from, seen, connected, left>>

Connect(p) ==
  /\ p \notin connected
  /\ connected' = connected \cup {p}
  /\ from' = [from EXCEPT ![p] = Len(published)]
  /\ UNCHANGED <<published, seen, left>>

Deliver(p) ==
  /\ p \in connected \ left
  /\ LET next == from[p] + Len(seen[p]) + 1
     IN /\ next <= Len(published)
        /\ seen' = [seen EXCEPT ![p] = Append(@, published[next])]
  /\ UNCHANGED <<published, from, connected, left>>

Leave(p) ==
  /\ p \notin left
  /\ left' = left \cup {p}
  /\ UNCHANGED <<published, from, seen, connected>>

Next ==
  \/ \E e \in Events : Publish(e)
  \/ \E p \in Pages : Connect(p) \/ Deliver(p) \/ Leave(p)

Spec == Init /\ [][Next]_broadcastVars
=============================================================================

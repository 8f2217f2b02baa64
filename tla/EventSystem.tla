---------------------------- MODULE EventSystem -----------------------------
(***************************************************************************)
(* The ProOperate objects of pjf/prooperate.js on top of the event relay:  *)
(* the event socket and its reconnection, the listeners and the dispatch   *)
(* of events to them, the network state.                                   *)
(*                                                                         *)
(* The relay is the abstract one of EventBroadcast, which EventRelay       *)
(* implements; its pages are connections here, and <<p, k>> is the k-th    *)
(* socket that page p makes.  A page's steps are turns of its event loop.  *)
(***************************************************************************)
EXTENDS Naturals, Sequences, SequencesExt

CONSTANTS
  Pages,      (* the pages that construct a ProOperate object              *)
  MaxConns,   (* bound on the sockets that a page makes                    *)
  Listened,   (* the listeners that the pages set                          *)
  Triggers,   (* the eventTrigger requests                                 *)
  Event       (* the body of each: its api and its eventCode               *)

Apis == {"startCommunication", "startKeypadListen", "startEventListen"}

\* A body that does not parse, or names another api, is of api "other".
ASSUME EventAssumption ==
  /\ MaxConns \in Nat \ {0}
  /\ Listened \subseteq Apis
  /\ Event \in [Triggers -> [api : Apis \cup {"other"}, eventCode : Nat]]

VARIABLES published, from, seen, connected, left  (* of the relay *)

VARIABLES
  sock,         (* the state of each socket                                *)
  handled,      (* how many messages of each socket have been handled      *)
  unloaded,     (* the pages that have been left                           *)
  listeners,    (* the listeners that each page has set                    *)
  networkStat,  (* what getNetworkStat() returns                           *)
  told          (* history: the events that a page's listeners were told   *)

Conns == Pages \X (1..MaxConns)

Relay == INSTANCE EventBroadcast WITH Events <- Triggers, Pages <- Conns

relayVars == <<published, from, seen, connected, left>>
objectVars == <<unloaded, listeners, networkStat, told>>
pageVars == <<sock, handled, objectVars>>
systemVars == <<relayVars, pageVars>>

\* "done": its onclose has made the next socket.
SocketStates == {"none", "connecting", "open", "closed", "done"}

Init ==
  /\ Relay!Init
  /\ sock = [c \in Conns |-> "none"]
  /\ handled = [c \in Conns |-> 0]
  /\ unloaded = {}
  /\ listeners = [p \in Pages |-> {}]
  /\ networkStat = [p \in Pages |-> 2]
  /\ told = [p \in Pages |-> <<>>]

Running(p) == p \notin unloaded /\ sock[<<p, 1>>] # "none"

-----------------------------------------------------------------------------
(* connectWebSocket                                                        *)

\* The first call of ProOperate() makes the object, and its first socket.
Construct(p) ==
  /\ p \notin unloaded
  /\ sock[<<p, 1>>] = "none"
  /\ sock' = [sock EXCEPT ![<<p, 1>>] = "connecting"]
  /\ UNCHANGED <<relayVars, handled, objectVars>>

\* The server upgrades the connection, and onopen is called.
Open(c) ==
  /\ c[1] \notin unloaded
  /\ sock[c] = "connecting"
  /\ sock' = [sock EXCEPT ![c] = "open"]
  /\ UNCHANGED <<relayVars, handled, objectVars>>

\* Slip: the retry is only set up in onopen.
OpenFailsForGood(c) ==
  /\ c[1] \notin unloaded
  /\ sock[c] = "connecting"
  /\ sock' = [sock EXCEPT ![c] = "done"]
  /\ UNCHANGED <<relayVars, handled, objectVars>>

\* No server, no upgrade, or its answer is lost: onerror, which does nothing,
\* and onclose.
OpenFails(c) ==
  /\ c[1] \notin unloaded
  /\ sock[c] = "connecting"
  /\ sock' = [sock EXCEPT ![c] = "closed"]
  /\ IF c \in connected THEN Relay!Leave(c) ELSE UNCHANGED relayVars
  /\ UNCHANGED <<handled, objectVars>>

\* The network cuts the connection, or beforeunload closes it and the page
\* is not left after all.
Cut(c) ==
  /\ sock[c] = "open"
  /\ Relay!Leave(c)
  /\ UNCHANGED pageVars

\* onclose: messages still under way are lost.
Closed(c) ==
  /\ c[1] \notin unloaded
  /\ sock[c] = "open"
  /\ c \in left
  /\ sock' = [sock EXCEPT ![c] = "closed"]
  /\ UNCHANGED <<relayVars, handled, objectVars>>

\* Slip: the timer is set when the socket is made, and not cancelled.
ReconnectAnyway(c) ==
  LET next == <<c[1], c[2] + 1>>
  IN /\ c[1] \notin unloaded
     /\ sock[c] \in {"open", "closed"}
     /\ c[2] < MaxConns
     /\ sock[next] = "none"
     /\ sock' = [sock EXCEPT ![c] = IF @ = "open" THEN "open" ELSE "done",
                            ![next] = "connecting"]
     /\ UNCHANGED <<relayVars, handled, objectVars>>

\* The timer that onclose has set, 500 ms later.
Reconnect(c) ==
  LET next == <<c[1], c[2] + 1>>
  IN /\ c[1] \notin unloaded
     /\ sock[c] = "closed"
     /\ c[2] < MaxConns
     /\ sock' = [sock EXCEPT ![c] = "done", ![next] = "connecting"]
     /\ UNCHANGED <<relayVars, handled, objectVars>>

\* The page is left: beforeunload closes its socket, or the browser does.
Unload(p) ==
  LET live == {c \in Conns \ left : /\ c[1] = p
                                    /\ sock[c] \in {"connecting", "open"}}
  IN /\ Running(p)
     /\ unloaded' = unloaded \cup {p}
     /\ \/ \E c \in live : Relay!Leave(c)
        \/ live = {} /\ UNCHANGED relayVars
     /\ UNCHANGED <<sock, handled, listeners, networkStat, told>>

-----------------------------------------------------------------------------
(* handleEvent                                                             *)

\* Slip: the event code is returned as it is.
NetworkStatRaw(code, old) == IF code \in {0, 1, 2, 6} THEN code ELSE old

\* The value of getNetworkStat() for an event code; others leave it alone.
NetworkStat(code, old) ==
  CASE code \in {0, 1, 2} -> code [] code = 6 -> 3 [] OTHER -> old

\* Which listeners have to be set for an event to be told: a keypad event asks
\* for the listener of the card reader, and then calls its own.
Needs(api) ==
  CASE api = "startKeypadListen" -> {"startCommunication", "startKeypadListen"}
    [] OTHER -> {api}

Told(p, t) == told' = [told EXCEPT ![p] = Append(@, t)]

NewStat(p, t) ==
  networkStat' = [networkStat EXCEPT ![p] = NetworkStat(Event[t].eventCode, @)]

\* Slip: the listener is called first, and may throw.
DispatchFirst(p, t) ==
  /\ Told(p, t)
  /\ \/ UNCHANGED networkStat
     \/ Event[t].api = "startEventListen" /\ NewStat(p, t)

\* The listener is called last, so nothing depends on whether it throws.
Dispatch(p, t) ==
  /\ Told(p, t)
  /\ IF Event[t].api = "startEventListen" THEN NewStat(p, t)
     ELSE UNCHANGED networkStat

\* Slip: a message nobody listens for is left for later.
HandleIfListening(c) ==
  LET p == c[1]
      t == seen[c][handled[c] + 1]
  IN /\ p \notin unloaded
     /\ sock[c] = "open"
     /\ handled[c] < Len(seen[c])
     /\ Needs(Event[t].api) \subseteq listeners[p]
     /\ handled' = [handled EXCEPT ![c] = @ + 1]
     /\ Dispatch(p, t)
     /\ UNCHANGED <<relayVars, sock, unloaded, listeners>>

\* onmessage.  Without the listener nothing happens: the network state is not
\* updated either.
Handle(c) ==
  LET p == c[1]
      t == seen[c][handled[c] + 1]
  IN /\ p \notin unloaded
     /\ sock[c] = "open"
     /\ handled[c] < Len(seen[c])
     /\ handled' = [handled EXCEPT ![c] = @ + 1]
     /\ IF Needs(Event[t].api) \subseteq listeners[p] THEN Dispatch(p, t)
        ELSE UNCHANGED <<told, networkStat>>
     /\ UNCHANGED <<relayVars, sock, unloaded, listeners>>

\* startCommunication, startKeypadListen, startEventListen, and their stops.
Listen(p, api) ==
  /\ Running(p)
  /\ \/ listeners' = [listeners EXCEPT ![p] = @ \cup {api}]
     \/ listeners' = [listeners EXCEPT ![p] = @ \ {api}]
  /\ UNCHANGED <<relayVars, sock, handled, unloaded, networkStat, told>>

-----------------------------------------------------------------------------
\* The server registers a connection once it has upgraded it, before or after
\* onopen.  One that it registers when its page is gone concerns no page.
Register(c) ==
  /\ sock[c] \in {"connecting", "open"}
  /\ Relay!Connect(c)
  /\ UNCHANGED pageVars

Deliver(c) == Relay!Deliver(c) /\ UNCHANGED pageVars

Publish(t) == Relay!Publish(t) /\ UNCHANGED pageVars

SocketNext(c) ==
  \/ Open(c) \/ OpenFails(c) \/ Cut(c) \/ Closed(c) \/ Reconnect(c)
  \/ Register(c) \/ Deliver(c) \/ Handle(c)

Next ==
  \/ \E t \in Triggers : Publish(t)
  \/ \E c \in Conns : SocketNext(c)
  \/ \E p \in Pages : \/ Construct(p) \/ Unload(p)
                      \/ \E api \in Listened : Listen(p, api)

Spec == Init /\ [][Next]_systemVars

(***************************************************************************)
(* The browser: an attempt to connect ends one way or the other, messages  *)
(* and onclose are dispatched, timers fire.  The relay: it registers a     *)
(* connection and delivers what it owes, which EventRelay does unless it   *)
(* is stuck.                                                               *)
(***************************************************************************)
Fairness ==
  \A c \in Conns : /\ WF_systemVars(Open(c) \/ OpenFails(c))
                   /\ WF_systemVars(Handle(c))
                   /\ WF_systemVars(Closed(c))
                   /\ WF_systemVars(Reconnect(c))
                   /\ WF_systemVars(Register(c))
                   /\ WF_systemVars(Deliver(c))

FairSpec == Spec /\ Fairness

-----------------------------------------------------------------------------
\* The types of the variables; a page handles what it has received.
TypeOK ==
  /\ seen \in [Conns -> Seq(Triggers)]
  /\ connected \cup left \subseteq {c \in Conns : sock[c] # "none"}
  /\ sock \in [Conns -> SocketStates]
  /\ handled \in [Conns -> Nat]
  /\ \A c \in Conns : handled[c] <= Len(seen[c])
  /\ unloaded \in SUBSET Pages
  /\ listeners \in [Pages -> SUBSET Apis]
  /\ networkStat \in [Pages -> 0..3]
  /\ told \in [Pages -> Seq(Triggers)]

Position(t) == CHOOSE i \in DOMAIN published : published[i] = t

(***************************************************************************)
(* Over all its connections a page is told of an event at most once, and   *)
(* of events in the order in which the relay took them: reconnecting loses *)
(* events, but repeats and reorders none (connectWebSocket's onclose).     *)
(***************************************************************************)
ToldInOrder ==
  \A p \in Pages : \A i, j \in DOMAIN told[p] :
    i < j => Position(told[p][i]) < Position(told[p][j])

NetworkEvent(t) ==
  Event[t].api = "startEventListen" /\ Event[t].eventCode \in {0, 1, 2, 6}

(***************************************************************************)
(* What getNetworkStat() says is what the last network event said that the *)
(* page was told of, on whichever connection, and whatever its listener    *)
(* did: two pages that were told the same last event agree (handleEvent's  *)
(* assignment against the call of the listener).                           *)
(***************************************************************************)
NetworkStatCurrent ==
  \A p \in Pages :
    \/ /\ networkStat[p] = 2
       /\ \A i \in DOMAIN told[p] : ~NetworkEvent(told[p][i])
    \/ \E i \in DOMAIN told[p] :
         /\ NetworkEvent(told[p][i])
         /\ \A j \in DOMAIN told[p] : j > i => ~NetworkEvent(told[p][j])
         /\ networkStat[p] = NetworkStat(Event[told[p][i]].eventCode, 2)

OnAir(c) == sock[c] = "open" /\ c \in connected \ left

(***************************************************************************)
(* "openできなかった場合、また接続が切れた場合は自動で再接続を試みる。"                 *)
(* (prooperate.js:65).  A page whose socket closed, or did not open, gets  *)
(* its events again on a later one, unless it is left, or its last socket  *)
(* within the bound is lost too.                                           *)
(***************************************************************************)
BackOnAir ==
  \A c \in Conns :
    sock[c] = "closed" ~>
      \/ \E d \in Conns : d[1] = c[1] /\ d[2] > c[2] /\ OnAir(d)
      \/ c[1] \in unloaded
      \/ LET last == <<c[1], MaxConns>> IN sock[last] = "closed" \/ last \in left

\* The events that are owed to connection c.
Owed(c) == {published[i] : i \in (from[c] + 1)..Len(published)}

(***************************************************************************)
(* An event published while a page is connected is handled by the page,    *)
(* unless that connection is lost first (from eventTrigger to handleEvent, *)
(* over onmessage and onclose).                                            *)
(***************************************************************************)
EventsHandled ==
  \A t \in Triggers, c \in Conns :
    (c \in connected /\ t \in Owed(c)) ~>
      c \in left \/ t \in ToSet(SubSeq(seen[c], 1, handled[c]))
=============================================================================

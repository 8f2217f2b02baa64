----------------------------- MODULE EventRelay -----------------------------
(***************************************************************************)
(* The event relay of prooperate/prooperate.go: a POST to                  *)
(* /pjf/api/eventTrigger is copied to every page that holds a websocket on *)
(* /pjf/api/eventNotification.                                             *)
(*                                                                         *)
(* A trigger is one HTTP request, a subscriber one websocket connection    *)
(* (a page that reconnects is a new subscriber).  The body of a request is *)
(* abstracted to the request itself: events are told apart, not read.      *)
(*                                                                         *)
(* Two goroutines serve a subscriber: the handler, which owns the Go       *)
(* channel, and the one blocked in ReadMessage that reports the            *)
(* disconnection.  Every Lock/Unlock, channel operation and network        *)
(* operation is a step of its own.                                         *)
(***************************************************************************)
EXTENDS Naturals, Sequences, SequencesExt

CONSTANTS
  Triggers,   (* the eventTrigger requests                                 *)
  Subs,       (* the eventNotification connections                         *)
  Leavers,    (* the connections whose page may go away                    *)
  Stallers,   (* the connections whose page may stop reading               *)
  Capacity,   (* the buffer of a subscriber's channel (10 in the code)     *)
  NoOne       (* nobody holds the mutex                                    *)

ASSUME RelayAssumption ==
  /\ Capacity \in Nat \ {0}
  /\ Leavers \subseteq Subs
  /\ Stallers \subseteq Subs
  /\ Triggers \cap Subs = {}
  /\ NoOne \notin Triggers

VARIABLES
  mutex,         (* the trigger inside the critical section, or NoOne      *)
  channels,      (* the registered channels, in order of registration      *)
  ch,            (* the buffered content of each subscriber's channel      *)
  tpc,           (* where each trigger request is                          *)
  todo,          (* the channels a trigger's range loop has still to serve *)
  spc,           (* where each subscriber's handler is                     *)
  gone,          (* the subscribers whose page has left                    *)
  disconnected,  (* the subscribers with a token in disconnectedCh         *)
  received,      (* what each page has received                            *)
  (* History: the order in which events entered the critical section, how *)
  (* many had when a subscriber registered, what its handler has taken.    *)
  log, joined, got

relayVars == <<mutex, channels, ch, tpc, todo, spc, gone, disconnected,
               received, log, joined, got>>

TriggerStates == {"idle", "waiting", "sending", "done"}
SubStates == {"off", "adding", "serving", "writing", "removing", "ended"}

\* Everything ever put into a subscriber's channel.
Sent(s) == got[s] \o ch[s]

Init ==
  /\ mutex = NoOne
  /\ channels = <<>>
  /\ ch = [s \in Subs |-> <<>>]
  /\ tpc = [t \in Triggers |-> "idle"]
  /\ todo = [t \in Triggers |-> <<>>]
  /\ spc = [s \in Subs |-> "off"]
  /\ gone = {}
  /\ disconnected = {}
  /\ received = [s \in Subs |-> <<>>]
  /\ log = <<>>
  /\ joined = [s \in Subs |-> 0]
  /\ got = [s \in Subs |-> <<>>]

-----------------------------------------------------------------------------
(* eventTrigger                                                            *)

\* The request arrives and its body is read.
Arrive(t) ==
  /\ tpc[t] = "idle"
  /\ tpc' = [tpc EXCEPT ![t] = "waiting"]
  /\ UNCHANGED <<mutex, channels, ch, todo, spc, gone, disconnected, received,
                 log, joined, got>>

\* Slip: the mutex is not taken, so two triggers walk the channels at once.
SendUnlocked(t) ==
  /\ tpc[t] = "waiting"
  /\ mutex' = t
  /\ tpc' = [tpc EXCEPT ![t] = "sending"]
  /\ todo' = [todo EXCEPT ![t] = channels]
  /\ log' = Append(log, t)
  /\ UNCHANGED <<channels, ch, spc, gone, disconnected, received, joined, got>>

\* mutex.Lock(), then "range channels" fixes the slice it will walk.
LockForSend(t) ==
  /\ tpc[t] = "waiting"
  /\ mutex = NoOne
  /\ mutex' = t
  /\ tpc' = [tpc EXCEPT ![t] = "sending"]
  /\ todo' = [todo EXCEPT ![t] = channels]
  /\ log' = Append(log, t)
  /\ UNCHANGED <<channels, ch, spc, gone, disconnected, received, joined, got>>

\* Slip: the buffer is one longer than it was made.
RoomForOneMore(s) == Len(ch[s]) <= Capacity

\* Whether a send on the channel of s can go on without waiting.
Room(s) == Len(ch[s]) < Capacity

\* Slip: the select has a default, and drops what does not fit.
SendOrDrop(t) ==
  /\ tpc[t] = "sending"
  /\ todo[t] # <<>>
  /\ LET s == Head(todo[t])
     IN ch' = IF Room(s) THEN [ch EXCEPT ![s] = Append(@, t)] ELSE ch
  /\ todo' = [todo EXCEPT ![t] = Tail(@)]
  /\ UNCHANGED <<mutex, channels, tpc, spc, gone, disconnected, received, log,
                 joined, got>>

\* "ch <- data" in a select with no default: it waits for room.
Send(t) ==
  /\ tpc[t] = "sending"
  /\ todo[t] # <<>>
  /\ LET s == Head(todo[t])
     IN /\ Room(s)
        /\ ch' = [ch EXCEPT ![s] = Append(@, t)]
  /\ todo' = [todo EXCEPT ![t] = Tail(@)]
  /\ UNCHANGED <<mutex, channels, tpc, spc, gone, disconnected, received, log,
                 joined, got>>

\* Slip: the handler returns with the mutex held.
ReturnLocked(t) ==
  /\ tpc[t] = "sending"
  /\ todo[t] = <<>>
  /\ tpc' = [tpc EXCEPT ![t] = "done"]
  /\ UNCHANGED <<mutex, channels, ch, todo, spc, gone, disconnected, received,
                 log, joined, got>>

\* The deferred mutex.Unlock(), and the response.
Unlock(t) ==
  /\ tpc[t] = "sending"
  /\ todo[t] = <<>>
  /\ mutex' = NoOne
  /\ tpc' = [tpc EXCEPT ![t] = "done"]
  /\ UNCHANGED <<channels, ch, todo, spc, gone, disconnected, received, log,
                 joined, got>>

-----------------------------------------------------------------------------
(* eventNotification                                                       *)

\* The websocket is upgraded and the disconnection watcher started.
Upgrade(s) ==
  /\ spc[s] = "off"
  /\ spc' = [spc EXCEPT ![s] = "adding"]
  /\ UNCHANGED <<mutex, channels, ch, tpc, todo, gone, disconnected, received,
                 log, joined, got>>

\* addChannel: one critical section that never waits inside.
AddChannel(s) ==
  /\ spc[s] = "adding"
  /\ mutex = NoOne
  /\ channels' = Append(channels, s)
  /\ spc' = [spc EXCEPT ![s] = "serving"]
  /\ joined' = [joined EXCEPT ![s] = Len(log)]
  /\ UNCHANGED <<mutex, ch, tpc, todo, gone, disconnected, received, log, got>>

\* "case msg := <-ch".
TakeMessage(s) ==
  /\ spc[s] = "serving"
  /\ ch[s] # <<>>
  /\ ch' = [ch EXCEPT ![s] = Tail(@)]
  /\ got' = [got EXCEPT ![s] = Append(@, Head(ch[s]))]
  /\ spc' = [spc EXCEPT ![s] = "writing"]
  /\ UNCHANGED <<mutex, channels, tpc, todo, gone, disconnected, received, log,
                 joined>>

\* WriteMessage returns.  On an error the break leaves the select, not the
\* loop: the handler goes on serving, and the message is dropped.
Write(s) ==
  /\ spc[s] = "writing"
  /\ received' = IF s \in gone THEN received
                 ELSE [received EXCEPT ![s] = Append(@, Last(got[s]))]
  /\ spc' = [spc EXCEPT ![s] = "serving"]
  /\ UNCHANGED <<mutex, channels, ch, tpc, todo, gone, disconnected, log,
                 joined, got>>

\* Slip: the disconnection is only looked at when there is a message to send.
SeeDisconnectWithMessage(s) ==
  /\ spc[s] = "serving"
  /\ s \in disconnected
  /\ ch[s] # <<>>
  /\ disconnected' = disconnected \ {s}
  /\ spc' = [spc EXCEPT ![s] = "removing"]
  /\ UNCHANGED <<mutex, channels, ch, tpc, todo, gone, received, log, joined,
                 got>>

\* "case <-disconnectedCh: return".  A select with both cases ready takes
\* either, so this may happen with messages left in the channel.
SeeDisconnect(s) ==
  /\ spc[s] = "serving"
  /\ s \in disconnected
  /\ disconnected' = disconnected \ {s}
  /\ spc' = [spc EXCEPT ![s] = "removing"]
  /\ UNCHANGED <<mutex, channels, ch, tpc, todo, gone, received, log, joined,
                 got>>

\* Slip: the oldest channel is removed instead of the handler's own.
RemoveOldest(s) ==
  /\ spc[s] = "removing"
  /\ mutex = NoOne
  /\ channels' = Tail(channels)
  /\ spc' = [spc EXCEPT ![s] = "ended"]
  /\ UNCHANGED <<mutex, ch, tpc, todo, gone, disconnected, received, log,
                 joined, got>>

\* The deferred removeChannel; conn.Close() follows on a connection already lost.
RemoveChannel(s) ==
  /\ spc[s] = "removing"
  /\ mutex = NoOne
  /\ channels' = RemoveFirst(channels, s)
  /\ spc' = [spc EXCEPT ![s] = "ended"]
  /\ UNCHANGED <<mutex, ch, tpc, todo, gone, disconnected, received, log,
                 joined, got>>

\* The page closes its websocket, is unloaded, or its network is cut.
PageLeaves(s) ==
  /\ s \in Leavers \ gone
  /\ spc[s] # "off"
  /\ gone' = gone \cup {s}
  /\ UNCHANGED <<mutex, channels, ch, tpc, todo, spc, disconnected, received,
                 log, joined, got>>

\* ReadMessage fails in the watcher: it leaves its one token and ends.
WatcherReports(s) ==
  /\ s \in gone
  /\ s \notin disconnected
  /\ spc[s] \in {"adding", "serving", "writing"}
  /\ disconnected' = disconnected \cup {s}
  /\ UNCHANGED <<mutex, channels, ch, tpc, todo, spc, gone, received, log,
                 joined, got>>

-----------------------------------------------------------------------------
TriggerNext(t) == Arrive(t) \/ LockForSend(t) \/ Send(t) \/ Unlock(t)

SubNext(s) ==
  \/ Upgrade(s) \/ AddChannel(s) \/ TakeMessage(s) \/ Write(s)
  \/ SeeDisconnect(s) \/ RemoveChannel(s) \/ PageLeaves(s) \/ WatcherReports(s)

Next ==
  \/ \E t \in Triggers : TriggerNext(t)
  \/ \E s \in Subs : SubNext(s)

Spec == Init /\ [][Next]_relayVars

(***************************************************************************)
(* Goroutines that can run do run: WF on the steps that stay enabled until *)
(* taken.  The steps that take the mutex are enabled off and on, and so is *)
(* the disconnection arm of the select while messages keep coming: Go's    *)
(* mutex hands over to a waiter that has waited 1ms, and its select picks  *)
(* among the ready cases at random, hence SF.  Requests, upgrades and      *)
(* departures belong to the outside: no fairness.  Nor has the Write to a  *)
(* page that keeps its connection and stops reading: the buffers of TCP    *)
(* fill, and the code sets no deadline.                                    *)
(***************************************************************************)
WriteReturns(s) == Write(s) /\ (s \in Stallers => s \in gone)

Fairness ==
  /\ \A t \in Triggers : /\ SF_relayVars(LockForSend(t))
                         /\ WF_relayVars(Send(t))
                         /\ WF_relayVars(Unlock(t))
  /\ \A s \in Subs : /\ SF_relayVars(AddChannel(s))
                     /\ WF_relayVars(TakeMessage(s))
                     /\ WF_relayVars(WriteReturns(s))
                     /\ SF_relayVars(SeeDisconnect(s))
                     /\ SF_relayVars(RemoveChannel(s))
                     /\ WF_relayVars(WatcherReports(s))

FairSpec == Spec /\ Fairness

-----------------------------------------------------------------------------
Registered(s) == spc[s] \in {"serving", "writing", "removing"}
Owed(s) == \E t \in Triggers : s \in ToSet(todo[t])

\* The types of the variables; a channel never holds more than its buffer.
TypeOK ==
  /\ mutex \in Triggers \cup {NoOne}
  /\ channels \in Seq(Subs)
  /\ ch \in [Subs -> Seq(Triggers)]
  /\ tpc \in [Triggers -> TriggerStates]
  /\ todo \in [Triggers -> Seq(Subs)]
  /\ spc \in [Subs -> SubStates]
  /\ gone \in SUBSET Subs
  /\ disconnected \in SUBSET Subs
  /\ received \in [Subs -> Seq(Triggers)]
  /\ log \in Seq(Triggers)
  /\ joined \in [Subs -> Nat]
  /\ got \in [Subs -> Seq(Triggers)]
  /\ \A s \in Subs : Len(ch[s]) <= Capacity

(***************************************************************************)
(* No event is lost, duplicated or reordered on the way into a channel:    *)
(* what a registered handler has taken or can still take is the log from   *)
(* its registration on, up to the event whose trigger still owes it a copy *)
(* (eventTrigger's range loop against addChannel and removeChannel).       *)
(***************************************************************************)
NoEventLost ==
  \A s \in Subs : Registered(s) =>
    /\ joined[s] + Len(Sent(s)) = Len(log) - (IF Owed(s) THEN 1 ELSE 0)
    /\ \A i \in 1..Len(Sent(s)) : Sent(s)[i] = log[joined[s] + i]

(***************************************************************************)
(* What a page has received is a gap-free piece of the one log, starting   *)
(* where it registered, so any two pages agree on the order of the events  *)
(* they both saw, whatever the interleaving of triggers, registrations,    *)
(* departures and failed writes.                                           *)
(***************************************************************************)
PagesAgree ==
  \A s \in Subs :
    /\ joined[s] + Len(received[s]) <= Len(log)
    /\ \A i \in 1..Len(received[s]) : received[s][i] = log[joined[s] + i]

\* The relay implements the broadcast it is meant to be.
Broadcast == INSTANCE EventBroadcast WITH
  Events <- Triggers, Pages <- Subs, published <- log, from <- joined,
  seen <- received, left <- gone,
  connected <- {s \in Subs : spc[s] \notin {"off", "adding"}}

RefinesBroadcast == Broadcast!Spec

\* "addChannelされたchannel全てに、eventTriggerで受け取ったデータを配送する"
\* (prooperate.go:38): an event owed to a registered channel reaches its page,
\* unless that page goes away.
EventReachesPages ==
  \A t \in Triggers, s \in Subs :
    s \in ToSet(todo[t]) ~> (s \in gone \/ t \in ToSet(received[s]))

\* The two ways in which that fails: a trigger waits for room in the channel of
\* a handler that waits for the mutex the trigger holds, or for a page that
\* keeps its connection and has stopped reading.
Stuck ==
  \E t \in Triggers :
    /\ tpc[t] = "sending"
    /\ todo[t] # <<>>
    /\ LET s == Head(todo[t])
       IN /\ ~Room(s)
          /\ \/ spc[s] = "removing"
             \/ spc[s] = "writing" /\ s \in Stallers \ gone

\* But for that, an event owed to a registered channel does reach its page, if
\* the page goes on reading, however full the channels are (eventTrigger's
\* blocking send).
EventsArrive ==
  \A t \in Triggers, s \in Subs :
    s \in ToSet(todo[t])
      ~> (s \in gone \cup Stallers \/ t \in ToSet(received[s]) \/ []Stuck)

\* But for that, a trigger's request that reached the mutex is answered, and
\* gives the mutex back (eventTrigger's deferred Unlock).
TriggerReturns ==
  \A t \in Triggers : tpc[t] = "waiting" ~> (tpc[t] = "done" \/ []Stuck)

\* But for that, the handler of a page that went away unregisters and ends
\* (eventNotification's deferred removeChannel).
HandlerEnds ==
  \A s \in Subs :
    (s \in gone /\ spc[s] # "off") ~> (spc[s] = "ended" \/ []Stuck)
=============================================================================

------------------------------- MODULE AlertFeed -------------------------------
(***************************************************************************)
(* Live alerts, from the Redis channel to the observability page.  One     *)
(* listener task takes the alerts of the channel and walks the list of     *)
(* WebSockets, awaiting every send, while connections come and go; every   *)
(* visit of the page keeps a WebSocket, shows the newest alerts and polls  *)
(* the health of the system.  Alerts are numbered as published.            *)
(***************************************************************************)
EXTENDS Integers, Sequences, FiniteSets, SequencesExt

CONSTANTS Visits,       \* mounts of the observability page
          Kept,         \* entries the page keeps (10 in the code)
          MaxAlerts,    \* bound on alerts published
          MaxFailures   \* bound on lost connections, Redis errors and restarts

ASSUME FeedAssumption == Kept \in Nat \ {0} /\ MaxAlerts \in Nat /\ MaxFailures \in Nat

VARIABLES announced,  \* alerts published to the channel
          listener,   \* redis_pubsub_listener's step
          inbox,      \* what the subscription holds for the listener
          conns,      \* ConnectionManager.active_connections
          walk,       \* broadcast's alert and place in the list
          page,       \* whether each visit lasts
          link,       \* the state of each visit's WebSocket
          attempt,    \* how often each visit has connected
          wire,       \* alerts on their way to each visit
          shown,      \* the page's alerts, newest first
          failures

server == <<listener, inbox, conns, walk>>
client == <<page, link, attempt, wire, shown>>
feed == <<announced, server, client, failures>>

\* The entry the health poll adds.
Degraded == 0

\* "shifted" (history): an element before the place was removed meanwhile.
NoWalk == [alert |-> 0, at |-> 0, served |-> {}, shifted |-> FALSE]

Walking == walk # NoWalk

\* The WebSocket of a visit is the one of its latest attempt.
Socket(v) == <<v, attempt[v]>>

Open(s) == link[s[1]] = "open" /\ s = Socket(s[1])

Connected == ToSet(conns)

FeedInit ==
    /\ announced = 0 /\ failures = 0
    /\ listener = "waiting" /\ inbox = <<>> /\ conns = <<>> /\ walk = NoWalk
    /\ page = [v \in Visits |-> "unseen"]
    /\ link = [v \in Visits |-> "none"]
    /\ attempt = [v \in Visits |-> 0]
    /\ wire = [v \in Visits |-> <<>>]
    /\ shown = [v \in Visits |-> <<>>]

-----------------------------------------------------------------------------
(* The server.                                                              *)

\* Redis is reachable and the channel subscribed.
Subscribe ==
    /\ listener = "waiting"
    /\ listener' = "listening"
    /\ UNCHANGED <<announced, inbox, conns, walk, client, failures>>

\* What is published while nobody listens is gone.
PublishAlert ==
    /\ announced < MaxAlerts
    /\ announced' = announced + 1
    /\ inbox' = IF listener = "listening" THEN Append(inbox, announced') ELSE inbox
    /\ UNCHANGED <<listener, conns, walk, client, failures>>

\* listen() raises: the task ends, and nothing starts it again.
ListenerFails ==
    /\ listener = "listening" /\ ~Walking /\ failures < MaxFailures
    /\ listener' = "ended" /\ inbox' = <<>>
    /\ failures' = failures + 1
    /\ UNCHANGED <<announced, conns, walk, client>>

TakeAlert ==
    /\ listener = "listening" /\ ~Walking /\ inbox # <<>>
    /\ inbox' = Tail(inbox)
    /\ walk' = [NoWalk EXCEPT !.alert = Head(inbox), !.at = 1]
    /\ UNCHANGED <<announced, listener, conns, client, failures>>

\* Mutant: one failing send ends the walk.
SendUnguarded ==
    /\ Walking /\ walk.at <= Len(conns)
    /\ LET s == conns[walk.at]
       IN /\ walk' = [walk EXCEPT !.at = IF Open(s) THEN @ + 1 ELSE Len(conns) + 1, !.served = @ \cup {s}]
          /\ wire' = IF Open(s) THEN [wire EXCEPT ![s[1]] = Append(@, walk.alert)] ELSE wire
    /\ UNCHANGED <<announced, listener, inbox, conns, page, link, attempt, shown, failures>>

\* send_text to the element the iterator stands on; its error is swallowed.
Send ==
    /\ Walking /\ walk.at <= Len(conns)
    /\ LET s == conns[walk.at]
       IN /\ walk' = [walk EXCEPT !.at = @ + 1, !.served = @ \cup {s}]
          /\ wire' = IF Open(s) THEN [wire EXCEPT ![s[1]] = Append(@, walk.alert)] ELSE wire
    /\ UNCHANGED <<announced, listener, inbox, conns, page, link, attempt, shown, failures>>

EndBroadcast ==
    /\ Walking /\ walk.at > Len(conns)
    /\ walk' = NoWalk
    /\ UNCHANGED <<announced, listener, inbox, conns, client, failures>>

\* The handshake is accepted and the connection appended.
Connect(v) ==
    /\ link[v] = "calling"
    /\ link' = [link EXCEPT ![v] = "open"]
    /\ conns' = Append(conns, Socket(v))
    /\ UNCHANGED <<announced, listener, inbox, walk, page, attempt, wire, shown, failures>>

\* receive_text raises WebSocketDisconnect for a connection that is over.
Disconnect ==
    \E i \in DOMAIN conns :
        /\ ~Open(conns[i])
        /\ conns' = RemoveAt(conns, i)
        /\ walk' = IF Walking /\ i < walk.at THEN [walk EXCEPT !.shifted = TRUE] ELSE walk
        /\ UNCHANGED <<announced, listener, inbox, client, failures>>

\* The server is stopped, in whatever it was doing, and started again.
ServerRestarts ==
    /\ failures < MaxFailures /\ failures' = failures + 1
    /\ listener' = "waiting" /\ inbox' = <<>> /\ conns' = <<>> /\ walk' = NoWalk
    /\ link' = [v \in Visits |-> IF link[v] \in {"calling", "open"} THEN "broken" ELSE link[v]]
    /\ wire' = [v \in Visits |-> <<>>]
    /\ UNCHANGED <<announced, page, attempt, shown>>

-----------------------------------------------------------------------------
(* The page.                                                                *)

Visit(v) ==
    /\ page[v] = "unseen"
    /\ page' = [page EXCEPT ![v] = "mounted"]
    /\ link' = [link EXCEPT ![v] = "calling"]
    /\ attempt' = [attempt EXCEPT ![v] = 1]
    /\ UNCHANGED <<announced, server, wire, shown, failures>>

\* Mutant: nothing is armed.
ClosesForGood(v) ==
    /\ link[v] \in {"open", "calling", "broken"}
    /\ link' = [link EXCEPT ![v] = "closed"]
    /\ wire' = [wire EXCEPT ![v] = <<>>]

\* onclose arms a timer, whoever closed the connection.
Closes(v) ==
    /\ link[v] \in {"open", "calling", "broken"}
    /\ link' = [link EXCEPT ![v] = "retrying"]
    /\ wire' = [wire EXCEPT ![v] = <<>>]

\* The network loses a connection, or refuses one; the page notices later.
Break(v) ==
    /\ link[v] \in {"open", "calling"} /\ failures < MaxFailures
    /\ link' = [link EXCEPT ![v] = "broken"]
    /\ wire' = [wire EXCEPT ![v] = <<>>]
    /\ failures' = failures + 1
    /\ UNCHANGED <<announced, server, page, attempt, shown>>

OnClose(v) ==
    /\ link[v] = "broken"
    /\ Closes(v)
    /\ UNCHANGED <<announced, server, page, attempt, shown, failures>>

\* connectWs again after five seconds; the timer outlives the page.
Retry(v) ==
    /\ link[v] = "retrying"
    /\ link' = [link EXCEPT ![v] = "calling"]
    /\ attempt' = [attempt EXCEPT ![v] = @ + 1]
    /\ UNCHANGED <<announced, server, page, wire, shown, failures>>

InFront(v, entry) == shown[v] # <<>> /\ Head(shown[v]) = entry

\* Mutant: entries are put behind, and the list is cut.
ShowsBehind(v, entry) ==
    shown' = [shown EXCEPT ![v] = SubSeq(Append(@, entry), 1, IF Len(@) < Kept THEN Len(@) + 1 ELSE Kept)]

\* Entries are put in front, and the list is cut.
Shows(v, entry) ==
    shown' = [shown EXCEPT ![v] = SubSeq(<<entry>> \o @, 1, IF Len(@) < Kept THEN Len(@) + 1 ELSE Kept)]

\* onmessage; the state of a page that is left takes nothing any more.
OnMessage(v) ==
    /\ link[v] = "open" /\ wire[v] # <<>>
    /\ wire' = [wire EXCEPT ![v] = Tail(@)]
    /\ IF page[v] = "mounted" THEN Shows(v, Head(wire[v])) ELSE UNCHANGED shown
    /\ UNCHANGED <<announced, server, page, link, attempt, failures>>

\* A poll found a tier down, failed or timed out; an entry that is already
\* in front is not repeated.  A healthy answer changes no alert.
PollDegraded(v) ==
    /\ page[v] = "mounted"
    /\ ~InFront(v, Degraded)
    /\ Shows(v, Degraded)
    /\ UNCHANGED <<announced, server, page, link, attempt, wire, failures>>

\* The cleanup closes the WebSocket; an armed timer stays armed.
Leave(v) ==
    /\ page[v] = "mounted"
    /\ page' = [page EXCEPT ![v] = "left"]
    /\ shown' = [shown EXCEPT ![v] = <<>>]
    /\ IF link[v] = "retrying" THEN UNCHANGED <<link, wire>> ELSE Closes(v)
    /\ UNCHANGED <<announced, server, attempt, failures>>

-----------------------------------------------------------------------------
Served == Subscribe \/ TakeAlert \/ Send \/ EndBroadcast \/ Disconnect

Browses(v) == Connect(v) \/ OnClose(v) \/ Retry(v) \/ OnMessage(v)

FeedNext ==
    \/ Served \/ PublishAlert \/ ListenerFails \/ ServerRestarts
    \/ \E v \in Visits : Browses(v) \/ Visit(v) \/ Break(v) \/ PollDegraded(v) \/ Leave(v)

\* The event loops of server and browser go on, timers fire and the network
\* answers; nothing makes Redis publish, people come, or faults happen.
FeedSpec ==
    /\ FeedInit /\ [][FeedNext]_feed
    /\ WF_feed(Subscribe) /\ WF_feed(TakeAlert) /\ WF_feed(Send) /\ WF_feed(EndBroadcast)
    /\ WF_feed(Disconnect)
    /\ \A v \in Visits : WF_feed(Connect(v)) /\ WF_feed(OnClose(v)) /\ WF_feed(Retry(v)) /\ WF_feed(OnMessage(v))

-----------------------------------------------------------------------------
(* Properties.                                                              *)

\* A broadcast that ends has tried every connection of the list, whatever
\* the others' sends did, unless a disconnection shifted the list under it.
ServedUnlessShifted ==
    [][(Walking /\ ~Walking' /\ failures' = failures /\ ~walk.shifted) => Connected \subseteq walk.served]_feed

\* However polls and alerts interleave and connections are replaced, a page
\* shows its alerts newest first, each at most once per connection (one that
\* reconnects during a broadcast is reached again), and the newest of them is
\* in front or right behind a notice of degradation.
NewestInFront ==
    \A v \in Visits :
        LET list == shown[v]
            alerts == {i \in DOMAIN list : list[i] # Degraded}
        IN /\ \A i, j \in alerts : i < j => list[i] >= list[j]
           /\ \A i \in alerts : Cardinality({j \in alerts : list[j] = list[i]}) <= attempt[v]
           /\ \A i \in DOMAIN list \ {1} : list[i] = Degraded => list[i - 1] # Degraded

\* A page that stays open is connected again and again: in the end it holds
\* a connection that broadcasts reach.
Reconnects ==
    \A v \in Visits :
        page[v] = "mounted" ~> (page[v] = "left" \/ (link[v] = "open" /\ Socket(v) \in Connected))

=============================================================================

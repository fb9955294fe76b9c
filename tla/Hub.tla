--------------------------------- MODULE Hub ---------------------------------
(***************************************************************************)
(* The WebSocket hub (gateway/websocket.go) on top of the event bus.  One  *)
(* goroutine, Run, subscribes to the bus and broadcasts each event, and    *)
(* the ring state at intervals, to the clients: a bounded queue each, that *)
(* the client's writePump empties into its socket while readPump listens   *)
(* for subscriptions.  Either pump, the peer or Stop may end a client.     *)
(*                                                                         *)
(* c.mu around a client's types is not modelled: a subscription that       *)
(* arrives between the match and the enqueueing of an event has the effect *)
(* of one that arrives right after.                                        *)
(***************************************************************************)
EXTENDS EventBus

CONSTANTS
  hub,                            \* the hub's channel, the one subscriber
  Client,                         \* WebSocket connections
  Choices,                        \* the sets of types a client may subscribe to
  SendCap,                        \* 256 in the code
  MaxTicks, MaxAsks               \* bounds on periodic ring states and on subscriptions

RingState == 0                    \* a ring_state event, made by the hub itself
ringType == "ring_state"

ASSUME HubAssumption ==
  /\ Sub = {hub} /\ SendCap \in Nat \ {0} /\ MaxTicks \in Nat /\ MaxAsks \in Nat
  /\ ringType \in Type /\ Choices \subseteq SUBSET Type

VARIABLES
  clients,                        \* Hub.clients
  gauge,                          \* DHTWebSocketClientsConnected
  run,                            \* Run: [pc, event, to]
  stop,                           \* Stop: "no", "swap", "clients", "done"
  stopping,                       \* the clients Stop has taken
  cl,                             \* client -> its state, see NoClient
  ticks, asks                     \* used so far

hubVars == <<clients, gauge, run, stop, stopping, cl, ticks, asks>>
vars == <<busVars, hubVars>>

NoClient ==
  [up |-> "none",                 \* HandleUpgrade: "none", "added", "greeted", "returned"
   open |-> FALSE,                \* the connection
   done |-> FALSE,                \* done is closed
   types |-> {}, send |-> <<>>,
   got |-> <<>>,                  \* what was written to the socket
   writer |-> "none", reader |-> "none"]

Update(c, r) == cl' = [cl EXCEPT ![c] = r]

\* Mutant: off by one.
EnqueueOver(q, e) == IF Len(q) <= SendCap THEN Append(q, e) ELSE q

\* A send that does not block.
Enqueue(q, e) == IF Len(q) < SendCap THEN Append(q, e) ELSE q
stopped == stop # "no"            \* stopCh is closed

-----------------------------------------------------------------------------
(* Run                                                                       *)

Running(pc, e, to) == [pc |-> pc, event |-> e, to |-> to]

RunSubscribes ==
  /\ ~panicked /\ run.pc = "new"
  /\ Subscribe(hub, Type)
  /\ run' = Running("select", 0, {})
  /\ UNCHANGED <<clients, gauge, stop, stopping, cl, ticks, asks>>

\* broadcast copies the clients under the lock.
Broadcast(e) == run' = IF clients = {} THEN Running("select", 0, {}) ELSE Running("cast", e, clients)

RunEvent ==
  /\ ~panicked /\ run.pc = "select" /\ chan[hub] # <<>>
  /\ Broadcast(Head(chan[hub]))
  /\ chan' = [chan EXCEPT ![hub] = Tail(@)]
  /\ UNCHANGED <<log, lost, queue, history, subs, closed, sending, panicked>>
  /\ UNCHANGED <<clients, gauge, stop, stopping, cl, ticks, asks>>

\* broadcastRingState, on the ticker.
RunTick ==
  /\ ~panicked /\ run.pc = "select" /\ ticks < MaxTicks
  /\ Broadcast(RingState)
  /\ ticks' = ticks + 1
  /\ UNCHANGED <<busVars, clients, gauge, stop, stopping, cl, asks>>

TypeOf(e) == IF e = RingState THEN ringType ELSE log[e]

\* One client of the copy: enqueued if it matches, dropped if the queue is full.
Cast(c) ==
  /\ ~panicked /\ run.pc = "cast" /\ c \in run.to
  /\ Update(c, IF TypeOf(run.event) \in cl[c].types THEN [cl[c] EXCEPT !.send = Enqueue(@, run.event)]
               ELSE cl[c])
  /\ run' = IF run.to = {c} THEN Running("select", 0, {}) ELSE [run EXCEPT !.to = @ \ {c}]
  /\ UNCHANGED <<busVars, clients, gauge, stop, stopping, ticks, asks>>

\* Mutant: Run also returns when there is no client.
RunStoppedEarly ==
  /\ ~panicked /\ run.pc = "select" /\ (stopped \/ clients = {})
  /\ Unsubscribe(hub)
  /\ run' = Running("close", 0, {})
  /\ UNCHANGED <<clients, gauge, stop, stopping, cl, ticks, asks>>

\* Run returns when it is stopped, and its deferred Unsubscribe has two steps.
RunStopped ==
  /\ ~panicked /\ run.pc = "select" /\ stopped
  /\ Unsubscribe(hub)
  /\ run' = Running("close", 0, {})
  /\ UNCHANGED <<clients, gauge, stop, stopping, cl, ticks, asks>>

RunCloses ==
  /\ ~panicked /\ run.pc = "close"
  /\ CloseChan(hub)
  /\ run' = Running("left", 0, {})
  /\ UNCHANGED <<clients, gauge, stop, stopping, cl, ticks, asks>>

-----------------------------------------------------------------------------
(* The clients                                                               *)

ClientStep == ~panicked /\ UNCHANGED <<busVars, run, stop, stopping, ticks>>

\* Mutant: a client starts with all types.
UpgradeSubscribed(c) ==
  /\ cl[c].up = "none"
  /\ Update(c, [NoClient EXCEPT !.up = "added", !.open = TRUE, !.types = Type])
  /\ clients' = clients \cup {c}
  /\ gauge' = gauge + 1
  /\ ClientStep /\ UNCHANGED asks

\* HandleUpgrade: into the map, a first ring state by a send that blocks, the pumps.
Upgrade(c) ==
  /\ cl[c].up = "none"
  /\ Update(c, [NoClient EXCEPT !.up = "added", !.open = TRUE])
  /\ clients' = clients \cup {c}
  /\ gauge' = gauge + 1
  /\ ClientStep /\ UNCHANGED asks

Greet(c) ==
  /\ cl[c].up = "added" /\ Len(cl[c].send) < SendCap
  /\ Update(c, [cl[c] EXCEPT !.up = "greeted", !.send = Append(@, RingState)])
  /\ ClientStep /\ UNCHANGED <<clients, gauge, asks>>

StartPumps(c) ==
  /\ cl[c].up = "greeted"
  /\ Update(c, [cl[c] EXCEPT !.up = "returned", !.writer = "run", !.reader = "run"])
  /\ ClientStep /\ UNCHANGED <<clients, gauge, asks>>

\* writePump: an event to the socket.
Write(c) ==
  /\ cl[c].writer = "run" /\ cl[c].send # <<>> /\ cl[c].open
  /\ Update(c, [cl[c] EXCEPT !.send = Tail(@), !.got = Append(@, Head(cl[c].send))])
  /\ ClientStep /\ UNCHANGED <<clients, gauge, asks>>

\* Mutant: only a client that is still in the map is counted out.
WriterLeavesOnce(c) ==
  /\ cl[c].writer = "run" /\ (cl[c].done \/ ~cl[c].open)
  /\ Update(c, [cl[c] EXCEPT !.writer = "left", !.open = FALSE])
  /\ clients' = clients \ {c}
  /\ gauge' = IF c \in clients THEN gauge - 1 ELSE gauge
  /\ ClientStep /\ UNCHANGED asks

\* Mutant: the client stays in the map.
WriterLeavesMap(c) ==
  /\ cl[c].writer = "run" /\ (cl[c].done \/ ~cl[c].open)
  /\ Update(c, [cl[c] EXCEPT !.writer = "left", !.open = FALSE])
  /\ gauge' = gauge - 1
  /\ ClientStep /\ UNCHANGED <<clients, asks>>

\* writePump returns: done, or a write that failed, an event's or a ping's.
WriterLeaves(c) ==
  /\ cl[c].writer = "run" /\ (cl[c].done \/ ~cl[c].open)
  /\ Update(c, [cl[c] EXCEPT !.writer = "left", !.open = FALSE])
  /\ clients' = clients \ {c}
  /\ gauge' = gauge - 1
  /\ ClientStep /\ UNCHANGED asks

\* readPump: a subscribe message.
Ask(c, types) ==
  /\ cl[c].reader = "run" /\ cl[c].open /\ asks < MaxAsks
  /\ Update(c, [cl[c] EXCEPT !.types = types])
  /\ asks' = asks + 1
  /\ ClientStep /\ UNCHANGED <<clients, gauge>>

\* readPump returns on an error: the connection is gone, or no pong came in time.
ReaderLeaves(c) ==
  /\ cl[c].reader = "run"
  /\ Update(c, [cl[c] EXCEPT !.reader = "left", !.done = TRUE])
  /\ ClientStep /\ UNCHANGED <<clients, gauge, asks>>

\* The peer closes the connection, or it breaks.
Disconnect(c) ==
  /\ cl[c].open
  /\ Update(c, [cl[c] EXCEPT !.open = FALSE])
  /\ ClientStep /\ UNCHANGED <<clients, gauge, asks>>

-----------------------------------------------------------------------------
(* Stop, called once by Server.Run                                           *)

StopStep == ~panicked /\ UNCHANGED <<busVars, gauge, run, ticks, asks>>

StopCloses == stop = "no" /\ stop' = "swap" /\ StopStep /\ UNCHANGED <<clients, stopping, cl>>

StopSwaps ==
  /\ stop = "swap"
  /\ stop' = "clients" /\ stopping' = clients /\ clients' = {}
  /\ StopStep /\ UNCHANGED cl

\* client.stop, then the connection is closed.
StopClient(c) ==
  /\ stop = "clients" /\ c \in stopping
  /\ Update(c, [cl[c] EXCEPT !.done = TRUE, !.open = FALSE])
  /\ stopping' = stopping \ {c}
  /\ StopStep /\ UNCHANGED <<stop, clients>>

StopReturns ==
  /\ stop = "clients" /\ stopping = {} /\ stop' = "done"
  /\ StopStep /\ UNCHANGED <<clients, stopping, cl>>

-----------------------------------------------------------------------------
Init ==
  /\ BusInit
  /\ clients = {} /\ gauge = 0 /\ run = Running("new", 0, {})
  /\ stop = "no" /\ stopping = {} /\ cl = [c \in Client |-> NoClient]
  /\ ticks = 0 /\ asks = 0

Bus == (\E t \in Type \ {ringType} : Publish(t)) \/ Take \/ (\E s \in Sub : Send(s))

Next ==
  \/ Bus /\ UNCHANGED hubVars
  \/ RunSubscribes \/ RunEvent \/ RunTick \/ RunStopped \/ RunCloses
  \/ \E c \in Client :
       \/ Cast(c) \/ StopClient(c)
       \/ Upgrade(c) \/ Greet(c) \/ StartPumps(c) \/ Write(c) \/ WriterLeaves(c)
       \/ ReaderLeaves(c) \/ Disconnect(c)
       \/ \E types \in Choices : Ask(c, types)
  \/ StopCloses \/ StopSwaps \/ StopReturns

Spec == Init /\ [][Next]_vars

\* The goroutines go on: the pumps of a client, HandleUpgrade, Stop.  A reader
\* returns once the connection is gone; otherwise nothing ends a client.
Goes(c) ==
  \/ Greet(c) \/ StartPumps(c) \/ WriterLeaves(c) \/ StopClient(c)
  \/ ~cl[c].open /\ ReaderLeaves(c)
Fairness == WF_vars((\E c \in Client : Goes(c)) \/ StopSwaps \/ StopReturns)

FairSpec == Spec /\ Fairness

-----------------------------------------------------------------------------
\* No queue holds more than it has room for, and the rest has its type.
TypeOK ==
  /\ BusTypeOK
  /\ clients \subseteq Client /\ stopping \subseteq Client /\ run.to \subseteq Client
  /\ gauge \in Nat
  /\ \A c \in Client : cl[c].types \subseteq Type /\ Len(cl[c].send) <= SendCap

\* The first thing a client reads is the ring state, although it is in the hub's map
\* before that is sent (websocket.go:192, 201), and the blocking send of it finds
\* an empty queue: nothing is broadcast to a client that has not subscribed.
GreetedFirst ==
  \A c \in Client : LET q == cl[c].got \o cl[c].send IN
    /\ q # <<>> => q[1] = RingState
    /\ cl[c].up = "added" => q = <<>>

\* The gauge of connected clients (websocket.go:194, 216) counts those whose write
\* pump has not left, whoever ended them and whether or not Stop emptied the map.
GaugeCounts ==
  gauge = Cardinality({c \in Client : cl[c].up # "none" /\ cl[c].writer # "left"})

\* The dispatcher sends on a closed channel (bus.go:111) only once the hub has been
\* told to stop: it copies the subscribers under the lock and serves them after it.
PanicOnlyAtStop == panicked => stopped

\* A client whose connection is gone, by the peer, a pump or Stop, is taken off the
\* map and its pumps end (websocket.go:208, 238), also if it went before they began.
ClientsLeave ==
  \A c \in Client :
    (cl[c].up # "none" /\ ~cl[c].open) ~> (panicked \/ (c \notin clients /\ cl[c].writer = "left"))

\* Entry i is the first i entries of q without the ring states among them.
busEvents(q) ==
  LET kept[i \in 0 .. Len(q)] ==
        IF i = 0 THEN <<>>
        ELSE IF q[i] = RingState THEN kept[i - 1] ELSE Append(kept[i - 1], q[i])
  IN  kept

\* The bus events a client has been given, in its socket or its queue.
Fed(c) == LET q == cl[c].got \o cl[c].send IN busEvents(q)[Len(q)]

F == INSTANCE Feed WITH Reader <- Client, interest <- [c \in Client |-> cl[c].types],
                        feed <- [c \in Client |-> Fed(c)]

\* From Publish through four queues to the socket (bus.go:38, 89; websocket.go:116,
\* 208), a client is given events of the types it asked for, each at most once and
\* in the order of publication, whatever was dropped on the way.
ImplementsFeed == F!Spec
=============================================================================

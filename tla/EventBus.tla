------------------------------ MODULE EventBus ------------------------------
(***************************************************************************)
(* The event bus (internal/events): publishers put events in a bounded     *)
(* queue, one dispatcher goroutine appends each to the history and hands   *)
(* it to the subscribers, a bounded channel each.  A full queue or channel *)
(* drops the event.  The subscribers are copied under the lock and served  *)
(* after it, while Unsubscribe may close a channel.                        *)
(*                                                                         *)
(* An event is its number in the order of publication.                     *)
(***************************************************************************)
EXTENDS Naturals, Sequences, FiniteSets

CONSTANTS
  Sub,                            \* the subscribers, each one channel
  Type,                           \* the types of event
  QueueCap, ChanCap, HistMax,     \* 1000, 256 and 500 in the code
  MaxEvents                       \* bound on the events published

ASSUME EventBusAssumption ==
  QueueCap \in Nat \ {0} /\ ChanCap \in Nat \ {0} /\ HistMax \in Nat \ {0} /\ MaxEvents \in Nat

VARIABLES
  log,                            \* history: the types of all events the queue took
  lost,                           \* events it did not take
  queue,                          \* EventBus.publish
  history,
  subs,                           \* sub -> types it receives, EventBus.subs
  chan, closed,                   \* sub -> its channel and whether it is closed
  sending,                        \* the dispatcher: [event, to], event 0 between two
  panicked                        \* a send on a closed channel has ended the process

busVars == <<log, lost, queue, history, subs, chan, closed, sending, panicked>>

NoEvent == 0

\* The dispatcher with event e still to hand to the subscribers in to.
Handing(e, to) == [event |-> IF to = {} THEN NoEvent ELSE e, to |-> to]
Idle == Handing(NoEvent, {})

\* A full queue drops the event.
Publish(t) ==
  /\ ~panicked /\ Len(log) + lost < MaxEvents
  /\ IF Len(queue) < QueueCap
     THEN /\ log' = Append(log, t)
          /\ queue' = Append(queue, Len(log) + 1)
          /\ UNCHANGED lost
     ELSE lost' = lost + 1 /\ UNCHANGED <<log, queue>>
  /\ UNCHANGED <<history, subs, chan, closed, sending, panicked>>

\* types: the types that matchesType accepts, all of them for EventAll.
Subscribe(s, types) ==
  /\ subs' = [subs EXCEPT ![s] = types]
  /\ UNCHANGED <<log, lost, queue, history, chan, closed, sending, panicked>>

\* Unsubscribe is two steps: off the map under the lock, then the channel closed.
Unsubscribe(s) ==
  /\ subs' = [subs EXCEPT ![s] = {}]
  /\ UNCHANGED <<log, lost, queue, history, chan, closed, sending, panicked>>

CloseChan(s) ==
  /\ closed' = [closed EXCEPT ![s] = TRUE]
  /\ UNCHANGED <<log, lost, queue, history, subs, chan, sending, panicked>>

\* run takes an event, dispatch records it and copies the subscribers it matches.
Take ==
  /\ ~panicked /\ sending = Idle /\ queue # <<>>
  /\ LET e == Head(queue)
         h == Append(history, e)
     IN  /\ history' = IF Len(h) > HistMax THEN Tail(h) ELSE h
         /\ sending' = Handing(e, {s \in Sub : log[e] \in subs[s]})
         /\ queue' = Tail(queue)
  /\ UNCHANGED <<log, lost, subs, chan, closed, panicked>>

\* Mutant: an event for which a channel has no room goes back to the queue.
SendRetries(s) ==
  LET full == Len(chan[s]) >= ChanCap IN
  /\ ~panicked /\ s \in sending.to
  /\ IF closed[s] THEN panicked' = TRUE /\ UNCHANGED <<chan, queue>>
     ELSE /\ chan' = IF full THEN chan ELSE [chan EXCEPT ![s] = Append(@, sending.event)]
          /\ queue' = IF full /\ Len(queue) < QueueCap THEN Append(queue, sending.event) ELSE queue
          /\ UNCHANGED panicked
  /\ sending' = Handing(sending.event, sending.to \ {s})
  /\ UNCHANGED <<log, lost, history, subs, closed>>

\* A send that does not block: a full channel drops the event, a closed one panics.
Send(s) ==
  /\ ~panicked /\ s \in sending.to
  /\ IF closed[s] THEN panicked' = TRUE /\ UNCHANGED chan
     ELSE /\ chan' = IF Len(chan[s]) < ChanCap THEN [chan EXCEPT ![s] = Append(@, sending.event)]
                     ELSE chan
          /\ UNCHANGED panicked
  /\ sending' = Handing(sending.event, sending.to \ {s})
  /\ UNCHANGED <<log, lost, queue, history, subs, closed>>

BusInit ==
  /\ log = <<>> /\ lost = 0 /\ queue = <<>> /\ history = <<>>
  /\ subs = [s \in Sub |-> {}] /\ chan = [s \in Sub |-> <<>>] /\ closed = [s \in Sub |-> FALSE]
  /\ sending = Idle /\ panicked = FALSE

BusTypeOK ==
  /\ Len(queue) <= QueueCap /\ Len(history) <= HistMax
  /\ \A s \in Sub : subs[s] \subseteq Type /\ Len(chan[s]) <= ChanCap
  /\ closed \in [Sub -> BOOLEAN] /\ panicked \in BOOLEAN
  /\ sending.to \subseteq Sub /\ sending.event \in 0 .. Len(log)
=============================================================================

----------------------------- MODULE HubProofs -----------------------------
(***************************************************************************)
(* Proofs about Hub, for any number of clients and events and any          *)
(* capacities of the queues: the bounds of the queues, who is greeted      *)
(* first, the gauge, when the dispatcher can panic, and that bus and hub   *)
(* together implement Feed.                                                *)
(***************************************************************************)
EXTENDS Hub, SequenceTheorems, FiniteSetTheorems, WellFoundedInduction, TLAPS

-----------------------------------------------------------------------------
(* Induction over the length of a queue: a set of numbers has a least one.   *)

LEMMA NatMin ==
  ASSUME NEW T, T \subseteq Nat, T # {}
  PROVE  \E x \in T : \A y \in T : x <= y
<1> DEFINE Less == OpToRel(<, Nat)
<1>1. IsWellFoundedOn(Less, Nat) BY NatLessThanWellFounded
<1> HIDE DEF Less
<1>2. PICK x \in T : \A y \in T : ~ (<<y, x>> \in Less) BY <1>1, WFMin
<1>3. \A y \in T : ~(y < x) BY <1>2 DEF Less, OpToRel
<1> QED BY <1>3

\* Step i of busEvents, from the result for the i - 1 entries before.
KeepStep(q, before, i) == IF q[i] = RingState THEN before ELSE Append(before, q[i])

IsKept(q, n, g) ==
  /\ g \in [0 .. n -> Seq(Nat)]
  /\ \A i \in 0 .. n : g[i] = IF i = 0 THEN <<>> ELSE KeepStep(q, g[i - 1], i)

LEMMA KeptExists ==
  ASSUME NEW q \in Seq(Nat)
  PROVE  \A n \in 0 .. Len(q) : \E g : IsKept(q, n, g)
<1> DEFINE T == {n \in 0 .. Len(q) : ~ \E g : IsKept(q, n, g)}
<1> SUFFICES ASSUME T # {} PROVE FALSE
  OBVIOUS
<1>0. Len(q) \in Nat /\ \A i \in 1 .. Len(q) : q[i] \in Nat
  BY ElementOfSeq, LenProperties
<1>1. T \subseteq Nat
  BY <1>0
<1>2. PICK n \in T : \A m \in T : n <= m
  BY <1>1, NatMin
<1> HIDE DEF T
<1>3. n \in 0 .. Len(q) /\ ~ \E g : IsKept(q, n, g)
  BY <1>2 DEF T
<1>4. CASE n = 0
  <2>1. IsKept(q, 0, [i \in 0 .. 0 |-> <<>>])
    BY DEF IsKept
  <2> QED BY <2>1, <1>3, <1>4
<1>5. CASE n # 0
  <2>1. n - 1 \in 0 .. Len(q) /\ n - 1 \notin T
    BY <1>0, <1>2, <1>3, <1>5
  <2>2. PICK g : IsKept(q, n - 1, g)
    BY <2>1 DEF T
  <2> DEFINE h == [i \in 0 .. n |-> IF i = n THEN KeepStep(q, g[n - 1], n) ELSE g[i]]
  <2>3. g[n - 1] \in Seq(Nat) /\ q[n] \in Nat
    BY <1>0, <1>3, <1>5, <2>2 DEF IsKept
  <2>4. KeepStep(q, g[n - 1], n) \in Seq(Nat)
    BY <2>3 DEF KeepStep
  <2>5. h \in [0 .. n -> Seq(Nat)]
    BY <1>3, <2>2, <2>4 DEF IsKept
  <2>6. ASSUME NEW i \in 0 .. n
        PROVE  h[i] = IF i = 0 THEN <<>> ELSE KeepStep(q, h[i - 1], i)
    <3>1. CASE i = n
      <4>1. h[n] = KeepStep(q, g[n - 1], n)
        BY <1>3
      <4>2. h[n - 1] = g[n - 1]
        BY <1>3, <1>5
      <4> QED BY <4>1, <4>2, <3>1, <1>5
    <3>2. CASE i # n /\ i # 0
      <4>1. h[i] = g[i] /\ h[i - 1] = g[i - 1]
        BY <1>3, <3>2
      <4>2. g[i] = KeepStep(q, g[i - 1], i)
        BY <1>3, <3>2, <2>2 DEF IsKept
      <4> QED BY <4>1, <4>2, <3>2
    <3>3. CASE i = 0
      BY <1>3, <1>5, <3>3, <2>2 DEF IsKept
    <3> QED BY <3>1, <3>2, <3>3
  <2>7. IsKept(q, n, h)
    BY <2>5, <2>6 DEF IsKept
  <2> QED BY <2>7, <1>3
<1> QED BY <1>4, <1>5

LEMMA KeptIs == ASSUME NEW q \in Seq(Nat) PROVE IsKept(q, Len(q), busEvents(q))
<1> DEFINE B(g) == [i \in 0 .. Len(q) |-> IF i = 0 THEN <<>>
                     ELSE IF q[i] = RingState THEN g[i - 1] ELSE Append(g[i - 1], q[i])]
<1>0. Len(q) \in Nat
  BY LenProperties
<1>1. PICK g : IsKept(q, Len(q), g)
  BY <1>0, KeptExists
<1>2. g = B(g)
  BY <1>1 DEF IsKept, KeepStep
<1>3. busEvents(q) = CHOOSE f : f = B(f)
  BY DEF busEvents
<1>4. busEvents(q) = B(busEvents(q))
  <2> HIDE DEF B
  <2> QED BY <1>2, <1>3, Zenon
<1>5. \A f : f = B(f) => f = g
  <2> SUFFICES ASSUME NEW f, f = B(f) PROVE f = g
    OBVIOUS
  <2> DEFINE T == {i \in 0 .. Len(q) : f[i] # g[i]}
  <2>1. \A i \in 0 .. Len(q) : f[i] = IF i = 0 THEN <<>> ELSE KeepStep(q, f[i - 1], i)
    BY DEF KeepStep
  <2>2. DOMAIN f = 0 .. Len(q) /\ f = [i \in 0 .. Len(q) |-> f[i]]
    OBVIOUS
  <2>3. SUFFICES ASSUME T # {} PROVE FALSE
    BY <2>2, <1>1 DEF IsKept
  <2>4. PICK i \in T : \A j \in T : i <= j
    <3>1. T \subseteq Nat
      BY <1>0
    <3> HIDE DEF T
    <3> QED BY <2>3, <3>1, NatMin
  <2>5. i \in 0 .. Len(q) /\ f[i] # g[i]
    BY <2>4
  <2>6. CASE i = 0
    BY <2>1, <2>5, <2>6, <1>1 DEF IsKept
  <2>7. CASE i # 0
    <3>1. i - 1 \in 0 .. Len(q) /\ i - 1 \notin T
      BY <1>0, <2>4, <2>5, <2>7
    <3>2. f[i - 1] = g[i - 1]
      BY <3>1
    <3>3. f[i] = KeepStep(q, f[i - 1], i)
      BY <2>1, <2>5, <2>7
    <3>4. g[i] = KeepStep(q, g[i - 1], i)
      BY <1>1, <2>5, <2>7 DEF IsKept
    <3> QED BY <3>2, <3>3, <3>4, <2>5
  <2> QED BY <2>6, <2>7
<1> QED BY <1>1, <1>2, <1>4, <1>5

\* What is kept is in the queue, and is no ring state.
LEMMA KeptMembers ==
  ASSUME NEW q \in Seq(Nat)
  PROVE  /\ busEvents(q)[Len(q)] \in Seq(Nat)
         /\ \A k \in 1 .. Len(busEvents(q)[Len(q)]) :
              \E j \in 1 .. Len(q) : busEvents(q)[Len(q)][k] = q[j] /\ q[j] # RingState
<1> DEFINE g == busEvents(q)
           From(i) == \A k \in 1 .. Len(g[i]) : \E j \in 1 .. Len(q) : g[i][k] = q[j] /\ q[j] # RingState
           T == {i \in 0 .. Len(q) : ~From(i)}
<1>0. Len(q) \in Nat /\ \A i \in 1 .. Len(q) : q[i] \in Nat
  BY ElementOfSeq, LenProperties
<1>1. IsKept(q, Len(q), g)
  BY KeptIs
<1> HIDE DEF g
<1>2. g[Len(q)] \in Seq(Nat)
  BY <1>0, <1>1 DEF IsKept
<1>5. ASSUME NEW i \in 1 .. Len(q)
      PROVE  g[i - 1] \in Seq(Nat) /\ g[i] = KeepStep(q, g[i - 1], i)
  <2>1. i \in 0 .. Len(q) /\ i - 1 \in 0 .. Len(q) /\ i # 0
    BY <1>0
  <2> QED BY <2>1, <1>1 DEF IsKept
<1>3. T = {}
  <2> SUFFICES ASSUME T # {} PROVE FALSE
    OBVIOUS
  <2>1. PICK i \in T : \A j \in T : i <= j
    <3>1. T \subseteq Nat
      BY <1>0
    <3> HIDE DEF T
    <3> QED BY <3>1, NatMin
  <2>2. i \in 0 .. Len(q) /\ ~From(i)
    BY <2>1
  <2>3. CASE i = 0
    BY <2>2, <2>3, <1>1 DEF IsKept
  <2>4. CASE i # 0
    <3>1. i \in 1 .. Len(q) /\ i - 1 \in 0 .. Len(q)
      BY <1>0, <2>2, <2>4
    <3>2. i - 1 \notin T
      <4> HIDE DEF T
      <4> QED BY <1>0, <2>1, <3>1
    <3>3. From(i - 1)
      BY <3>1, <3>2
    <3> HIDE DEF T
    <3>4. g[i - 1] \in Seq(Nat) /\ g[i] = KeepStep(q, g[i - 1], i)
      BY <1>5, <3>1
    <3>5. CASE q[i] = RingState
      <4>1. g[i] = g[i - 1]
        BY <3>4, <3>5 DEF KeepStep
      <4> QED BY <4>1, <3>3, <2>2
    <3>6. CASE q[i] # RingState
      <4>1. g[i] = Append(g[i - 1], q[i]) /\ q[i] \in Nat
        BY <3>1, <3>4, <3>6, <1>0 DEF KeepStep
      <4>2. /\ Len(g[i]) = Len(g[i - 1]) + 1 /\ Len(g[i - 1]) \in Nat
            /\ \A k \in 1 .. Len(g[i - 1]) : g[i][k] = g[i - 1][k]
            /\ g[i][Len(g[i - 1]) + 1] = q[i]
        <5> DEFINE b == g[i - 1]
        <5>1. b \in Seq(Nat) /\ g[i] = Append(b, q[i]) /\ q[i] \in Nat
          BY <4>1, <3>4
        <5> HIDE DEF b
        <5>2. /\ Len(Append(b, q[i])) = Len(b) + 1 /\ Len(b) \in Nat
              /\ \A k \in 1 .. Len(b) : Append(b, q[i])[k] = b[k]
              /\ Append(b, q[i])[Len(b) + 1] = q[i]
          BY <5>1, AppendProperties, LenProperties
        <5> QED BY <5>1, <5>2 DEF b
      <4>3. ASSUME NEW k \in 1 .. Len(g[i])
            PROVE  \E j \in 1 .. Len(q) : g[i][k] = q[j] /\ q[j] # RingState
        <5>1. CASE k = Len(g[i - 1]) + 1
          BY <5>1, <4>2, <3>1, <3>6
        <5>2. CASE k \in 1 .. Len(g[i - 1])
          BY <5>2, <4>2, <3>3
        <5> QED BY <5>1, <5>2, <4>2
      <4> QED BY <4>3, <2>2
    <3> QED BY <3>5, <3>6
  <2> QED BY <2>3, <2>4
<1>4. From(Len(q))
  BY <1>0, <1>3
<1> QED BY <1>2, <1>4 DEF g

\* An entry more adds itself, or nothing if it is a ring state.
LEMMA KeptAppend ==
  ASSUME NEW q \in Seq(Nat), NEW e \in Nat
  PROVE  busEvents(Append(q, e))[Len(q) + 1] = IF e = RingState THEN busEvents(q)[Len(q)]
                                              ELSE Append(busEvents(q)[Len(q)], e)
<1> DEFINE r == Append(q, e)
           g == busEvents(q)
           h == busEvents(r)
           T == {i \in 0 .. Len(q) : g[i] # h[i]}
<1>0. Len(q) \in Nat /\ r \in Seq(Nat) /\ Len(r) = Len(q) + 1
      /\ (\A i \in 1 .. Len(q) : r[i] = q[i]) /\ r[Len(q) + 1] = e
  BY LenProperties, AppendProperties
<1>1. IsKept(q, Len(q), g) /\ IsKept(r, Len(r), h)
  BY <1>0, KeptIs
<1> HIDE DEF g, h, r
<1>2. T = {}
  <2> SUFFICES ASSUME T # {} PROVE FALSE
    OBVIOUS
  <2>1. PICK i \in T : \A j \in T : i <= j
    <3>1. T \subseteq Nat
      BY <1>0
    <3> HIDE DEF T
    <3> QED BY <3>1, NatMin
  <2>2. i \in 0 .. Len(q) /\ g[i] # h[i]
    BY <2>1
  <2>3. CASE i = 0
    BY <1>0, <2>2, <2>3, <1>1 DEF IsKept
  <2>4. CASE i # 0
    <3>1. i - 1 \in 0 .. Len(q) /\ g[i - 1] = h[i - 1]
      BY <1>0, <2>1, <2>2, <2>4
    <3>2. g[i] = KeepStep(q, g[i - 1], i) /\ h[i] = KeepStep(r, h[i - 1], i)
      BY <1>0, <1>1, <2>2, <2>4 DEF IsKept
    <3>3. q[i] = r[i]
      BY <1>0, <2>2, <2>4
    <3> QED BY <2>2, <3>1, <3>2, <3>3 DEF KeepStep
  <2> QED BY <2>3, <2>4
<1>3. g[Len(q)] = h[Len(q)]
  BY <1>0, <1>2
<1>4. h[Len(q) + 1] = KeepStep(r, h[Len(q)], Len(q) + 1)
  <2>1. \A i \in 1 .. Len(r) : h[i] = KeepStep(r, h[i - 1], i)
    BY <1>0, <1>1 DEF IsKept
  <2>2. Len(q) + 1 \in 1 .. Len(r) /\ (Len(q) + 1) - 1 = Len(q)
    BY <1>0
  <2> QED BY <2>1, <2>2
<1>5. h[Len(q) + 1] = IF e = RingState THEN g[Len(q)] ELSE Append(g[Len(q)], e)
  BY <1>0, <1>3, <1>4 DEF KeepStep
<1> QED BY <1>5 DEF g, h, r

-----------------------------------------------------------------------------
(* The inductive invariant.                                                  *)

ClientState ==
  [up : {"none", "added", "greeted", "returned"}, open : BOOLEAN, done : BOOLEAN,
   types : SUBSET Type, send : Seq(Nat), got : Seq(Nat),
   writer : {"none", "run", "left"}, reader : {"none", "run", "left"}]

BusTypes ==
  /\ log \in Seq(Type) /\ lost \in Nat /\ queue \in Seq(Nat) /\ history \in Seq(Nat)
  /\ subs \in [Sub -> SUBSET Type] /\ chan \in [Sub -> Seq(Nat)] /\ closed \in [Sub -> BOOLEAN]
  /\ sending \in [event : Nat, to : SUBSET Sub] /\ panicked \in BOOLEAN

HubTypes ==
  /\ clients \in SUBSET Client /\ gauge \in Nat /\ stopping \in SUBSET Client
  /\ run \in [pc : {"new", "select", "cast", "close", "left"}, event : Nat, to : SUBSET Client]
  /\ stop \in {"no", "swap", "clients", "done"}
  /\ ticks \in Nat /\ asks \in Nat

\* No queue of the bus is longer than its capacity.
Capacities ==
  /\ Len(queue) <= QueueCap /\ Len(history) <= HistMax
  /\ \A s \in Sub : Len(chan[s]) <= ChanCap

\* The pumps run once HandleUpgrade has started them; until it has greeted the
\* client there is nothing for them to write, and no subscription.
Waits(s) ==
  /\ s.up # "returned" => s.writer = "none" /\ s.reader = "none"
  /\ s.up \in {"none", "added"} => s.types = {} /\ s.send = <<>> /\ s.got = <<>>

\* Once greeted, what the client has got and will get begins with a ring state.
Greeted(s) ==
  s.up \in {"greeted", "returned"} =>
    \/ s.got # <<>> /\ s.got[1] = RingState
    \/ s.got = <<>> /\ s.send # <<>> /\ s.send[1] = RingState

Sound(s) == s \in ClientState /\ Len(s.send) <= SendCap /\ Waits(s) /\ Greeted(s)

AllSound == DOMAIN cl = Client /\ cl = [c \in DOMAIN cl |-> cl[c]] /\ \A c \in Client : Sound(cl[c])

\* Those whose write pump has not left are finitely many, and the gauge is their number.
Connected == {c \in Client : cl[c].up # "none" /\ cl[c].writer # "left"}
Counted == IsFiniteSet(Connected) /\ gauge = Cardinality(Connected)

\* Run closes the channel when it has been stopped, and a send on it panics.
Stopped ==
  /\ run.pc \in {"close", "left"} => stopped
  /\ closed[hub] => stopped
  /\ panicked => stopped

Increasing(s) == \A i, j \in 1 .. Len(s) : i < j => s[i] < s[j]

\* Event e has been published before all that are still on their way to Run.
Ahead(e) ==
  /\ e \in 1 .. Len(log)
  /\ \A x \in Range(queue) : e < x
  /\ sending.event # NoEvent => e < sending.event
  /\ \A x \in Range(chan[hub]) : e < x

\* The events are on their way in the order of publication: each that a client was
\* given was published before the one being broadcast, that before those in the
\* channel, those before the one the dispatcher has in hand, that before the queue.
QueueOrdered == Increasing(queue) /\ Range(queue) \subseteq 1 .. Len(log)
SendingOrdered ==
  /\ sending.event = NoEvent <=> sending.to = {}
  /\ sending.event # NoEvent =>
       sending.event \in 1 .. Len(log) /\ \A x \in Range(queue) : sending.event < x
ChanOrdered ==
  /\ Increasing(chan[hub])
  /\ \A e \in Range(chan[hub]) :
       /\ e \in 1 .. Len(log)
       /\ \A x \in Range(queue) : e < x
       /\ sending.event # NoEvent => e < sending.event
RunOrdered == run.event # NoEvent => Ahead(run.event)
ClientsOrdered ==
  \A c \in Client : \A e \in Range(cl[c].got) \cup Range(cl[c].send) :
    e # RingState =>
      /\ Ahead(e)
      /\ run.event # NoEvent => e <= run.event /\ (c \in run.to => e < run.event)

Ordered == QueueOrdered /\ SendingOrdered /\ ChanOrdered /\ RunOrdered /\ ClientsOrdered

IInv == BusTypes /\ HubTypes /\ Capacities /\ AllSound /\ Counted /\ Stopped /\ Ordered

-----------------------------------------------------------------------------
(* Queues, for the steps that add to one or take from it.                    *)

LEMMA AppendAdds ==
  ASSUME NEW s \in Seq(Nat), NEW e \in Nat
  PROVE  /\ Append(s, e) \in Seq(Nat) /\ Append(s, e) # <<>>
         /\ Len(Append(s, e)) = Len(s) + 1 /\ Len(s) \in Nat
         /\ Range(Append(s, e)) = Range(s) \cup {e} /\ Range(s) \subseteq Nat
<1>1. /\ Len(s) \in Nat /\ DOMAIN s = 1 .. Len(s) /\ \A i \in 1 .. Len(s) : s[i] \in Nat
  BY LenProperties, ElementOfSeq
<1> DEFINE t == Append(s, e)
<1>2. /\ t \in Seq(Nat) /\ t # <<>> /\ Len(t) = Len(s) + 1 /\ DOMAIN t = 1 .. Len(t)
      /\ \A i \in 1 .. Len(s) : t[i] = s[i]
      /\ t[Len(s) + 1] = e
  BY AppendProperties, LenProperties
<1> HIDE DEF t
<1>3. Range(t) = Range(s) \cup {e}
  BY <1>1, <1>2 DEF Range
<1> QED BY <1>1, <1>2, <1>3 DEF Range, t

LEMMA AppendFirst ==
  ASSUME NEW s \in Seq(Nat), NEW e \in Nat
  PROVE  Append(s, e)[1] = IF s = <<>> THEN e ELSE s[1]
<1>1. Len(s) \in Nat /\ (s = <<>> <=> Len(s) = 0)
  BY LenProperties, EmptySeq
<1>2. /\ \A i \in 1 .. Len(s) : Append(s, e)[i] = s[i]
      /\ Append(s, e)[Len(s) + 1] = e
  BY AppendProperties
<1>3. CASE s = <<>>
  <2>1. Len(s) + 1 = 1
    BY <1>1, <1>3
  <2> QED BY <1>2, <1>3, <2>1
<1>4. CASE s # <<>>
  <2>1. 1 \in 1 .. Len(s)
    BY <1>1, <1>4
  <2> QED BY <1>2, <1>4, <2>1
<1> QED BY <1>3, <1>4

LEMMA HeadIsTaken ==
  ASSUME NEW s \in Seq(Nat), s # <<>>
  PROVE  /\ Head(s) \in Nat /\ Tail(s) \in Seq(Nat) /\ Head(s) = s[1]
         /\ Len(Tail(s)) = Len(s) - 1 /\ Len(s) \in Nat \ {0}
         /\ Range(s) = {Head(s)} \cup Range(Tail(s)) /\ Range(Tail(s)) \subseteq Nat
<1>1. /\ Len(s) \in Nat \ {0} /\ DOMAIN s = 1 .. Len(s) /\ Head(s) = s[1]
      /\ \A i \in 1 .. Len(s) : s[i] \in Nat
  BY LenProperties, ElementOfSeq, EmptySeq
<1> DEFINE t == Tail(s)
<1>2. /\ t \in Seq(Nat) /\ Len(t) = Len(s) - 1 /\ DOMAIN t = 1 .. Len(t)
      /\ \A i \in 1 .. Len(t) : t[i] = s[i + 1]
  BY HeadTailProperties, LenProperties
<1> HIDE DEF t
<1>3. Range(s) = {s[1]} \cup Range(t)
  <2>1. ASSUME NEW i \in 1 .. Len(s) PROVE s[i] \in {s[1]} \cup Range(t)
    <3>1. CASE i = 1
      BY <3>1
    <3>2. CASE i # 1
      <4>1. i - 1 \in 1 .. Len(t) /\ (i - 1) + 1 = i
        BY <1>1, <1>2, <3>2
      <4> QED BY <4>1, <1>2 DEF Range
    <3> QED BY <3>1, <3>2
  <2>2. ASSUME NEW i \in 1 .. Len(t) PROVE t[i] \in Range(s)
    <3>1. i + 1 \in 1 .. Len(s)
      BY <1>1, <1>2
    <3> QED BY <3>1, <1>1, <1>2 DEF Range
  <2>3. 1 \in 1 .. Len(s)
    BY <1>1
  <2> QED BY <2>1, <2>2, <2>3, <1>1, <1>2 DEF Range
<1>4. Range(t) \subseteq Nat
  BY <1>1, <1>2 DEF Range
<1> QED BY <1>1, <1>2, <1>3, <1>4 DEF t

LEMMA IncreasingAppend ==
  ASSUME NEW s \in Seq(Nat), NEW e \in Nat, Increasing(s), \A x \in Range(s) : x < e
  PROVE  Increasing(Append(s, e))
<1> DEFINE t == Append(s, e)
<1>1. /\ Len(s) \in Nat /\ DOMAIN s = 1 .. Len(s) /\ Len(t) = Len(s) + 1
      /\ \A i \in 1 .. Len(s) : t[i] = s[i]
      /\ t[Len(s) + 1] = e
  BY AppendProperties, LenProperties
<1> HIDE DEF t
<1>2. ASSUME NEW i \in 1 .. Len(t), NEW j \in 1 .. Len(t), i < j PROVE t[i] < t[j]
  <2>1. i \in 1 .. Len(s) /\ t[i] = s[i] /\ s[i] \in Range(s)
    BY <1>1, <1>2 DEF Range
  <2>2. CASE j = Len(s) + 1
    BY <1>1, <2>1, <2>2
  <2>3. CASE j \in 1 .. Len(s)
    BY <1>1, <1>2, <2>1, <2>3 DEF Increasing
  <2> QED BY <1>1, <2>2, <2>3
<1>3. Increasing(t)
  BY <1>2 DEF Increasing
<1> QED BY <1>3 DEF t

LEMMA IncreasingTail ==
  ASSUME NEW s \in Seq(Nat), s # <<>>, Increasing(s)
  PROVE  Increasing(Tail(s)) /\ \A x \in Range(Tail(s)) : Head(s) < x
<1> DEFINE t == Tail(s)
<1>1. /\ Len(s) \in Nat \ {0} /\ Head(s) = s[1]
      /\ Len(t) = Len(s) - 1 /\ DOMAIN t = 1 .. Len(t)
      /\ \A i \in 1 .. Len(t) : t[i] = s[i + 1]
  BY HeadTailProperties, LenProperties, EmptySeq
<1> HIDE DEF t
<1>2. \A i \in 1 .. Len(t) : i + 1 \in 1 .. Len(s) /\ 1 < i + 1 /\ 1 \in 1 .. Len(s)
  BY <1>1
<1>3. Increasing(t)
  <2>1. ASSUME NEW i \in 1 .. Len(t), NEW j \in 1 .. Len(t), i < j PROVE t[i] < t[j]
    <3>1. i + 1 < j + 1 /\ t[i] = s[i + 1] /\ t[j] = s[j + 1]
      BY <1>1, <2>1
    <3> QED BY <1>2, <3>1 DEF Increasing
  <2> QED BY <2>1 DEF Increasing
<1>4. \A x \in Range(t) : s[1] < x
  BY <1>1, <1>2 DEF Increasing, Range
<1> QED BY <1>1, <1>3, <1>4 DEF t

-----------------------------------------------------------------------------
(* Init                                                                      *)

LEMMA InitIInv == Init => IInv
<1> SUFFICES ASSUME Init PROVE IInv
  OBVIOUS
<1> USE EventBusAssumption, HubAssumption
<1> USE DEF Init, BusInit
<1>1. <<>> \in Seq(Nat) /\ <<>> \in Seq(Type) /\ Len(<<>>) = 0 /\ Range(<<>>) = {}
  BY EmptySeq DEF Range
<1>2. BusTypes
  BY <1>1 DEF BusTypes, Idle, Handing, NoEvent
<1>3. HubTypes
  BY <1>1 DEF HubTypes, Running
<1>4. Capacities
  BY <1>1 DEF Capacities
<1>5. AllSound
  BY <1>1 DEF AllSound, Sound, ClientState, Waits, Greeted, NoClient
<1>6. Counted
  <2>1. Connected = {}
    BY DEF Connected, NoClient
  <2> QED BY <2>1, FS_EmptySet DEF Counted
<1>7. Stopped
  BY DEF Stopped, Running
<1>8. Ordered
  BY <1>1 DEF Ordered, QueueOrdered, SendingOrdered, ChanOrdered, RunOrdered, ClientsOrdered,
              Increasing, Idle, Handing, Running, NoClient, NoEvent
<1> QED BY <1>2, <1>3, <1>4, <1>5, <1>6, <1>7, <1>8 DEF IInv

-----------------------------------------------------------------------------
(* The steps, by what they change.                                           *)

LEMMA BusSteps ==
  [Next]_vars =>
    \/ ((\E t \in Type : Publish(t)) \/ Take \/ Send(hub)) /\ UNCHANGED hubVars
    \/ RunSubscribes \/ RunEvent \/ RunStopped \/ RunCloses \/ UNCHANGED busVars
BY HubAssumption
   DEF Next, Bus, RunTick, Cast, StopClient, Upgrade, Greet, StartPumps, Write, WriterLeaves,
       ReaderLeaves, Disconnect, Ask, StopCloses, StopSwaps, StopReturns, ClientStep, StopStep, vars

LEMMA RunSteps ==
  [Next]_vars =>
    RunSubscribes \/ RunEvent \/ RunTick \/ RunStopped \/ RunCloses
      \/ (\E c \in Client : Cast(c)) \/ UNCHANGED run
BY DEF Next, Bus, StopClient, Upgrade, Greet, StartPumps, Write, WriterLeaves, ReaderLeaves,
       Disconnect, Ask, StopCloses, StopSwaps, StopReturns, ClientStep, StopStep, vars, hubVars

ClientActs(c) ==
  \/ Cast(c) \/ StopClient(c) \/ Upgrade(c) \/ Greet(c) \/ StartPumps(c) \/ Write(c)
  \/ WriterLeaves(c) \/ ReaderLeaves(c) \/ Disconnect(c) \/ \E types \in Choices : Ask(c, types)

LEMMA ClientSteps == [Next]_vars => (\E c \in Client : ClientActs(c)) \/ UNCHANGED <<cl, gauge>>
BY DEF ClientActs, Next, Bus, RunSubscribes, RunEvent, RunTick, RunStopped, RunCloses,
       StopCloses, StopSwaps, StopReturns, StopStep, vars, hubVars

LEMMA StopSteps ==
  [Next]_vars => UNCHANGED stop \/ (stop' \in {"swap", "clients", "done"} /\ ~panicked /\ UNCHANGED <<busVars, run>>)
BY DEF Next, Bus, RunSubscribes, RunEvent, RunTick, RunStopped, RunCloses, Cast, StopClient,
       Upgrade, Greet, StartPumps, Write, WriterLeaves, ReaderLeaves, Disconnect, Ask,
       StopCloses, StopSwaps, StopReturns, ClientStep, StopStep, vars, hubVars

-----------------------------------------------------------------------------
(* The bus                                                                   *)

\* What the steps of the bus do to its types and its capacities.
LEMMA BusTypesStep == IInv /\ [Next]_vars => BusTypes' /\ Capacities'
<1> SUFFICES ASSUME IInv, [Next]_vars PROVE BusTypes' /\ Capacities'
  OBVIOUS
<1> USE EventBusAssumption, HubAssumption
<1>1. BusTypes /\ Capacities /\ Ordered
  BY DEF IInv
<1>2. ASSUME NEW t \in Type, Publish(t) PROVE BusTypes' /\ Capacities'
  <2>1. CASE Len(queue) < QueueCap
    <3>1. log' \in Seq(Type)
      <4>1. log \in Seq(Type) /\ log' = Append(log, t)
        BY <1>1, <1>2, <2>1 DEF Publish, BusTypes
      <4> QED BY <4>1, AppendProperties
    <3>2. queue' \in Seq(Nat) /\ Len(queue') <= QueueCap
      <4>1. Len(log) + 1 \in Nat /\ queue' = Append(queue, Len(log) + 1)
        BY <1>1, <1>2, <2>1, LenProperties DEF Publish, BusTypes
      <4> QED BY <1>1, <2>1, <4>1, AppendAdds DEF BusTypes
    <3> QED BY <1>1, <1>2, <2>1, <3>1, <3>2 DEF Publish, BusTypes, Capacities
  <2> QED BY <1>1, <1>2, <2>1 DEF Publish, BusTypes, Capacities
<1>3. CASE Take
  <2> DEFINE h == Append(history, Head(queue))
  <2>1. queue # <<>> /\ queue' = Tail(queue) /\ history' = IF Len(h) > HistMax THEN Tail(h) ELSE h
    BY <1>3 DEF Take
  <2>2. queue' \in Seq(Nat) /\ Len(queue') <= QueueCap /\ Head(queue) \in Nat
    BY <1>1, <2>1, HeadIsTaken DEF BusTypes, Capacities
  <2>3. h \in Seq(Nat) /\ Len(h) <= HistMax + 1 /\ h # <<>>
    <3>1. history \in Seq(Nat) /\ Len(history) <= HistMax
      BY <1>1 DEF BusTypes, Capacities
    <3> QED BY <2>2, <3>1, AppendAdds
  <2> HIDE DEF h
  <2>4. history' \in Seq(Nat) /\ Len(history') <= HistMax
    BY <2>1, <2>3, HeadIsTaken
  <2>5. sending' \in [event : Nat, to : SUBSET Sub]
    BY <1>3, <2>2 DEF Take, Handing, NoEvent
  <2> QED BY <1>1, <1>3, <2>2, <2>4, <2>5 DEF Take, BusTypes, Capacities
<1>4. CASE Send(hub)
  <2>1. sending.event \in Nat /\ chan[hub] \in Seq(Nat) /\ Len(chan[hub]) \in Nat
    BY <1>1, LenProperties DEF BusTypes
  <2>2. sending' \in [event : Nat, to : SUBSET Sub]
    BY <1>1, <1>4 DEF BusTypes, Send, Handing, NoEvent
  <2>3. CASE ~closed[hub] /\ Len(chan[hub]) < ChanCap
    <3>1. chan' = [chan EXCEPT ![hub] = Append(chan[hub], sending.event)]
      BY <1>4, <2>3 DEF Send
    <3>2. Append(chan[hub], sending.event) \in Seq(Nat) /\ Len(Append(chan[hub], sending.event)) <= ChanCap
      BY <2>1, <2>3, AppendAdds
    <3>3. chan' \in [Sub -> Seq(Nat)] /\ \A s \in Sub : Len(chan'[s]) <= ChanCap
      BY <1>1, <3>1, <3>2 DEF BusTypes, Capacities
    <3> QED BY <1>1, <1>4, <2>2, <2>3, <3>3 DEF Send, BusTypes, Capacities
  <2> QED BY <1>1, <1>4, <2>2, <2>3 DEF Send, BusTypes, Capacities
<1>5. CASE RunEvent
  <2>1. /\ chan[hub] \in Seq(Nat) /\ chan[hub] # <<>>
        /\ chan' = [chan EXCEPT ![hub] = Tail(chan[hub])]
    BY <1>1, <1>5 DEF RunEvent, BusTypes
  <2>2. Tail(chan[hub]) \in Seq(Nat) /\ Len(Tail(chan[hub])) = Len(chan[hub]) - 1 /\ Len(chan[hub]) \in Nat
    BY <2>1, HeadIsTaken
  <2>3. chan' \in [Sub -> Seq(Nat)] /\ \A s \in Sub : Len(chan'[s]) <= ChanCap
    BY <1>1, <2>1, <2>2 DEF BusTypes, Capacities
  <2> QED BY <1>1, <1>5, <2>3 DEF RunEvent, BusTypes, Capacities
<1>6. CASE RunSubscribes
  BY <1>1, <1>6 DEF RunSubscribes, Subscribe, BusTypes, Capacities
<1>7. CASE RunStopped
  BY <1>1, <1>7 DEF RunStopped, Unsubscribe, BusTypes, Capacities
<1>8. CASE RunCloses
  BY <1>1, <1>8 DEF RunCloses, CloseChan, BusTypes, Capacities
<1>9. CASE UNCHANGED busVars
  BY <1>1, <1>9 DEF busVars, BusTypes, Capacities
<1> QED BY <1>2, <1>3, <1>4, <1>5, <1>6, <1>7, <1>8, <1>9, BusSteps

-----------------------------------------------------------------------------
(* The clients                                                               *)

LEMMA EnqueueKeeps ==
  ASSUME NEW q \in Seq(Nat), NEW e \in Nat, Len(q) <= SendCap
  PROVE  /\ Enqueue(q, e) \in Seq(Nat) /\ Len(Enqueue(q, e)) <= SendCap
         /\ Range(Enqueue(q, e)) \subseteq Range(q) \cup {e}
         /\ q # <<>> => Enqueue(q, e) # <<>> /\ Enqueue(q, e)[1] = q[1]
<1>1. SendCap \in Nat /\ Len(q) \in Nat
  BY HubAssumption, LenProperties
<1>2. CASE Len(q) < SendCap
  <2>1. Enqueue(q, e) = Append(q, e)
    BY <1>2 DEF Enqueue
  <2>2. q # <<>> => Append(q, e)[1] = q[1]
    <3>1. q # <<>> => 1 \in 1 .. Len(q)
      BY <1>1, EmptySeq
    <3> QED BY <3>1, AppendProperties
  <2> QED BY <1>1, <1>2, <2>1, <2>2, AppendAdds
<1>3. CASE ~(Len(q) < SendCap)
  BY <1>3 DEF Enqueue
<1> QED BY <1>2, <1>3

\* A step of client c gives it a sound state.
LEMMA SoundAfter ==
  ASSUME IInv, NEW c \in Client, ClientActs(c)
  PROVE  \E r : cl' = [cl EXCEPT ![c] = r] /\ Sound(r)
<1> USE HubAssumption
<1> DEFINE s == cl[c]
<1>1. Sound(s) /\ run.event \in Nat
  BY DEF IInv, AllSound, HubTypes
<1>2. /\ s \in ClientState /\ Len(s.send) <= SendCap /\ Waits(s) /\ Greeted(s)
      /\ s.send \in Seq(Nat) /\ s.got \in Seq(Nat) /\ RingState \in Nat
  BY <1>1 DEF Sound, ClientState, RingState
<1>3. CASE Cast(c)
  <2>1. CASE TypeOf(run.event) \in s.types
    <3> DEFINE q == Enqueue(s.send, run.event)
               r == [s EXCEPT !.send = q]
    <3>1. cl' = [cl EXCEPT ![c] = r]
      BY <1>3, <2>1 DEF Cast, Update
    <3>2. q \in Seq(Nat) /\ Len(q) <= SendCap /\ (s.send # <<>> => q # <<>> /\ q[1] = s.send[1])
      BY <1>1, <1>2, EnqueueKeeps
    <3> HIDE DEF q, s
    <3>3. r \in ClientState /\ Len(r.send) <= SendCap
      BY <1>2, <3>2 DEF ClientState
    <3>4. Waits(r)
      BY <1>2, <2>1 DEF Waits, ClientState, s
    <3>5. Greeted(r)
      BY <1>2, <3>2 DEF Greeted, ClientState
    <3>6. Sound(r)
      BY <3>3, <3>4, <3>5 DEF Sound
    <3> QED BY <3>1, <3>6
  <2>2. CASE ~(TypeOf(run.event) \in s.types)
    BY <1>1, <1>3, <2>2 DEF Cast, Update
  <2> QED BY <2>1, <2>2
<1>4. CASE Upgrade(c)
  <2> DEFINE r == [NoClient EXCEPT !.up = "added", !.open = TRUE]
  <2>1. Sound(r)
    <3>1. <<>> \in Seq(Nat) /\ Len(<<>>) = 0
      BY EmptySeq
    <3>2. r.up = "added" /\ r.send = <<>> /\ r.got = <<>> /\ r.types = {} /\ r.writer = "none" /\ r.reader = "none"
      BY DEF NoClient
    <3>3. r \in ClientState
      BY <3>1 DEF NoClient, ClientState
    <3> HIDE DEF r
    <3> QED BY <3>1, <3>2, <3>3 DEF Sound, Waits, Greeted
  <2> QED BY <1>4, <2>1 DEF Upgrade, Update
<1>5. CASE Greet(c)
  <2> DEFINE q == Append(s.send, RingState)
             r == [s EXCEPT !.up = "greeted", !.send = q]
  <2>1. cl' = [cl EXCEPT ![c] = r]
    BY <1>5 DEF Greet, Update
  <2>2. s.up = "added" /\ Len(s.send) < SendCap
    BY <1>5 DEF Greet
  <2>3. s.send = <<>> /\ s.got = <<>> /\ s.types = {}
    BY <1>2, <2>2 DEF Waits
  <2>4. q \in Seq(Nat) /\ Len(q) = 1 /\ q # <<>> /\ q[1] = RingState
    BY <1>2, <2>3, AppendProperties, EmptySeq
  <2> HIDE DEF q, s
  <2>5. r \in ClientState
    BY <1>2, <2>4 DEF ClientState
  <2>6. r.up = "greeted" /\ r.send = q /\ r.writer = s.writer /\ r.reader = s.reader /\ r.got = <<>>
    BY <1>2, <2>3 DEF ClientState
  <2> HIDE DEF r
  <2>7. Len(q) <= SendCap
    BY <2>4
  <2>8. Waits(r) /\ Greeted(r)
    BY <1>2, <2>2, <2>4, <2>6 DEF Waits, Greeted
  <2>9. Sound(r)
    BY <2>5, <2>6, <2>7, <2>8 DEF Sound
  <2> QED BY <2>1, <2>9 DEF r
<1>6. CASE Write(c)
  <2> DEFINE e == Head(s.send)
             q == Tail(s.send)
             g == Append(s.got, e)
             r == [s EXCEPT !.send = q, !.got = g]
  <2>1. cl' = [cl EXCEPT ![c] = r]
    BY <1>6 DEF Write, Update
  <2>2. s.writer = "run" /\ s.send # <<>>
    BY <1>6 DEF Write
  <2>3. s.up = "returned"
    BY <1>2, <2>2 DEF Waits
  <2>4. /\ e \in Nat /\ q \in Seq(Nat) /\ Len(q) = Len(s.send) - 1 /\ e = s.send[1]
        /\ Len(s.send) \in Nat
    BY <1>2, <2>2, HeadIsTaken
  <2>5. g \in Seq(Nat) /\ g # <<>> /\ g[1] = IF s.got = <<>> THEN e ELSE s.got[1]
    <3> HIDE DEF e, s
    <3> QED BY <1>2, <2>4, AppendFirst, AppendAdds
  <2> HIDE DEF e, q, g, s
  <2>6. r \in ClientState
    BY <1>2, <2>4, <2>5 DEF ClientState
  <2>7. /\ r.up = "returned" /\ r.send = q /\ r.got = g /\ Len(q) <= SendCap
        /\ s.got = <<>> => e = RingState
        /\ s.got # <<>> => s.got[1] = RingState
    BY <1>2, <2>2, <2>3, <2>4 DEF ClientState, Greeted
  <2> HIDE DEF r
  <2>8. Sound(r)
    BY <2>5, <2>6, <2>7 DEF Sound, Waits, Greeted
  <2> QED BY <2>1, <2>8 DEF r
<1>7. CASE \E types \in Choices : Ask(c, types)
  <2>1. PICK types \in Choices : Ask(c, types)
    BY <1>7
  <2> DEFINE r == [s EXCEPT !.types = types]
  <2>2. cl' = [cl EXCEPT ![c] = r] /\ s.reader = "run"
    BY <2>1 DEF Ask, Update
  <2>3. types \in SUBSET Type
    OBVIOUS
  <2> HIDE DEF s
  <2>4. Sound(r)
    BY <1>2, <2>2, <2>3 DEF Sound, ClientState, Waits, Greeted
  <2> QED BY <2>2, <2>4
<1>8. CASE StartPumps(c)
  <2> DEFINE r == [s EXCEPT !.up = "returned", !.writer = "run", !.reader = "run"]
  <2>1. cl' = [cl EXCEPT ![c] = r] /\ s.up = "greeted"
    BY <1>8 DEF StartPumps, Update
  <2> HIDE DEF s
  <2>2. Sound(r)
    BY <1>2, <2>1 DEF Sound, ClientState, Waits, Greeted
  <2> QED BY <2>1, <2>2
<1>9. CASE WriterLeaves(c)
  <2> DEFINE r == [s EXCEPT !.writer = "left", !.open = FALSE]
  <2>1. cl' = [cl EXCEPT ![c] = r] /\ s.writer = "run"
    BY <1>9 DEF WriterLeaves, Update
  <2> HIDE DEF s
  <2>2. Sound(r)
    BY <1>2, <2>1 DEF Sound, ClientState, Waits, Greeted
  <2> QED BY <2>1, <2>2
<1>10. CASE ReaderLeaves(c)
  <2> DEFINE r == [s EXCEPT !.reader = "left", !.done = TRUE]
  <2>1. cl' = [cl EXCEPT ![c] = r] /\ s.reader = "run"
    BY <1>10 DEF ReaderLeaves, Update
  <2> HIDE DEF s
  <2>2. Sound(r)
    BY <1>2, <2>1 DEF Sound, ClientState, Waits, Greeted
  <2> QED BY <2>1, <2>2
<1>11. CASE Disconnect(c)
  <2> DEFINE r == [s EXCEPT !.open = FALSE]
  <2>1. cl' = [cl EXCEPT ![c] = r]
    BY <1>11 DEF Disconnect, Update
  <2> HIDE DEF s
  <2>2. Sound(r)
    BY <1>2 DEF Sound, ClientState, Waits, Greeted
  <2> QED BY <2>1, <2>2
<1>12. CASE StopClient(c)
  <2> DEFINE r == [s EXCEPT !.done = TRUE, !.open = FALSE]
  <2>1. cl' = [cl EXCEPT ![c] = r]
    BY <1>12 DEF StopClient, Update
  <2> HIDE DEF s
  <2>2. Sound(r)
    BY <1>2 DEF Sound, ClientState, Waits, Greeted
  <2> QED BY <2>1, <2>2
<1> QED BY <1>3, <1>4, <1>5, <1>6, <1>7, <1>8, <1>9, <1>10, <1>11, <1>12 DEF ClientActs

LEMMA AllSoundStep == IInv /\ [Next]_vars => AllSound'
<1> SUFFICES ASSUME IInv, [Next]_vars PROVE AllSound'
  OBVIOUS
<1>1. AllSound
  BY DEF IInv
<1>2. CASE UNCHANGED cl
  BY <1>1, <1>2 DEF AllSound
<1>3. CASE \E c \in Client : ClientActs(c)
  <2>1. PICK c \in Client : ClientActs(c)
    BY <1>3
  <2>2. PICK r : cl' = [cl EXCEPT ![c] = r] /\ Sound(r)
    BY <2>1, SoundAfter
  <2> QED BY <1>1, <2>2 DEF AllSound
<1> QED BY <1>2, <1>3, ClientSteps

\* Upgrade counts a client in, the end of its write pump counts it out, once.
LEMMA CountedStep == IInv /\ [Next]_vars => Counted'
<1> SUFFICES ASSUME IInv, [Next]_vars PROVE Counted'
  OBVIOUS
<1>1. /\ IsFiniteSet(Connected) /\ gauge = Cardinality(Connected) /\ Cardinality(Connected) \in Nat
      /\ AllSound
  BY FS_CardinalityType DEF IInv, Counted
<1>2. CASE UNCHANGED <<cl, gauge>>
  BY <1>1, <1>2 DEF Counted, Connected
<1>3. ASSUME NEW c \in Client, ClientActs(c) PROVE Counted'
  <2>1. /\ DOMAIN cl = Client /\ cl = [d \in DOMAIN cl |-> cl[d]] /\ cl[c] \in ClientState
        /\ cl[c].up # "returned" => cl[c].writer = "none"
    BY <1>1 DEF AllSound, Sound, Waits
  <2>2. CASE Upgrade(c)
    <3>1. Connected' = Connected \cup {c} /\ c \notin Connected
      BY <2>1, <2>2 DEF Upgrade, Update, NoClient, Connected
    <3> QED BY <1>1, <2>2, <3>1, FS_AddElement DEF Counted, Upgrade
  <2>3. CASE WriterLeaves(c)
    <3>1. Connected' = Connected \ {c}
      BY <2>1, <2>3 DEF WriterLeaves, Update, ClientState, Connected
    <3>2. c \in Connected
      BY <2>1, <2>3 DEF WriterLeaves, ClientState, Connected
    <3> QED BY <1>1, <2>3, <3>1, <3>2, FS_RemoveElement DEF Counted, WriterLeaves
  <2>4. ASSUME NEW r, cl' = [cl EXCEPT ![c] = r], gauge' = gauge,
               (r.up # "none" /\ r.writer # "left") <=> (cl[c].up # "none" /\ cl[c].writer # "left")
        PROVE  Counted'
    <3>1. Connected' = Connected
      BY <2>1, <2>4 DEF Connected
    <3> QED BY <1>1, <2>4, <3>1 DEF Counted
  <2> USE DEF ClientState
  <2>5. CASE Cast(c)
    BY <2>1, <2>4, <2>5 DEF Cast, Update
  <2>6. CASE StopClient(c)
    BY <2>1, <2>4, <2>6 DEF StopClient, StopStep, Update
  <2>7. CASE Greet(c)
    BY <2>1, <2>4, <2>7 DEF Greet, Update
  <2>8. CASE StartPumps(c)
    BY <2>1, <2>4, <2>8 DEF StartPumps, Update
  <2>9. CASE Write(c)
    BY <2>1, <2>4, <2>9 DEF Write, Update
  <2>10. CASE ReaderLeaves(c) \/ Disconnect(c) \/ \E types \in Choices : Ask(c, types)
    BY <2>1, <2>4, <2>10 DEF ReaderLeaves, Disconnect, Ask, Update
  <2> QED BY <1>3, <2>2, <2>3, <2>5, <2>6, <2>7, <2>8, <2>9, <2>10 DEF ClientActs
<1> QED BY <1>2, <1>3, ClientSteps

\* Run is the one subscriber: the channel is closed by its return, and it returns
\* when it has been stopped.
LEMMA StoppedStep == IInv /\ [Next]_vars => Stopped'
<1> SUFFICES ASSUME IInv, [Next]_vars PROVE Stopped'
  OBVIOUS
<1>1. Stopped /\ closed \in [{hub} -> BOOLEAN]
  BY HubAssumption DEF IInv, BusTypes
<1>2. stopped => stopped'
  BY StopSteps DEF stopped
<1>3. (run'.pc \in {"close", "left"}) => stopped
  <2>1. CASE UNCHANGED run
    BY <1>1, <2>1 DEF Stopped
  <2>2. CASE RunSubscribes \/ RunEvent \/ RunTick
    BY <2>2 DEF RunSubscribes, RunEvent, RunTick, Broadcast, Running
  <2>3. CASE RunStopped \/ RunCloses
    BY <1>1, <2>3 DEF RunStopped, RunCloses, Stopped
  <2>4. CASE \E c \in Client : Cast(c)
    <3>1. PICK c \in Client : Cast(c)
      BY <2>4
    <3>2. run' = Running("select", 0, {}) \/ run' = [run EXCEPT !.to = @ \ {c}]
      BY <3>1 DEF Cast
    <3>3. run'.pc = "select" \/ run'.pc = run.pc
      BY <3>1, <3>2 DEF Running, IInv, HubTypes
    <3> QED BY <1>1, <3>3 DEF Stopped
  <2> QED BY <2>1, <2>2, <2>3, <2>4, RunSteps
<1>4. closed'[hub] => stopped
  <2>1. CASE RunCloses
    BY <1>1, <2>1 DEF RunCloses, Stopped
  <2>2. CASE UNCHANGED closed
    BY <1>1, <2>2 DEF Stopped
  <2> QED BY <2>1, <2>2, BusSteps
          DEF Publish, Take, Send, RunSubscribes, Subscribe, RunEvent, RunStopped, Unsubscribe, busVars
<1>5. panicked' => stopped
  <2>1. CASE Send(hub)
    BY <1>1, <2>1 DEF Send, Stopped
  <2>2. CASE UNCHANGED panicked
    BY <1>1, <2>2 DEF Stopped
  <2> QED BY <2>1, <2>2, BusSteps
          DEF Publish, Take, RunSubscribes, Subscribe, RunEvent, RunStopped, Unsubscribe,
              RunCloses, CloseChan, busVars
<1> QED BY <1>2, <1>3, <1>4, <1>5 DEF Stopped

LEMMA HubTypesStep == IInv /\ [Next]_vars => HubTypes'
<1> SUFFICES ASSUME IInv, [Next]_vars PROVE HubTypes'
  OBVIOUS
<1>1. HubTypes /\ BusTypes
  BY DEF IInv
<1>2. gauge' \in Nat
  BY CountedStep, FS_CardinalityType DEF Counted
<1> DEFINE P == clients' \in SUBSET Client /\ stopping' \in SUBSET Client
                /\ stop' \in {"no", "swap", "clients", "done"} /\ ticks' \in Nat /\ asks' \in Nat
<1>3. P
  <2>1. ASSUME NEW c \in Client, ClientActs(c) PROVE P
    <3>1. CASE Cast(c)
      BY <1>1, <3>1 DEF Cast, HubTypes
    <3>4. CASE StopClient(c)
      BY <1>1, <3>4 DEF StopClient, StopStep, HubTypes
    <3>5. CASE \E types \in Choices : Ask(c, types)
      <4>1. UNCHANGED <<clients, stopping, stop, ticks>> /\ asks' = asks + 1
        BY <3>5 DEF Ask, ClientStep
      <4> QED BY <1>1, <4>1 DEF HubTypes
    <3>2. CASE Upgrade(c) \/ WriterLeaves(c)
      BY <1>1, <3>2 DEF Upgrade, WriterLeaves, ClientStep, HubTypes
    <3>3. CASE Greet(c) \/ StartPumps(c) \/ Write(c) \/ ReaderLeaves(c) \/ Disconnect(c)
      BY <1>1, <3>3 DEF Greet, StartPumps, Write, ReaderLeaves, Disconnect, ClientStep, HubTypes
    <3> QED BY <2>1, <3>1, <3>2, <3>3, <3>4, <3>5 DEF ClientActs
  <2>2. CASE StopCloses \/ StopSwaps \/ StopReturns
    BY <1>1, <2>2 DEF StopCloses, StopSwaps, StopReturns, StopStep, HubTypes
  <2>3. CASE RunSubscribes \/ RunEvent \/ RunTick \/ RunStopped \/ RunCloses
    BY <1>1, <2>3 DEF RunSubscribes, RunEvent, RunTick, RunStopped, RunCloses, HubTypes
  <2>4. CASE UNCHANGED hubVars
    BY <1>1, <2>4 DEF hubVars, HubTypes
  <2> HIDE DEF P
  <2> QED BY <2>1, <2>2, <2>3, <2>4 DEF Next, ClientActs, vars
<1> DEFINE R == [pc : {"new", "select", "cast", "close", "left"}, event : Nat, to : SUBSET Client]
<1>4. run' \in R
  <2>1. ASSUME NEW e \in Nat, Broadcast(e) PROVE run' \in R
    BY <1>1, <2>1 DEF Broadcast, Running, HubTypes
  <2>2. CASE RunEvent
    <3>1. Head(chan[hub]) \in Nat
      <4>1. chan[hub] \in Seq(Nat) /\ chan[hub] # <<>>
        BY <1>1, <2>2, HubAssumption DEF BusTypes, RunEvent
      <4> QED BY <4>1, HeadIsTaken
    <3> QED BY <2>1, <2>2, <3>1 DEF RunEvent
  <2>3. CASE RunTick
    BY <2>1, <2>3 DEF RunTick, RingState
  <2>4. CASE RunSubscribes \/ RunStopped \/ RunCloses
    BY <2>4 DEF RunSubscribes, RunStopped, RunCloses, Running
  <2>5. CASE \E c \in Client : Cast(c)
    <3>1. PICK c \in Client : Cast(c)
      BY <2>5
    <3>2. CASE run.to = {c}
      BY <3>1, <3>2 DEF Cast, Running
    <3>3. CASE run.to # {c}
      <4>1. run' = [run EXCEPT !.to = run.to \ {c}]
        BY <3>1, <3>3 DEF Cast
      <4> QED BY <1>1, <4>1 DEF HubTypes
    <3> QED BY <3>2, <3>3
  <2>6. CASE UNCHANGED run
    BY <1>1, <2>6 DEF HubTypes
  <2> QED BY <2>2, <2>3, <2>4, <2>5, <2>6, RunSteps
<1> QED BY <1>2, <1>3, <1>4 DEF HubTypes

-----------------------------------------------------------------------------
(* The order of the events on their way                                      *)

BusOrdered == QueueOrdered /\ SendingOrdered /\ ChanOrdered

\* What is ahead of the rest stays so: only newer events join.
LEMMA AheadKeeps ==
  ASSUME IInv, [Next]_vars
  PROVE  BusOrdered' /\ \A e \in Nat : Ahead(e) => Ahead(e)'
<1> USE HubAssumption
<1> DEFINE n == Len(log)
           C == chan[hub]
           G == BusOrdered' /\ \A e \in Nat : Ahead(e) => Ahead(e)'
<1>1. /\ n \in Nat /\ log \in Seq(Type) /\ queue \in Seq(Nat) /\ C \in Seq(Nat) /\ chan \in [{hub} -> Seq(Nat)]
      /\ sending \in [event : Nat, to : SUBSET {hub}]
      /\ Range(queue) \subseteq 1 .. n
  BY LenProperties DEF IInv, BusTypes, Ordered, QueueOrdered
<1>2. QueueOrdered /\ SendingOrdered /\ ChanOrdered
  BY DEF IInv, Ordered
<1>3. ASSUME NEW t \in Type, Publish(t) PROVE G
  <2>1. CASE Len(queue) < QueueCap
    <3>1. /\ log' = Append(log, t) /\ queue' = Append(queue, n + 1)
          /\ UNCHANGED <<chan, sending>>
      BY <1>3, <2>1 DEF Publish
    <3>2. Len(log') = n + 1
      BY <1>1, <3>1, AppendProperties
    <3>3. Range(queue') = Range(queue) \cup {n + 1}
      BY <1>1, <3>1, AppendAdds
    <3>4. \A x \in Range(queue) : x < n + 1
      BY <1>1
    <3>5. QueueOrdered'
      <4>1. Increasing(queue')
        BY <1>1, <1>2, <3>1, <3>4, IncreasingAppend DEF QueueOrdered
      <4> QED BY <1>1, <3>2, <3>3, <4>1 DEF QueueOrdered
    <3>6. SendingOrdered' /\ ChanOrdered'
      BY <1>1, <1>2, <3>1, <3>2, <3>3 DEF SendingOrdered, ChanOrdered
    <3>7. \A e \in Nat : Ahead(e) => Ahead(e)'
      BY <1>1, <3>1, <3>2, <3>3 DEF Ahead
    <3> QED BY <3>5, <3>6, <3>7 DEF BusOrdered
  <2>2. CASE ~(Len(queue) < QueueCap)
    BY <1>2, <1>3, <2>2 DEF Publish, BusOrdered, QueueOrdered, SendingOrdered, ChanOrdered, Ahead
  <2> QED BY <2>1, <2>2
<1>4. CASE Take
  <2> DEFINE h == Head(queue)
             q == Tail(queue)
  <2>1. /\ queue # <<>> /\ queue' = q /\ UNCHANGED <<log, chan>>
        /\ sending' = Handing(h, {s \in Sub : log[h] \in subs[s]}) /\ sending = Idle
    BY <1>4 DEF Take
  <2>2. Range(queue) = {h} \cup Range(q) /\ h \in Nat
    BY <1>1, <2>1, HeadIsTaken
  <2>3. Increasing(q) /\ \A x \in Range(q) : h < x
    BY <1>1, <1>2, <2>1, IncreasingTail DEF QueueOrdered
  <2> HIDE DEF h, q
  <2>4. h \in 1 .. n /\ h # NoEvent
    BY <1>1, <2>2 DEF NoEvent
  <2>5. QueueOrdered'
    BY <1>1, <2>1, <2>2, <2>3 DEF QueueOrdered
  <2>6. /\ sending'.event = h \/ sending'.event = NoEvent
        /\ sending'.event = NoEvent <=> sending'.to = {}
    BY <2>1, <2>4 DEF Handing, NoEvent
  <2>7. SendingOrdered'
    BY <2>1, <2>3, <2>4, <2>6 DEF SendingOrdered
  <2>8. ChanOrdered' /\ \A e \in Nat : Ahead(e) => Ahead(e)'
    BY <1>2, <2>1, <2>2, <2>6 DEF ChanOrdered, Ahead
  <2> QED BY <2>5, <2>7, <2>8 DEF BusOrdered
<1>5. CASE Send(hub)
  <2> DEFINE e == sending.event
  <2>1. /\ hub \in sending.to /\ UNCHANGED <<log, queue>>
        /\ sending' = Handing(e, sending.to \ {hub})
        /\ chan' = [chan EXCEPT ![hub] = Append(C, e)] \/ chan' = chan
    BY <1>5 DEF Send
  <2>2. e # NoEvent /\ e \in 1 .. n /\ e \in Nat /\ \A x \in Range(queue) : e < x
    BY <1>1, <1>2, <2>1 DEF SendingOrdered
  <2>3. sending' = Idle /\ Idle.event = NoEvent /\ Idle.to = {}
    BY <1>1, <2>1 DEF Handing, Idle
  <2>4. /\ Range(chan'[hub]) \subseteq Range(C) \cup {e}
        /\ Increasing(chan'[hub])
    <3>1. Increasing(C) /\ \A x \in Range(C) : x < e
      BY <1>2, <2>2 DEF ChanOrdered
    <3>2. Increasing(Append(C, e)) /\ Range(Append(C, e)) = Range(C) \cup {e}
      BY <1>1, <2>2, <3>1, IncreasingAppend, AppendAdds
    <3>3. chan'[hub] = Append(C, e) \/ chan'[hub] = C
      BY <1>1, <2>1
    <3> QED BY <3>1, <3>2, <3>3
  <2> HIDE DEF e
  <2>5. BusOrdered'
    BY <1>2, <2>1, <2>2, <2>3, <2>4 DEF BusOrdered, QueueOrdered, SendingOrdered, ChanOrdered
  <2>6. \A x \in Nat : Ahead(x) => Ahead(x)'
    BY <2>1, <2>2, <2>3, <2>4 DEF Ahead, e
  <2> QED BY <2>5, <2>6
<1>6. CASE RunEvent
  <2>1. C # <<>> /\ chan' = [chan EXCEPT ![hub] = Tail(C)] /\ UNCHANGED <<log, queue, sending>>
    BY <1>6 DEF RunEvent
  <2>2. chan'[hub] = Tail(C)
    BY <1>1, <2>1
  <2>3. Range(Tail(C)) \subseteq Range(C) /\ Increasing(Tail(C))
    BY <1>1, <1>2, <2>1, HeadIsTaken, IncreasingTail DEF ChanOrdered
  <2> QED BY <1>2, <2>1, <2>2, <2>3
          DEF BusOrdered, QueueOrdered, SendingOrdered, ChanOrdered, Ahead
<1>7. CASE UNCHANGED <<log, queue, chan, sending>>
  BY <1>2, <1>7 DEF BusOrdered, QueueOrdered, SendingOrdered, ChanOrdered, Ahead
<1> QED BY <1>3, <1>4, <1>5, <1>6, <1>7, BusSteps
        DEF RunSubscribes, Subscribe, RunStopped, Unsubscribe, RunCloses, CloseChan, busVars

\* The entries of a client's socket and queue.
GivenOf(s) == Range(s.got) \cup Range(s.send)

\* A client's step adds nothing to them but a ring state, except for Cast.
LEMMA GivenKeeps ==
  ASSUME IInv, NEW c \in Client, ClientActs(c), ~Cast(c)
  PROVE  UNCHANGED run /\ \A d \in Client : GivenOf(cl'[d]) \subseteq GivenOf(cl[d]) \cup {RingState}
<1> DEFINE s == cl[c]
           G == \A d \in Client : GivenOf(cl'[d]) \subseteq GivenOf(cl[d]) \cup {RingState}
<1>1. DOMAIN cl = Client /\ s \in ClientState /\ s.got \in Seq(Nat) /\ s.send \in Seq(Nat) /\ RingState \in Nat
  BY DEF IInv, AllSound, Sound, ClientState, RingState
<1>2. UNCHANGED run
  BY DEF ClientActs, StopClient, StopStep, Upgrade, Greet, StartPumps, Write, WriterLeaves,
         ReaderLeaves, Disconnect, Ask, ClientStep
<1>3. ASSUME NEW r, cl' = [cl EXCEPT ![c] = r], GivenOf(r) \subseteq GivenOf(s) \cup {RingState} PROVE G
  BY <1>1, <1>3
<1>12. ASSUME NEW r, cl' = [cl EXCEPT ![c] = r], r.got = s.got, r.send = s.send PROVE G
  BY <1>1, <1>12 DEF GivenOf
<1> HIDE DEF G
<1>4. ASSUME Upgrade(c) PROVE G
  <2> DEFINE r == [NoClient EXCEPT !.up = "added", !.open = TRUE]
  <2>1. r.got = <<>> /\ r.send = <<>> /\ Range(<<>>) = {}
    BY EmptySeq DEF NoClient, Range
  <2>2. GivenOf(r) = {}
    BY <2>1 DEF GivenOf
  <2>3. cl' = [cl EXCEPT ![c] = r]
    BY <1>4 DEF Upgrade, Update
  <2> HIDE DEF r
  <2> QED BY <1>3, <2>2, <2>3
<1>5. ASSUME Greet(c) PROVE G
  <2> DEFINE q == Append(s.send, RingState)
             r == [s EXCEPT !.up = "greeted", !.send = q]
  <2>1. cl' = [cl EXCEPT ![c] = r]
    BY <1>5 DEF Greet, Update
  <2>2. Range(q) = Range(s.send) \cup {RingState}
    BY <1>1, AppendAdds
  <2> HIDE DEF q, s
  <2>3. r.got = s.got /\ r.send = q
    BY <1>1 DEF ClientState
  <2>4. GivenOf(r) \subseteq GivenOf(s) \cup {RingState}
    BY <2>2, <2>3 DEF GivenOf
  <2> HIDE DEF r
  <2> QED BY <1>3, <2>1, <2>4 DEF s
<1>6. ASSUME Write(c) PROVE G
  <2> DEFINE q == Tail(s.send)
             g == Append(s.got, Head(s.send))
             r == [s EXCEPT !.send = q, !.got = g]
  <2>1. cl' = [cl EXCEPT ![c] = r] /\ s.send # <<>>
    BY <1>6 DEF Write, Update
  <2>2. Range(s.send) = {Head(s.send)} \cup Range(q) /\ Head(s.send) \in Nat
    BY <1>1, <2>1, HeadIsTaken
  <2>3. Range(g) = Range(s.got) \cup {Head(s.send)}
    BY <1>1, <2>2, AppendAdds
  <2> HIDE DEF q, g, s
  <2>4. r.got = g /\ r.send = q
    BY <1>1 DEF ClientState
  <2>5. GivenOf(r) = GivenOf(s)
    BY <2>2, <2>3, <2>4 DEF GivenOf
  <2> HIDE DEF r
  <2> QED BY <1>3, <2>1, <2>5 DEF s
<1>7. ASSUME StopClient(c) PROVE G
  <2> DEFINE r == [s EXCEPT !.done = TRUE, !.open = FALSE]
  <2>1. cl' = [cl EXCEPT ![c] = r]
    BY <1>7 DEF StopClient, Update
  <2>2. r.got = s.got /\ r.send = s.send
    BY <1>1 DEF ClientState
  <2> HIDE DEF r
  <2> QED BY <1>12, <2>1, <2>2
<1>8. ASSUME StartPumps(c) PROVE G
  <2> DEFINE r == [s EXCEPT !.up = "returned", !.writer = "run", !.reader = "run"]
  <2>1. cl' = [cl EXCEPT ![c] = r]
    BY <1>8 DEF StartPumps, Update
  <2>2. r.got = s.got /\ r.send = s.send
    BY <1>1 DEF ClientState
  <2> HIDE DEF r
  <2> QED BY <1>12, <2>1, <2>2
<1>9. ASSUME WriterLeaves(c) PROVE G
  <2> DEFINE r == [s EXCEPT !.writer = "left", !.open = FALSE]
  <2>1. cl' = [cl EXCEPT ![c] = r]
    BY <1>9 DEF WriterLeaves, Update
  <2>2. r.got = s.got /\ r.send = s.send
    BY <1>1 DEF ClientState
  <2> HIDE DEF r
  <2> QED BY <1>12, <2>1, <2>2
<1>10. ASSUME ReaderLeaves(c) PROVE G
  <2> DEFINE r == [s EXCEPT !.reader = "left", !.done = TRUE]
  <2>1. cl' = [cl EXCEPT ![c] = r]
    BY <1>10 DEF ReaderLeaves, Update
  <2>2. r.got = s.got /\ r.send = s.send
    BY <1>1 DEF ClientState
  <2> HIDE DEF r
  <2> QED BY <1>12, <2>1, <2>2
<1>11. ASSUME Disconnect(c) PROVE G
  <2> DEFINE r == [s EXCEPT !.open = FALSE]
  <2>1. cl' = [cl EXCEPT ![c] = r]
    BY <1>11 DEF Disconnect, Update
  <2>2. r.got = s.got /\ r.send = s.send
    BY <1>1 DEF ClientState
  <2> HIDE DEF r
  <2> QED BY <1>12, <2>1, <2>2
<1>13. ASSUME NEW types \in Choices, Ask(c, types) PROVE G
  <2> DEFINE r == [s EXCEPT !.types = types]
  <2>1. cl' = [cl EXCEPT ![c] = r]
    BY <1>13 DEF Ask, Update
  <2>2. r.got = s.got /\ r.send = s.send
    BY <1>1 DEF ClientState
  <2> HIDE DEF r
  <2> QED BY <1>12, <2>1, <2>2
<1>14. G
  BY <1>4, <1>5, <1>6, <1>7, <1>8, <1>9, <1>10, <1>11, <1>13 DEF ClientActs
<1> QED BY <1>2, <1>14 DEF G

LEMMA OrderedStep == IInv /\ [Next]_vars => Ordered'
<1> SUFFICES ASSUME IInv, [Next]_vars PROVE RunOrdered' /\ ClientsOrdered'
  BY AheadKeeps DEF Ordered, BusOrdered
<1> DEFINE G == RunOrdered' /\ ClientsOrdered'
<1>1. /\ RunOrdered /\ ClientsOrdered /\ ChanOrdered
      /\ run.event \in Nat /\ run.to \in SUBSET Client /\ chan[hub] \in Seq(Nat)
      /\ DOMAIN cl = Client
  BY HubAssumption DEF IInv, Ordered, HubTypes, BusTypes, AllSound
<1>2. \A e \in Nat : Ahead(e) => Ahead(e)'
  BY AheadKeeps
<1>3. \A c \in Client : GivenOf(cl[c]) \subseteq Nat
  <2> SUFFICES ASSUME NEW c \in Client PROVE GivenOf(cl[c]) \subseteq Nat
    OBVIOUS
  <2>1. cl[c].got \in Seq(Nat) /\ cl[c].send \in Seq(Nat)
    BY DEF IInv, AllSound, Sound, ClientState
  <2> QED BY <2>1, AppendAdds DEF GivenOf
<1>4. ClientsOrdered = \A c \in Client : \A e \in GivenOf(cl[c]) :
        e # RingState => /\ Ahead(e)
                         /\ run.event # NoEvent => e <= run.event /\ (c \in run.to => e < run.event)
  BY DEF ClientsOrdered, GivenOf
<1>5. ClientsOrdered' = \A c \in Client : \A e \in GivenOf(cl'[c]) :
        e # RingState => /\ Ahead(e)'
                         /\ run'.event # NoEvent => e <= run'.event /\ (c \in run'.to => e < run'.event)
  BY DEF ClientsOrdered, GivenOf
<1>6. \A c \in Client : \A e \in GivenOf(cl[c]) : e # RingState =>
        /\ Ahead(e) /\ e \in Nat
        /\ run.event # NoEvent => e <= run.event /\ (c \in run.to => e < run.event)
  BY <1>1, <1>3, <1>4
\* Run takes an event: those given to the clients left the channel before it.
<1>7. ASSUME UNCHANGED cl, NEW h \in Nat,
             run'.event # NoEvent => run'.event = h /\ Ahead(h)' /\ \A e \in Nat : Ahead(e) => e < h
      PROVE  G
  <2>1. RunOrdered'
    BY <1>7 DEF RunOrdered, Ahead
  <2>2. ASSUME NEW c \in Client, NEW e \in GivenOf(cl'[c]), e # RingState
        PROVE  Ahead(e)' /\ (run'.event # NoEvent => e < run'.event)
    BY <1>2, <1>6, <1>7, <2>2
  <2>3. \A c \in Client : GivenOf(cl'[c]) \subseteq Nat
    BY <1>3, <1>7
  <2>4. run'.event \in Nat
    BY HubTypesStep DEF HubTypes
  <2>5. ClientsOrdered'
    BY <1>5, <2>2, <2>3, <2>4
  <2> QED BY <2>1, <2>5
<1>8. CASE RunEvent
  <2>0. chan[hub] # <<>> /\ UNCHANGED cl /\ Broadcast(Head(chan[hub]))
    BY <1>8 DEF RunEvent
  <2>9. PICK h \in Nat : h = Head(chan[hub]) /\ h \in Range(chan[hub])
    BY <1>1, <2>0, HeadIsTaken
  <2>1. chan[hub] # <<>> /\ UNCHANGED cl /\ Broadcast(h)
    BY <2>0, <2>9
  <2>2. h \in Nat /\ h \in Range(chan[hub])
    BY <2>9
  <2>3. run'.event = NoEvent \/ run'.event = h
    BY <2>1 DEF Broadcast, Running, NoEvent
  <2>4. Ahead(h)'
    <3>1. UNCHANGED <<log, queue, sending>> /\ chan' = [chan EXCEPT ![hub] = Tail(chan[hub])]
      BY <1>8 DEF RunEvent
    <3>2. chan'[hub] = Tail(chan[hub])
      BY <3>1, HubAssumption DEF IInv, BusTypes
    <3>3. \A x \in Range(Tail(chan[hub])) : h < x
      BY <1>1, <2>1, <2>9, IncreasingTail DEF ChanOrdered
    <3> QED BY <1>1, <2>2, <3>1, <3>2, <3>3 DEF ChanOrdered, Ahead
  <2>5. \A e \in Nat : Ahead(e) => e < h
    BY <2>2 DEF Ahead
  <2> QED BY <1>7, <2>1, <2>3, <2>4, <2>5
<1>9. CASE RunSubscribes \/ RunTick \/ RunStopped \/ RunCloses
  <2>1. run'.event = NoEvent /\ UNCHANGED cl
    BY <1>9 DEF RunSubscribes, RunTick, RunStopped, RunCloses, Broadcast, Running, RingState, NoEvent
  <2> QED BY <1>7, <2>1
<1>10. CASE UNCHANGED <<cl, run>>
  <2>1. RunOrdered'
    BY <1>1, <1>2, <1>10 DEF RunOrdered
  <2>2. ClientsOrdered'
    BY <1>2, <1>5, <1>6, <1>10
  <2> QED BY <2>1, <2>2
<1>11. ASSUME NEW c \in Client, Cast(c) PROVE G
  <2> DEFINE s == cl[c]
  <2>10. PICK x \in Nat : x = run.event
    BY <1>1
  <2>1. /\ c \in run.to
        /\ cl' = [cl EXCEPT ![c] = s] \/ cl' = [cl EXCEPT ![c] = [s EXCEPT !.send = Enqueue(s.send, x)]]
        /\ run' = Running("select", 0, {}) \/ run' = [run EXCEPT !.to = @ \ {c}]
    BY <1>11, <2>10 DEF Cast, Update
  <2>2. s \in ClientState /\ s.send \in Seq(Nat) /\ Len(s.send) <= SendCap
    BY DEF IInv, AllSound, Sound, ClientState
  <2>3. Range(Enqueue(s.send, x)) \subseteq Range(s.send) \cup {x}
    BY <1>1, <2>2, EnqueueKeeps
  <2>4. GivenOf(cl'[c]) \subseteq GivenOf(s) \cup {x}
    <3> DEFINE q == Enqueue(s.send, x)
               r == [s EXCEPT !.send = q]
    <3>1. r.got = s.got /\ r.send = q
      <4> HIDE DEF q, s
      <4> QED BY <2>2 DEF ClientState
    <3>2. cl'[c] = s \/ cl'[c] = r
      <4> HIDE DEF q
      <4> QED BY <1>1, <2>1 DEF q
    <3> HIDE DEF q, r, s
    <3> QED BY <2>3, <3>1, <3>2 DEF GivenOf, q
  <2>5. \A d \in Client \ {c} : cl'[d] = cl[d]
    BY <1>1, <2>1
  <2>6. /\ run'.event = NoEvent \/ run'.event = x
        /\ run'.event # NoEvent => run'.to = run.to \ {c}
    BY <2>1, <2>10 DEF Running, NoEvent, IInv, HubTypes
  <2>11. x # NoEvent => Ahead(x)'
    BY <1>1, <1>2, <2>10 DEF RunOrdered
  <2>7. RunOrdered'
    BY <2>6, <2>11 DEF RunOrdered, Ahead
  <2>8. ASSUME NEW d \in Client, NEW e \in GivenOf(cl'[d]), e # RingState
        PROVE  /\ Ahead(e)'
               /\ run'.event # NoEvent => e <= run'.event /\ (d \in run'.to => e < run'.event)
    <3>1. CASE d # c
      BY <1>2, <1>6, <2>5, <2>6, <2>8, <2>10, <3>1
    <3>2. CASE d = c /\ e \in GivenOf(s)
      BY <1>2, <1>6, <2>1, <2>6, <2>8, <2>10, <3>2
    <3>3. CASE d = c /\ e = x
      <4>1. Ahead(x)'
        BY <2>8, <2>11, <3>3 DEF RingState, NoEvent
      <4> QED BY <2>6, <3>3, <4>1
    <3> QED BY <2>4, <2>8, <3>1, <3>2, <3>3
  <2>9. ClientsOrdered'
    BY <1>5, <2>8
  <2> QED BY <2>7, <2>9
<1>12. ASSUME NEW c \in Client, ClientActs(c), ~Cast(c) PROVE G
  <2>1. UNCHANGED run /\ \A d \in Client : GivenOf(cl'[d]) \subseteq GivenOf(cl[d]) \cup {RingState}
    BY <1>12, GivenKeeps
  <2>2. RunOrdered'
    BY <1>1, <1>2, <2>1 DEF RunOrdered
  <2>3. ASSUME NEW d \in Client, NEW e \in GivenOf(cl'[d]), e # RingState
        PROVE  /\ Ahead(e)'
               /\ run'.event # NoEvent => e <= run'.event /\ (d \in run'.to => e < run'.event)
    BY <1>2, <1>6, <2>1, <2>3
  <2>4. ClientsOrdered'
    BY <1>5, <2>3
  <2> QED BY <2>2, <2>4
<1> HIDE DEF G
<1>13. G
  BY <1>8, <1>9, <1>10, <1>11, <1>12, ClientSteps, RunSteps DEF G
<1> QED BY <1>13 DEF G

LEMMA StepIInv == IInv /\ [Next]_vars => IInv'
<1>1. IInv /\ [Next]_vars => Ordered'
  BY OrderedStep
<1> QED BY <1>1, BusTypesStep, HubTypesStep, AllSoundStep, CountedStep, StoppedStep DEF IInv

LEMMA Invariance == Spec => []IInv
BY InitIInv, StepIInv, PTL DEF Spec

-----------------------------------------------------------------------------
(* The theorems                                                              *)

\* No queue of the bus or of a client is ever longer than its capacity (bus.go:47,
\* websocket.go:192), and every variable has its type.
THEOREM TypeCorrect == Spec => []TypeOK
<1>1. IInv => TypeOK
  <2> SUFFICES ASSUME IInv PROVE TypeOK
    OBVIOUS
  <2>1. BusTypeOK
    <3>1. sending.event \in 0 .. Len(log)
      <4>1. Len(log) \in Nat
        BY LenProperties DEF IInv, BusTypes
      <4> QED BY <4>1 DEF IInv, BusTypes, Ordered, SendingOrdered, NoEvent
    <3> QED BY <3>1 DEF BusTypeOK, IInv, BusTypes, Capacities
  <2>2. \A c \in Client : cl[c].types \subseteq Type /\ Len(cl[c].send) <= SendCap
    BY DEF IInv, AllSound, Sound, ClientState
  <2> QED BY <2>1, <2>2 DEF TypeOK, IInv, HubTypes
<1> QED BY <1>1, Invariance, PTL

\* A client reads the ring state first (websocket.go:192, 201): it is in the hub's map
\* before that is sent, but nothing is broadcast to it until it has subscribed.
THEOREM FirstGreeted == Spec => []GreetedFirst
<1>1. IInv => GreetedFirst
  <2> SUFFICES ASSUME IInv, NEW c \in Client
               PROVE  LET q == cl[c].got \o cl[c].send IN
                        /\ q # <<>> => q[1] = RingState
                        /\ cl[c].up = "added" => q = <<>>
    BY DEF GreetedFirst
  <2> DEFINE g == cl[c].got
             s == cl[c].send
  <2>1. g \in Seq(Nat) /\ s \in Seq(Nat) /\ Len(g) \in Nat /\ Len(s) \in Nat /\ Waits(cl[c]) /\ Greeted(cl[c])
        /\ cl[c].up \in {"none", "added", "greeted", "returned"}
    BY LenProperties DEF IInv, AllSound, Sound, ClientState
  <2>2. CASE cl[c].up \in {"none", "added"}
    <3>1. g \o s = <<>>
      BY <2>1, <2>2, ConcatEmptySeq DEF Waits
    <3> QED BY <2>2, <3>1
  <2>3. CASE cl[c].up \in {"greeted", "returned"}
    <3>1. (g \o s)[1] = RingState
      <4>1. CASE g # <<>>
        <5>1. 1 \in 1 .. Len(g) /\ 1 \in 1 .. Len(g) + Len(s) /\ 1 <= Len(g)
          <6>1. Len(g) \in Nat \ {0}
            BY <2>1, <4>1, EmptySeq
          <6>2. \A m \in Nat \ {0}, n \in Nat : 1 \in 1 .. m /\ 1 \in 1 .. m + n /\ 1 <= m
            OBVIOUS
          <6> HIDE DEF g, s
          <6> QED BY <2>1, <6>1, <6>2
        <5>2. (g \o s)[1] = g[1]
          BY <2>1, <5>1, ConcatProperties
        <5> QED BY <2>1, <2>3, <4>1, <5>2 DEF Greeted
      <4>2. CASE g = <<>>
        <5>1. g \o s = s
          BY <2>1, <4>2, ConcatEmptySeq
        <5> QED BY <2>1, <2>3, <4>2, <5>1 DEF Greeted
      <4> QED BY <4>1, <4>2
    <3> QED BY <2>3, <3>1
  <2> QED BY <2>1, <2>2, <2>3
<1> QED BY <1>1, Invariance, PTL

\* The gauge counts the clients whose write pump has not left (websocket.go:194, 216),
\* whoever ended them and although Stop empties the map under them.
THEOREM GaugeIsRight == Spec => []GaugeCounts
<1>1. IInv => GaugeCounts
  BY DEF IInv, Counted, Connected, GaugeCounts
<1> QED BY <1>1, Invariance, PTL

\* A send on a closed channel (bus.go:111) happens only once the hub was told to stop.
THEOREM PanicsOnlyAtStop == Spec => []PanicOnlyAtStop
<1>1. IInv => PanicOnlyAtStop
  BY DEF IInv, Stopped, PanicOnlyAtStop
<1> QED BY <1>1, Invariance, PTL

-----------------------------------------------------------------------------
(* The hub implements the feed                                               *)

\* What is read of a socket and a queue together.
Both(s) == s.got \o s.send
KeptOf(q) == busEvents(q)[Len(q)]

\* An entry more in the queue is one more at the end of both.
LEMMA BothAppend ==
  ASSUME NEW g \in Seq(Nat), NEW s \in Seq(Nat), NEW e \in Nat
  PROVE  g \o Append(s, e) = Append(g \o s, e) /\ g \o s \in Seq(Nat)
<1> DEFINE a == g \o Append(s, e)
           b == Append(g \o s, e)
           t == Append(s, e)
           q == g \o s
<1>1. /\ t \in Seq(Nat) /\ Len(t) = Len(s) + 1 /\ Len(s) \in Nat /\ Len(g) \in Nat
      /\ (\A i \in 1 .. Len(s) : t[i] = s[i]) /\ t[Len(s) + 1] = e
  BY AppendProperties, LenProperties
<1>2. /\ q \in Seq(Nat) /\ Len(q) = Len(g) + Len(s)
      /\ \A i \in 1 .. Len(g) + Len(s) : q[i] = IF i <= Len(g) THEN g[i] ELSE s[i - Len(g)]
  BY ConcatProperties
<1> HIDE DEF t, q
<1>3. /\ g \o t \in Seq(Nat) /\ Len(g \o t) = Len(g) + Len(t)
      /\ \A i \in 1 .. Len(g) + Len(t) : (g \o t)[i] = IF i <= Len(g) THEN g[i] ELSE t[i - Len(g)]
  BY <1>1, ConcatProperties
<1>4. /\ Append(q, e) \in Seq(Nat) /\ Len(Append(q, e)) = Len(q) + 1
      /\ (\A i \in 1 .. Len(q) : Append(q, e)[i] = q[i]) /\ Append(q, e)[Len(q) + 1] = e
  BY <1>2, AppendProperties
<1>5. ASSUME NEW i \in 1 .. Len(g \o t) PROVE (g \o t)[i] = Append(q, e)[i]
  <2>1. i \in 1 .. Len(g) + Len(t) /\ i \in 1 .. Len(g) + Len(s) + 1
    BY <1>1, <1>3
  <2>2. CASE i <= Len(g)
    <3>1. i \in 1 .. Len(q) /\ i \in 1 .. Len(g) + Len(s)
      BY <1>1, <1>2, <2>1, <2>2
    <3> QED BY <1>2, <1>3, <1>4, <2>1, <2>2, <3>1
  <2>3. CASE ~(i <= Len(g)) /\ i # Len(g) + Len(s) + 1
    <3>1. i \in 1 .. Len(q) /\ i \in 1 .. Len(g) + Len(s) /\ i - Len(g) \in 1 .. Len(s)
      BY <1>1, <1>2, <2>1, <2>3
    <3> QED BY <1>1, <1>2, <1>3, <1>4, <2>1, <2>3, <3>1
  <2>4. CASE i = Len(g) + Len(s) + 1
    <3>1. i = Len(q) + 1 /\ i - Len(g) = Len(s) + 1 /\ ~(i <= Len(g))
      BY <1>1, <1>2, <2>4
    <3> QED BY <1>1, <1>3, <1>4, <2>1, <3>1
  <2> QED BY <1>1, <2>1, <2>2, <2>3, <2>4
<1>6. Len(g \o t) = Len(Append(q, e))
  BY <1>1, <1>2, <1>3, <1>4
<1>7. g \o t = Append(q, e)
  BY <1>3, <1>4, <1>5, <1>6, SeqEqual
<1> QED BY <1>2, <1>7 DEF t, q

\* A write moves the head of the queue to the end of what is in the socket.
LEMMA BothWrite ==
  ASSUME NEW g \in Seq(Nat), NEW s \in Seq(Nat), s # <<>>
  PROVE  Append(g, Head(s)) \o Tail(s) = g \o s
<1> DEFINE e == Head(s)
           t == Tail(s)
           h == Append(g, e)
<1>1. /\ e \in Nat /\ t \in Seq(Nat) /\ Len(t) = Len(s) - 1 /\ Len(s) \in Nat \ {0}
      /\ Len(g) \in Nat /\ e = s[1]
      /\ \A i \in 1 .. Len(t) : t[i] = s[i + 1]
  BY HeadIsTaken, HeadTailProperties, LenProperties
<1> HIDE DEF e, t
<1>2. /\ h \in Seq(Nat) /\ Len(h) = Len(g) + 1
      /\ (\A i \in 1 .. Len(g) : h[i] = g[i]) /\ h[Len(g) + 1] = e
  BY <1>1, AppendProperties
<1> HIDE DEF h
<1>3. /\ h \o t \in Seq(Nat) /\ Len(h \o t) = Len(h) + Len(t)
      /\ \A i \in 1 .. Len(h) + Len(t) : (h \o t)[i] = IF i <= Len(h) THEN h[i] ELSE t[i - Len(h)]
  BY <1>1, <1>2, ConcatProperties
<1>4. /\ g \o s \in Seq(Nat) /\ Len(g \o s) = Len(g) + Len(s)
      /\ \A i \in 1 .. Len(g) + Len(s) : (g \o s)[i] = IF i <= Len(g) THEN g[i] ELSE s[i - Len(g)]
  BY ConcatProperties
<1>5. Len(h \o t) = Len(g \o s)
  BY <1>1, <1>2, <1>3, <1>4
<1>6. ASSUME NEW i \in 1 .. Len(h \o t) PROVE (h \o t)[i] = (g \o s)[i]
  <2>1. i \in 1 .. Len(h) + Len(t) /\ i \in 1 .. Len(g) + Len(s)
    BY <1>1, <1>2, <1>3
  <2>2. CASE i <= Len(g)
    <3>1. i \in 1 .. Len(g) /\ i <= Len(h)
      BY <1>1, <1>2, <2>1, <2>2
    <3> QED BY <1>2, <1>3, <1>4, <2>1, <2>2, <3>1
  <2>3. CASE i = Len(g) + 1
    <3>1. i <= Len(h) /\ i - Len(g) = 1 /\ ~(i <= Len(g))
      BY <1>1, <1>2, <2>3
    <3> QED BY <1>1, <1>2, <1>3, <1>4, <2>1, <2>3, <3>1
  <2>4. CASE i > Len(g) + 1
    <3>1. /\ ~(i <= Len(h)) /\ ~(i <= Len(g))
          /\ i - Len(h) \in 1 .. Len(t) /\ (i - Len(h)) + 1 = i - Len(g)
      <4>1. \A m, n, k, j \in Nat : m = n + 1 /\ j \in 1 .. m + k /\ j > n + 1 =>
              /\ ~(j <= m) /\ ~(j <= n) /\ j - m \in 1 .. k /\ (j - m) + 1 = j - n
        OBVIOUS
      <4>2. Len(g) \in Nat /\ Len(h) \in Nat /\ Len(t) \in Nat /\ Len(h) = Len(g) + 1
        BY <1>1, <1>2
      <4>3. i \in Nat BY <2>1, <4>2
      <4> QED BY <2>1, <2>4, <4>1, <4>2, <4>3
    <3> QED BY <1>1, <1>3, <1>4, <2>1, <3>1
  <2>5. i <= Len(g) \/ i = Len(g) + 1 \/ i > Len(g) + 1
    <3>1. i \in Nat
      BY <1>1, <2>1
    <3>2. \A m, n \in Nat : m <= n \/ m = n + 1 \/ m > n + 1
      OBVIOUS
    <3> QED BY <1>1, <3>1, <3>2, Zenon
  <2> QED BY <2>2, <2>3, <2>4, <2>5
<1>7. h \o t = g \o s
  BY <1>3, <1>4, <1>5, <1>6, SeqEqual
<1> QED BY <1>7 DEF e, t, h

\* What F is told of the clients.
interests == [c \in Client |-> cl[c].types]
feeds == [c \in Client |-> Fed(c)]

LEMMA FedIs == \A c \in Client : feeds[c] = KeptOf(Both(cl[c])) /\ interests[c] = cl[c].types
BY DEF feeds, interests, Fed, KeptOf, Both

\* A step of one client changes its entries of the two functions.
LEMMA FeedMoves ==
  ASSUME AllSound, NEW c \in Client, NEW r, cl' = [cl EXCEPT ![c] = r]
  PROVE  /\ interests' = [interests EXCEPT ![c] = r.types]
         /\ feeds' = [feeds EXCEPT ![c] = KeptOf(Both(r))]
<1>1. cl'[c] = r /\ \A d \in Client : d # c => cl'[d] = cl[d]
  BY DEF AllSound
<1>2. interests' = [interests EXCEPT ![c] = r.types]
  <2>1. interests' = [d \in Client |-> cl'[d].types] /\ interests = [d \in Client |-> cl[d].types]
    BY DEF interests
  <2> QED BY <1>1, <2>1
<1>3. feeds' = [d \in Client |-> KeptOf(Both(cl'[d]))]
  BY DEF feeds, Fed, KeptOf, Both
<1>4. feeds = [d \in Client |-> KeptOf(Both(cl[d]))]
  BY DEF feeds, Fed, KeptOf, Both
<1>5. feeds' = [feeds EXCEPT ![c] = KeptOf(Both(r))]
  BY <1>1, <1>3, <1>4
<1> QED BY <1>2, <1>5

LEMMA SameEntry ==
  ASSUME NEW f, f = [d \in Client |-> f[d]], NEW c \in Client
  PROVE  [f EXCEPT ![c] = f[c]] = f
OBVIOUS

LEMMA FeedStands ==
  ASSUME AllSound, NEW c \in Client, NEW r, cl' = [cl EXCEPT ![c] = r],
         r.types = cl[c].types, KeptOf(Both(r)) = KeptOf(Both(cl[c]))
  PROVE  UNCHANGED <<interests, feeds>>
<1>1. interests' = [interests EXCEPT ![c] = interests[c]] /\ feeds' = [feeds EXCEPT ![c] = feeds[c]]
  <2>1. interests' = [interests EXCEPT ![c] = r.types] /\ feeds' = [feeds EXCEPT ![c] = KeptOf(Both(r))]
    BY FeedMoves
  <2>2. feeds[c] = KeptOf(Both(cl[c])) /\ interests[c] = cl[c].types BY FedIs
  <2>3. r.types = interests[c] /\ KeptOf(Both(r)) = feeds[c] BY <2>2, Zenon
  <2> QED BY <2>1, <2>3, Zenon
<1>2. interests = [d \in Client |-> interests[d]] /\ feeds = [d \in Client |-> feeds[d]]
  BY DEF interests, feeds
<1>3. [interests EXCEPT ![c] = interests[c]] = interests BY <1>2, SameEntry
<1>4. [feeds EXCEPT ![c] = feeds[c]] = feeds BY <1>2, SameEntry
<1> QED BY <1>1, <1>3, <1>4

\* A client's step other than Cast and Ask gives it no event and asks for none.
LEMMA OthersStutter ==
  ASSUME IInv, NEW c \in Client, ClientActs(c), ~Cast(c), ~ \E types \in Choices : Ask(c, types)
  PROVE  UNCHANGED <<log, interests, feeds>>
<1> DEFINE s == cl[c]
           G == UNCHANGED <<interests, feeds>>
<1>1. AllSound /\ s \in ClientState /\ s.got \in Seq(Nat) /\ s.send \in Seq(Nat)
      /\ RingState \in Nat /\ Waits(s)
  BY DEF IInv, AllSound, Sound, ClientState, RingState
<1>2. UNCHANGED log
  BY DEF ClientActs, StopClient, StopStep, Upgrade, Greet, StartPumps, Write, WriterLeaves,
         ReaderLeaves, Disconnect, ClientStep, busVars
<1>3. ASSUME NEW r, cl' = [cl EXCEPT ![c] = r], r.types = s.types, r.got = s.got, r.send = s.send
      PROVE  G
  <2>1. KeptOf(Both(r)) = KeptOf(Both(s))
    BY <1>3 DEF Both
  <2> QED BY <1>1, <1>3, <2>1, FeedStands
<1>4. ASSUME NEW r, cl' = [cl EXCEPT ![c] = r], r.types = s.types, KeptOf(Both(r)) = KeptOf(Both(s))
      PROVE  G
  BY <1>1, <1>4, FeedStands
<1> HIDE DEF G
<1>5. ASSUME Upgrade(c) PROVE G
  <2> DEFINE r == [NoClient EXCEPT !.up = "added", !.open = TRUE]
  <2>1. cl' = [cl EXCEPT ![c] = r] /\ s.up = "none"
    BY <1>5 DEF Upgrade, Update
  <2>2. r.types = {} /\ r.got = <<>> /\ r.send = <<>>
    BY DEF NoClient
  <2> HIDE DEF r
  <2> QED BY <1>1, <1>3, <2>1, <2>2 DEF Waits
<1>6. ASSUME Greet(c) PROVE G
  <2> DEFINE q == Append(s.send, RingState)
             r == [s EXCEPT !.up = "greeted", !.send = q]
  <2>1. cl' = [cl EXCEPT ![c] = r]
    BY <1>6 DEF Greet, Update
  <2>2. r.types = s.types /\ r.got = s.got /\ r.send = q
    <3> HIDE DEF q, s
    <3> QED BY <1>1 DEF ClientState
  <2>3. Both(s) \in Seq(Nat) /\ Both(r) = Append(Both(s), RingState)
    <3> HIDE DEF r, s
    <3>1. s.got \o Append(s.send, RingState) = Append(s.got \o s.send, RingState) /\ s.got \o s.send \in Seq(Nat)
      BY <1>1, BothAppend
    <3> QED BY <2>2, <3>1 DEF Both, q
  <2>4. KeptOf(Both(r)) = KeptOf(Both(s))
    <3> DEFINE b == Both(s)
    <3>1. b \in Seq(Nat)
      BY <2>3
    <3> HIDE DEF b
    <3>2. Len(Append(b, RingState)) = Len(b) + 1
      BY <3>1, <1>1, AppendProperties
    <3>3. KeptOf(Append(b, RingState)) = KeptOf(b)
      BY <3>1, <3>2, <1>1, KeptAppend DEF KeptOf
    <3> QED BY <3>3, <2>3 DEF b
  <2> HIDE DEF r
  <2> QED BY <1>4, <2>1, <2>2, <2>4
<1>7. ASSUME Write(c) PROVE G
  <2> DEFINE q == Tail(s.send)
             g == Append(s.got, Head(s.send))
             r == [s EXCEPT !.send = q, !.got = g]
  <2>1. cl' = [cl EXCEPT ![c] = r] /\ s.send # <<>>
    BY <1>7 DEF Write, Update
  <2>2. r.types = s.types /\ r.got = g /\ r.send = q
    <3> HIDE DEF q, g, s
    <3> QED BY <1>1 DEF ClientState
  <2>3. Both(r) = Both(s)
    <3> HIDE DEF r, s
    <3> QED BY <1>1, <2>1, <2>2, BothWrite DEF Both, q, g
  <2> HIDE DEF r
  <2> QED BY <1>4, <2>1, <2>2, <2>3
<1>8. ASSUME StopClient(c) PROVE G
  <2> DEFINE r == [s EXCEPT !.done = TRUE, !.open = FALSE]
  <2>1. cl' = [cl EXCEPT ![c] = r]
    BY <1>8 DEF StopClient, Update
  <2>2. r.types = s.types /\ r.got = s.got /\ r.send = s.send
    BY <1>1 DEF ClientState
  <2> HIDE DEF r
  <2> QED BY <1>3, <2>1, <2>2
<1>9. ASSUME StartPumps(c) PROVE G
  <2> DEFINE r == [s EXCEPT !.up = "returned", !.writer = "run", !.reader = "run"]
  <2>1. cl' = [cl EXCEPT ![c] = r]
    BY <1>9 DEF StartPumps, Update
  <2>2. r.types = s.types /\ r.got = s.got /\ r.send = s.send
    BY <1>1 DEF ClientState
  <2> HIDE DEF r
  <2> QED BY <1>3, <2>1, <2>2
<1>10. ASSUME WriterLeaves(c) PROVE G
  <2> DEFINE r == [s EXCEPT !.writer = "left", !.open = FALSE]
  <2>1. cl' = [cl EXCEPT ![c] = r]
    BY <1>10 DEF WriterLeaves, Update
  <2>2. r.types = s.types /\ r.got = s.got /\ r.send = s.send
    BY <1>1 DEF ClientState
  <2> HIDE DEF r
  <2> QED BY <1>3, <2>1, <2>2
<1>11. ASSUME ReaderLeaves(c) PROVE G
  <2> DEFINE r == [s EXCEPT !.reader = "left", !.done = TRUE]
  <2>1. cl' = [cl EXCEPT ![c] = r]
    BY <1>11 DEF ReaderLeaves, Update
  <2>2. r.types = s.types /\ r.got = s.got /\ r.send = s.send
    BY <1>1 DEF ClientState
  <2> HIDE DEF r
  <2> QED BY <1>3, <2>1, <2>2
<1>12. ASSUME Disconnect(c) PROVE G
  <2> DEFINE r == [s EXCEPT !.open = FALSE]
  <2>1. cl' = [cl EXCEPT ![c] = r]
    BY <1>12 DEF Disconnect, Update
  <2>2. r.types = s.types /\ r.got = s.got /\ r.send = s.send
    BY <1>1 DEF ClientState
  <2> HIDE DEF r
  <2> QED BY <1>3, <2>1, <2>2
<1>13. G
  BY <1>5, <1>6, <1>7, <1>8, <1>9, <1>10, <1>11, <1>12 DEF ClientActs
<1> QED BY <1>2, <1>13 DEF G

\* Cast gives the event to the client if it has room, or is a step that F does not see.
LEMMA CastGives ==
  ASSUME IInv, NEW c \in Client, Cast(c)
  PROVE  (\E i \in DOMAIN log : F!Give(c, i)) \/ UNCHANGED <<log, interests, feeds>>
<1> DEFINE s == cl[c]
<1>1. PICK e \in Nat : e = run.event
  BY DEF IInv, HubTypes
<1>2. /\ AllSound /\ s \in ClientState /\ s.got \in Seq(Nat) /\ s.send \in Seq(Nat)
      /\ log \in Seq(Type) /\ DOMAIN log = 1 .. Len(log)
  BY LenProperties DEF IInv, AllSound, Sound, ClientState, BusTypes
<1>3. UNCHANGED log /\ c \in run.to
  BY DEF Cast, busVars
<1>4. CASE TypeOf(e) \in s.types /\ Len(s.send) < SendCap
  <2> DEFINE q == Append(s.send, e)
             r == [s EXCEPT !.send = q]
  <2>1. cl' = [cl EXCEPT ![c] = r]
    BY <1>1, <1>4 DEF Cast, Update, Enqueue
  <2>2. r.types = s.types /\ r.got = s.got /\ r.send = q
    <3> HIDE DEF q, s
    <3> QED BY <1>2 DEF ClientState
  <2> DEFINE b == Both(s)
  <2>3. b \in Seq(Nat) /\ Both(r) = Append(b, e)
    <3> HIDE DEF r, s
    <3>1. s.got \o Append(s.send, e) = Append(s.got \o s.send, e) /\ s.got \o s.send \in Seq(Nat)
      BY <1>2, BothAppend
    <3> QED BY <2>2, <3>1 DEF Both, q
  <2>4. KeptOf(Both(r)) = IF e = RingState THEN KeptOf(b) ELSE Append(KeptOf(b), e)
    <3>1. b \in Seq(Nat)
      BY <2>3
    <3> HIDE DEF b
    <3>2. Len(Append(b, e)) = Len(b) + 1
      BY <3>1, AppendProperties
    <3>3. KeptOf(Append(b, e)) = IF e = RingState THEN KeptOf(b) ELSE Append(KeptOf(b), e)
      BY <3>1, <3>2, KeptAppend DEF KeptOf
    <3> QED BY <3>3, <2>3
  <2>5. CASE e = RingState
    <3>1. KeptOf(Both(r)) = KeptOf(Both(s))
      BY <2>4, <2>5
    <3> HIDE DEF r
    <3> QED BY <1>2, <1>3, <2>1, <2>2, <3>1, FeedStands
  <2>6. CASE e # RingState
    <3>7. interests' = [interests EXCEPT ![c] = r.types] /\ feeds' = [feeds EXCEPT ![c] = KeptOf(Both(r))]
      <4> HIDE DEF r
      <4> QED BY <1>2, <2>1, FeedMoves
    <3>1. interests' = interests
      <4> HIDE DEF r
      <4>1. interests' = [interests EXCEPT ![c] = interests[c]]
        BY <2>2, <3>7, FedIs
      <4> QED BY <4>1 DEF interests
    <3>2. feeds' = [feeds EXCEPT ![c] = Append(feeds[c], e)]
      <4>1. KeptOf(Both(r)) = Append(feeds[c], e)
        BY <2>4, <2>6, FedIs
      <4> HIDE DEF r
      <4> QED BY <3>7, <4>1
    <3>3. e \in DOMAIN log
      BY <1>1, <1>2, <2>6 DEF IInv, Ordered, RunOrdered, Ahead, RingState, NoEvent
    <3>4. log[e] \in interests[c]
      BY <1>4, <2>6, FedIs DEF TypeOf
    <3>5. \A k \in DOMAIN feeds[c] : feeds[c][k] < e
      <4>1. b \in Seq(Nat) /\ feeds[c] = busEvents(b)[Len(b)]
        BY <2>3, FedIs DEF KeptOf
      <4>2. \A x \in GivenOf(s) : x # RingState => x < e
        BY <1>1, <1>3, <2>6 DEF IInv, Ordered, ClientsOrdered, GivenOf, RingState, NoEvent
      <4>3. \A j \in 1 .. Len(b) : b[j] \in GivenOf(s)
        <5> DEFINE g == s.got
                   t == s.send
        <5>1. g \in Seq(Nat) /\ t \in Seq(Nat) /\ b = g \o t /\ GivenOf(s) = Range(g) \cup Range(t)
          BY <1>2 DEF Both, GivenOf
        <5> HIDE DEF g, t, b
        <5>2. /\ Len(g) \in Nat /\ Len(t) \in Nat /\ DOMAIN g = 1 .. Len(g) /\ DOMAIN t = 1 .. Len(t)
              /\ Len(b) = Len(g) + Len(t)
              /\ \A j \in 1 .. Len(g) + Len(t) : b[j] = IF j <= Len(g) THEN g[j] ELSE t[j - Len(g)]
          BY <5>1, LenProperties, ConcatProperties
        <5>3. ASSUME NEW j \in 1 .. Len(b) PROVE b[j] \in Range(g) \cup Range(t)
          <6>1. j \in Nat /\ j \in 1 .. Len(g) + Len(t)
            BY <5>2
          <6>2. CASE j <= Len(g)
            <7>1. j \in 1 .. Len(g)
              BY <5>2, <6>1, <6>2
            <7> QED BY <5>2, <6>1, <6>2, <7>1 DEF Range
          <6>3. CASE ~(j <= Len(g))
            <7>1. j - Len(g) \in 1 .. Len(t)
              BY <5>2, <6>1, <6>3
            <7> QED BY <5>2, <6>1, <6>3, <7>1 DEF Range
          <6> QED BY <6>2, <6>3
        <5> QED BY <5>1, <5>3
      <4> HIDE DEF b, s
      <4>4. /\ feeds[c] \in Seq(Nat)
            /\ \A k \in 1 .. Len(feeds[c]) : \E j \in 1 .. Len(b) : feeds[c][k] = b[j] /\ b[j] # RingState
        <5> DEFINE k == busEvents(b)[Len(b)]
        <5>1. /\ k \in Seq(Nat)
              /\ \A i \in 1 .. Len(k) : \E j \in 1 .. Len(b) : k[i] = b[j] /\ b[j] # RingState
          BY <4>1, KeptMembers
        <5> HIDE DEF k
        <5>2. feeds[c] = k
          BY <4>1 DEF k
        <5> QED BY <5>1, <5>2
      <4>5. DOMAIN feeds[c] = 1 .. Len(feeds[c])
        BY <4>4, LenProperties
      <4> QED BY <4>2, <4>3, <4>4, <4>5
    <3>6. F!Give(c, e)
      BY <1>3, <3>1, <3>2, <3>4, <3>5 DEF F!Give, interests, feeds
    <3> QED BY <3>3, <3>6
  <2> QED BY <2>5, <2>6
<1>5. CASE ~(TypeOf(e) \in s.types /\ Len(s.send) < SendCap)
  <2>1. cl' = [cl EXCEPT ![c] = s] \/ cl' = [cl EXCEPT ![c] = [s EXCEPT !.send = s.send]]
    BY <1>1, <1>5 DEF Cast, Update, Enqueue
  <2>2. [s EXCEPT !.send = s.send] = s
    <3> HIDE DEF s
    <3> QED BY <1>2 DEF ClientState
  <2>3. cl' = [cl EXCEPT ![c] = s]
    BY <2>1, <2>2
  <2> QED BY <1>2, <1>3, <2>3, FeedStands
<1> QED BY <1>4, <1>5

LEMMA FeedStep == IInv /\ [Next]_vars => [F!Next]_<<log, interests, feeds>>
<1> SUFFICES ASSUME IInv, [Next]_vars PROVE F!Next \/ UNCHANGED <<log, interests, feeds>>
  OBVIOUS
<1> DEFINE G == F!Next \/ UNCHANGED <<log, interests, feeds>>
<1>1. UNCHANGED cl => UNCHANGED <<interests, feeds>>
  BY DEF interests, feeds, Fed
<1>2. ASSUME NEW t \in Type, Publish(t), UNCHANGED hubVars PROVE G
  <2>1. CASE Len(queue) < QueueCap
    <3>1. F!Publish(t)
      BY <1>1, <1>2, <2>1 DEF Publish, hubVars, F!Publish, interests, feeds
    <3> QED BY <3>1 DEF F!Next
  <2>2. CASE ~(Len(queue) < QueueCap)
    BY <1>1, <1>2, <2>2 DEF Publish, hubVars
  <2> QED BY <2>1, <2>2
<1>3. ASSUME UNCHANGED <<log, cl>> PROVE G
  BY <1>1, <1>3
<1>4. ASSUME NEW c \in Client, ClientActs(c) PROVE G
  <2>1. CASE Cast(c)
    BY <2>1, CastGives DEF F!Next
  <2>2. ASSUME NEW types \in Choices, Ask(c, types) PROVE G
    <3> DEFINE s == cl[c]
               r == [s EXCEPT !.types = types]
    <3>1. cl' = [cl EXCEPT ![c] = r] /\ UNCHANGED log
      BY <2>2 DEF Ask, Update, ClientStep, busVars
    <3>2. AllSound /\ s \in ClientState
      BY DEF IInv, AllSound, Sound
    <3>3. r.types = types /\ r.got = s.got /\ r.send = s.send
      <4> HIDE DEF s
      <4> QED BY <3>2 DEF ClientState
    <3> HIDE DEF r
    <3>4. interests' = [interests EXCEPT ![c] = types] /\ feeds' = [feeds EXCEPT ![c] = KeptOf(Both(r))]
      BY <3>1, <3>2, <3>3, FeedMoves
    <3>5. KeptOf(Both(r)) = feeds[c]
      BY <3>3, FedIs DEF Both
    <3>6. feeds' = feeds
      BY <3>4, <3>5 DEF feeds
    <3>7. types \in SUBSET Type
      BY HubAssumption
    <3>8. F!Ask(c, types)
      BY <3>1, <3>4, <3>6 DEF F!Ask, interests, feeds
    <3> QED BY <3>7, <3>8 DEF F!Next
  <2>3. CASE ~Cast(c) /\ ~ \E types \in Choices : Ask(c, types)
    BY <1>4, <2>3, OthersStutter
  <2> QED BY <2>1, <2>2, <2>3
<1> HIDE DEF G
<1>5. \/ (\E t \in Type : Publish(t)) /\ UNCHANGED hubVars
      \/ \E c \in Client : ClientActs(c)
      \/ UNCHANGED <<log, cl>>
  BY BusSteps, ClientSteps
     DEF Take, Send, RunSubscribes, Subscribe, RunEvent, RunStopped, Unsubscribe, RunCloses,
         CloseChan, busVars, hubVars
<1>6. G
  BY <1>2, <1>3, <1>4, <1>5
<1> QED BY <1>6 DEF G

LEMMA FeedInit == Init => F!Init
<1> SUFFICES ASSUME Init PROVE F!Init
  OBVIOUS
<1>1. log = <<>> /\ cl = [c \in Client |-> NoClient]
  BY DEF Init, BusInit
<1>2. interests = [c \in Client |-> {}]
  BY <1>1 DEF interests, NoClient
<1>3. feeds = [c \in Client |-> <<>>]
  <2>1. <<>> \in Seq(Nat) /\ Len(<<>>) = 0
    BY EmptySeq
  <2>2. Both(NoClient) = <<>>
    <3>1. NoClient.got = <<>> /\ NoClient.send = <<>>
      BY DEF NoClient
    <3> QED BY <2>1, <3>1, ConcatEmptySeq DEF Both
  <2>3. busEvents(<<>>)[0] = <<>>
    <3>1. IsKept(<<>>, 0, busEvents(<<>>))
      BY <2>1, KeptIs
    <3> QED BY <3>1 DEF IsKept
  <2>4. KeptOf(Both(NoClient)) = <<>>
    BY <2>1, <2>2, <2>3 DEF KeptOf
  <2> QED BY <1>1, <2>4, FedIs DEF feeds
<1> QED BY <1>1, <1>2, <1>3 DEF F!Init, interests, feeds

\* Through the four queues from Publish to the socket (bus.go:38, 89, websocket.go:116,
\* 208), a client is given events of types it asked for, each at most once and in the
\* order of publication: the hub implements the feed.
THEOREM FeedImplemented == Spec => ImplementsFeed
<1>1. F!Init /\ [][F!Next]_<<log, interests, feeds>> => ImplementsFeed
  BY DEF ImplementsFeed, F!Spec, interests, feeds
<1> QED BY <1>1, FeedInit, FeedStep, Invariance, PTL DEF Spec
=============================================================================

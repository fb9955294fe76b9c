------------------------------ MODULE MCChord -------------------------------
(***************************************************************************)
(* Instances of Chord for TLC.  Besides the ring that grows from its first *)
(* node (Chord!Init) this module starts rings in the state stabilization   *)
(* and fix-fingers leave them in, so that failures can be explored without *)
(* the joins that led there; run chord_leave checks that the loops of      *)
(* runStabilize and of both failure detectors do not change this state.    *)
(***************************************************************************)
EXTENDS Chord

CONSTANTS
  Late,                           \* the nodes still to be spawned
  Holders                         \* those that hold every key already

Settled == Nodes \ Late

ASSUME StableAssumption == Late \subseteq Nodes \ {First} /\ Holders \subseteq Settled

\* Position on the line that begins at First.  First is its own successor, so
\* the members form a chain that ends at First rather than a cycle.
Pos(n) == Dist(First, n)

\* The last node of the chain.
Last == CHOOSE n \in Settled : \A m \in Settled : Pos(m) <= Pos(n)

\* First node at or after id, clockwise.
Owner(id) == CHOOSE n \in Settled : \A m \in Settled : Dist(id, n) <= Dist(id, m)

\* What FindSuccessor(id) answers at n: a lookup that reaches First ends there.
Answer(n, id) ==
  IF n = First \/ IsInInterval(First, n, id) THEN First ELSE Owner(id)

StableSucc(n) == IF n = First THEN First ELSE Owner((n + 1) % Size)
StablePred(n) ==
  IF n = First THEN IF Last = First THEN Nil ELSE Last
  ELSE LET Before == {m \in Settled \ {First} : Pos(m) < Pos(n)}
       IN  IF Before = {} THEN Nil
           ELSE CHOOSE m \in Before : \A k \in Before : Pos(k) <= Pos(m)

\* The nodes after n on the chain, nearest first, up to SuccessorListSize.
StableList(n) ==
  LET Rank(m) == IF m = First THEN Size ELSE Pos(m)
      After == IF n = First THEN {} ELSE {m \in Settled : Rank(m) > Pos(n)}
      Nearest(k) == CHOOSE m \in After :
                      Cardinality({j \in After : Rank(j) < Rank(m)}) = k - 1
      len == Cardinality(After)
  IN  [k \in 1 .. (IF len < SuccessorListSize THEN len ELSE SuccessorListSize) |-> Nearest(k)]

StableAnti(n, i) ==
  LET a == Answer(n, antiFingerStart(n, i))
  IN  IF StablePred(a) = Nil THEN a ELSE StablePred(a)

\* A late node is as NewChordNode makes it.
StableInit ==
  /\ life = [n \in Nodes |-> IF n \in Late THEN "off" ELSE "member"]
  /\ boot = [n \in Nodes |-> IF n \in Late \cup {First} THEN Nil ELSE First]
  /\ succ = [n \in Nodes |-> IF n \in Late THEN n ELSE StableSucc(n)]
  /\ pred = [n \in Nodes |-> IF n \in Late THEN Nil ELSE StablePred(n)]
  /\ finger = [n \in Nodes |-> [i \in Index |->
                 IF n \in Late THEN Nil ELSE Answer(n, fingerStart(n, i))]]
  /\ anti = [n \in Nodes |-> [i \in Index |-> IF n \in Late THEN Nil ELSE StableAnti(n, i)]]
  /\ fingerIdx = [n \in Nodes |-> 1]
  /\ antiIdx = [n \in Nodes |-> 0]
  /\ succList = [n \in Nodes |-> IF n \in Late THEN <<>> ELSE StableList(n)]
  /\ store = [n \in Nodes |-> IF n \in Holders THEN Keys ELSE {}]
  /\ ticks = [n \in Nodes |-> 0]
  /\ losses \in {0, MaxLosses}
  /\ th = [t \in Threads |-> Idle]
  /\ lst = [t \in Threads |-> <<>>]
  /\ puts = {} /\ late = {}

StableSpec == StableInit /\ [][Next]_vars
StableFairSpec == StableSpec /\ Fairness

\* Either nodes crash or RPCs are lost, not both, and which of the two is settled at
\* the start: behaviours in which nodes may crash begin with every loss used up, and
\* the others never use the last one up.  A survivor that takes the next node of its
\* list for dead as well may be left with nobody on it.
OneKindOfFault ==
  /\ life' # life => losses = MaxLosses
  /\ losses' # losses => losses' < MaxLosses

\* As long as every node stays, the loops of runStabilize, runCheckPredecessor
\* and runCheckSuccessor, however those of one node and of its neighbours
\* interleave, leave the ring as it is: nobody's neighbours or successor list
\* oscillate, and a table is touched by the node's own fix-fingers only.
StableIsFixpoint ==
  [][(\A n \in Nodes : life[n] = "member" /\ life'[n] = "member") =>
       /\ UNCHANGED <<succ, pred, succList>>
       /\ \A n \in Nodes : /\ finger'[n] # finger[n] => th[Main(n)].pc = "fixFinger"
                           /\ anti'[n] # anti[n] => th[Main(n)].pc = "antiStore"]_vars

\* A settled node keeps its successor, except that a joiner may come between the
\* two, whatever tables UpdateFingerTable reaches and however it interleaves with
\* stabilization.
SuccsKept ==
  \A n \in Settled :
    succ[n] # StableSucc(n) => succ[n] \in Late /\ IsInInterval(succ[n], n, StableSucc(n))

\* It keeps its predecessor, unless a joiner has come between it and all the others.
PredsKept ==
  \A n \in Settled :
    pred[n] # StablePred(n) =>
      pred[n] \in Late /\ \A m \in Settled : ~IsInInterval(m, pred[n], n)

\* A join disturbs nobody else's neighbours.
JoinKeepsOrder == SuccsKept /\ PredsKept

=============================================================================

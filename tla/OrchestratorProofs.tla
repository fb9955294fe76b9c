------------------------- MODULE OrchestratorProofs -------------------------
(***************************************************************************)
(* Proofs about Orchestrator, for any number of requests under way, any    *)
(* requests and any number of addresses.                                   *)
(*                                                                         *)
(* IInv, what the maps and a request at each of its points have in common, *)
(* holds always (TypeCorrect, ListedNodesRun).  On top of it Tale: as long *)
(* as no two requests have one address, the maps, the registry and the     *)
(* running nodes agree (OneStory); that the counter gives no address twice *)
(* is part of it.  On top of both Net: the nodes are of one protocol and   *)
(* one network (NetworkIsOne).                                             *)
(***************************************************************************)
EXTENDS Orchestrator, SequenceTheorems, FiniteSetTheorems, WellFoundedInduction, TLAPS

-----------------------------------------------------------------------------
(* The inductive invariant: types, what a request holds at each of its       *)
(* points, and what the maps say of the nodes.                               *)

Ops == {"idle", "spawn", "spawnAt", "remove", "reset", "start", "config", "bootstrap",
        "benchmark", "churn"}
Pcs == {"idle", "next", "reset", "config", "remove", "deregister", "stop", "addr", "check", "make",
        "bootstrap", "join", "publish"}
HasAddr == {"check", "make", "bootstrap", "join", "publish", "remove", "deregister", "stop"}
HasNode == {"bootstrap", "join", "publish"}
Stops == {"deregister", "stop"}

Thread == [op : Ops, pc : Pcs, addr : Port \cup {None}, protocol : Protocol, node : Nat,
           first : BOOLEAN, boot : Nat, kills : SUBSET Port, fill : Nat, left : Nat,
           rounds : Nat, strict : BOOLEAN]
Made == [addr : Port, protocol : Protocol, state : {"new", "runs", "stopped"}, network : Nat,
         given : BOOLEAN]

Rest ==
  /\ nodeAddrs \in Seq(Port)
  /\ portCounter \in 1 .. MaxPort + 1 /\ protocol \in Protocol
  /\ doubled \in BOOLEAN /\ crossed \in BOOLEAN /\ firsts \in BOOLEAN

Types ==
  /\ made \in Seq(Made)
  /\ nodes \in [Port -> 0 .. Len(made)] /\ registry \in [Port -> 0 .. Len(made)]
  /\ typed \in [Protocol -> [Port -> 0 .. Len(made)]]
  /\ th \in [Client -> Thread]
  /\ Rest

\* A node being spawned is new, so nobody lists it; one being removed is in no map.
ThreadOK(s, m, t) ==
  /\ s.pc = "idle" <=> s.op = "idle"
  /\ s.pc \in {"reset", "config"} => Switches(s)
  /\ s.pc \in HasAddr => s.addr \in Port
  /\ s.pc = "addr" /\ s.op # "spawnAt" => s.addr = None
  /\ s.pc = "join" => s.boot \in 1 .. Len(m)
  /\ s.pc \in HasNode \cup Stops => s.node \in 1 .. Len(m) /\ m[s.node].addr = s.addr
  /\ s.pc \in HasNode => m[s.node].state = "new" /\ (m[s.node].given <=> s.op = "spawnAt")
  /\ s.pc \in Stops => m[s.node].state # "new" /\ \A p \in Protocol : t[p][s.addr] # s.node

Threads == \A c \in Client : ThreadOK(th[c], made, typed)

\* No two requests are spawning the same node.
Hands ==
  \A c, d \in Client : th[c].pc \in HasNode /\ th[d].pc \in HasNode /\ c # d => th[c].node # th[d].node

Lists(p, a) == typed[p][a] # None

Maps ==
  /\ \A a \in Port : nodes[a] # None =>
       made[nodes[a]].addr = a /\ typed[made[nodes[a]].protocol][a] = nodes[a]
  /\ \A p \in Protocol, a \in Port : Lists(p, a) =>
       /\ made[typed[p][a]].addr = a /\ made[typed[p][a]].protocol = p
       /\ made[typed[p][a]].state = "runs" /\ nodes[a] # None

IInv == Types /\ Threads /\ Hands /\ Maps

-----------------------------------------------------------------------------
(* Changes of the table of nodes and of a request.                           *)

\* What never changes of a node.
Keeps(m, n) ==
  /\ Len(m) <= Len(n)
  /\ \A i \in 1 .. Len(m) :
       n[i].addr = m[i].addr /\ n[i].protocol = m[i].protocol /\ (n[i].given <=> m[i].given)

WithNetwork(m, i, x) == [m EXCEPT ![i].network = x]
WithState(m, i, x) == [m EXCEPT ![i].state = x]

LEMMA SetNetwork ==
  ASSUME NEW m \in Seq(Made), NEW i \in 1 .. Len(m), NEW x \in Nat
  PROVE  LET n == WithNetwork(m, i, x) IN
         /\ n \in Seq(Made) /\ Len(n) = Len(m) /\ Keeps(m, n)
         /\ \A j \in 1 .. Len(m) : n[j].state = m[j].state
         /\ \A j \in 1 .. Len(m) : n[j].network = IF j = i THEN x ELSE m[j].network
<1> DEFINE e == [m[i] EXCEPT !.network = x]
           n == WithNetwork(m, i, x)
<1>1. m[i] \in Made BY ElementOfSeq
<1>2. e \in Made /\ e.network = x /\ e.addr = m[i].addr /\ e.protocol = m[i].protocol
      /\ e.state = m[i].state /\ e.given = m[i].given
  BY <1>1 DEF Made
<1>3. n = [m EXCEPT ![i] = e] BY DEF WithNetwork, WithState
<1>4. Len(m) \in Nat BY LenProperties
<1> HIDE DEF e
<1>5. /\ n \in Seq(Made) /\ Len(n) = Len(m)
      /\ \A j \in 1 .. Len(m) : n[j] = IF j = i THEN e ELSE m[j]
  BY <1>2, <1>3, ExceptSeq
<1> QED BY <1>2, <1>4, <1>5 DEF Keeps

LEMMA SetState ==
  ASSUME NEW m \in Seq(Made), NEW i \in 1 .. Len(m), NEW x \in {"new", "runs", "stopped"}
  PROVE  LET n == WithState(m, i, x) IN
         /\ n \in Seq(Made) /\ Len(n) = Len(m) /\ Keeps(m, n)
         /\ \A j \in 1 .. Len(m) : n[j].network = m[j].network
         /\ \A j \in 1 .. Len(m) : n[j].state = IF j = i THEN x ELSE m[j].state
<1> DEFINE e == [m[i] EXCEPT !.state = x]
           n == WithState(m, i, x)
<1>1. m[i] \in Made BY ElementOfSeq
<1>2. e \in Made /\ e.network = m[i].network /\ e.addr = m[i].addr /\ e.protocol = m[i].protocol
      /\ e.state = x /\ e.given = m[i].given
  BY <1>1 DEF Made
<1>3. n = [m EXCEPT ![i] = e] BY DEF WithNetwork, WithState
<1>4. Len(m) \in Nat BY LenProperties
<1> HIDE DEF e
<1>5. /\ n \in Seq(Made) /\ Len(n) = Len(m)
      /\ \A j \in 1 .. Len(m) : n[j] = IF j = i THEN e ELSE m[j]
  BY <1>2, <1>3, ExceptSeq
<1> QED BY <1>2, <1>4, <1>5 DEF Keeps

LEMMA AddNode ==
  ASSUME NEW m \in Seq(Made), NEW e \in Made
  PROVE  /\ Append(m, e) \in Seq(Made) /\ Len(Append(m, e)) = Len(m) + 1 /\ Keeps(m, Append(m, e))
         /\ \A j \in 1 .. Len(m) : Append(m, e)[j] = m[j]
         /\ Append(m, e)[Len(m) + 1] = e
<1> DEFINE n == Append(m, e)
<1>1. Len(m) \in Nat BY LenProperties
<1>2. /\ n \in Seq(Made) /\ Len(n) = Len(m) + 1
      /\ \A j \in 1 .. Len(m) : n[j] = m[j]
      /\ n[Len(m) + 1] = e
  BY AppendProperties
<1> QED BY <1>1, <1>2 DEF Keeps

LEMMA GoesTo ==
  ASSUME th \in [Client -> Thread], NEW c \in Client, NEW s \in Thread, Goto(c, s)
  PROVE  /\ th' \in [Client -> Thread] /\ th'[c] = s
         /\ \A d \in Client : d # c => th'[d] = th[d]
  BY DEF Goto

LEMMA IdleOK ==
  ASSUME OrchestratorAssumption, NEW m, NEW t
  PROVE  Idle \in Thread /\ ThreadOK(Idle, m, t)
<1>1. Idle \in Thread BY DEF Idle, Thread, Ops, Pcs, OrchestratorAssumption, None
<1>2. Idle.pc = "idle" /\ Idle.op = "idle" BY DEF Idle
<1> QED BY <1>1, <1>2 DEF ThreadOK, HasAddr, HasNode, Stops

\* The end of one thing, and of the request if it failed.
LEMMA DoneOK ==
  ASSUME OrchestratorAssumption, Types, NEW c \in Client, th[c].op # "idle", NEW m, NEW t
  PROVE  /\ Done(c) \in Thread /\ ThreadOK(Done(c), m, t) /\ Done(c).pc = "next"
         /\ Done(c).op = th[c].op
         /\ Failed(c) \in Thread /\ ThreadOK(Failed(c), m, t) /\ Failed(c).pc \in {"idle", "next"}
         /\ Failed(c).pc = "next" => Failed(c).op = th[c].op
<1> DEFINE s == th[c]
<1>1. s \in Thread BY DEF Types
<1>2. Done(c) = [s EXCEPT !.pc = "next", !.addr = None, !.node = None, !.boot = None, !.first = FALSE]
  BY DEF Done
<1>3. s.op # "idle" OBVIOUS
<1> HIDE DEF s
<1>a. Done(c) = [op |-> s.op, pc |-> "next", addr |-> None, protocol |-> s.protocol, node |-> None,
                 first |-> FALSE, boot |-> None, kills |-> s.kills, fill |-> s.fill, left |-> s.left,
                 rounds |-> s.rounds, strict |-> s.strict]
  BY <1>1, <1>2 DEF Thread
<1>4. Done(c) \in Thread /\ Done(c).pc = "next" /\ Done(c).op = s.op
  BY <1>1, <1>a DEF Thread, Pcs, None
<1>5. ThreadOK(Done(c), m, t)
  BY <1>3, <1>4 DEF ThreadOK, HasAddr, HasNode, Stops
<1>6. Idle.pc = "idle" BY DEF Idle
<1> QED BY <1>4, <1>5, <1>6, IdleOK DEF Failed, s

\* A thread that does not move.
LEMMA ThreadKept ==
  ASSUME NEW m \in Seq(Made), NEW n \in Seq(Made), NEW t, NEW u, NEW s, ThreadOK(s, m, t), Keeps(m, n),
         s.pc \in HasNode => n[s.node].state = "new",
         s.pc \in Stops => n[s.node].state # "new" /\ \A p \in Protocol : u[p][s.addr] # s.node
  PROVE  ThreadOK(s, n, u)
<1>1. Len(m) \in Nat /\ Len(n) \in Nat BY LenProperties
<1>2. \A i \in 1 .. Len(m) : i \in 1 .. Len(n) BY <1>1 DEF Keeps
<1> QED BY <1>2 DEF ThreadOK, Keeps

LEMMA ThreadsStep ==
  ASSUME Types, Threads, NEW c \in Client, NEW s \in Thread, Goto(c, s),
         made' \in Seq(Made), Keeps(made, made'), ThreadOK(s, made', typed'),
         \A d \in Client \ {c} : th[d].pc \in HasNode => made'[th[d].node].state = "new",
         \A d \in Client \ {c} : th[d].pc \in Stops =>
           made'[th[d].node].state # "new" /\ \A p \in Protocol : typed'[p][th[d].addr] # th[d].node
  PROVE  Threads'
<1>1. th'[c] = s /\ \A d \in Client : d # c => th'[d] = th[d] BY GoesTo DEF Types
<1> SUFFICES ASSUME NEW d \in Client, d # c PROVE ThreadOK(th[d], made', typed')
  BY <1>1 DEF Threads
<1>2. made \in Seq(Made) /\ ThreadOK(th[d], made, typed) BY DEF Types, Threads
<1> QED BY <1>2, ThreadKept

LEMMA MapsKept ==
  ASSUME Types, Maps, Keeps(made, made'), nodes' = nodes, typed' = typed,
         \A i \in 1 .. Len(made) : made[i].state = "runs" => made'[i].state = "runs"
  PROVE  Maps'
<1>1. Len(made) \in Nat BY LenProperties DEF Types
<1>2. \A a \in Port : nodes[a] # None => nodes[a] \in 1 .. Len(made)
  BY <1>1 DEF Types, None
<1>3. \A p \in Protocol, a \in Port : Lists(p, a) => typed[p][a] \in 1 .. Len(made)
  BY <1>1 DEF Types, None, Lists
<1> QED BY <1>2, <1>3 DEF Maps, Keeps, Lists

\* A step that leaves the nodes and the maps alone, and takes no node in hand.
LEMMA QuietStep ==
  ASSUME IInv, NEW c \in Client, NEW s \in Thread, Goto(c, s), ThreadOK(s, made, typed),
         s.pc \in HasNode => th[c].pc \in HasNode /\ s.node = th[c].node,
         UNCHANGED <<made, nodes, typed>>,
         registry' \in [Port -> 0 .. Len(made)], Rest'
  PROVE  IInv'
<1>1. th' \in [Client -> Thread] /\ th'[c] = s /\ \A d \in Client : d # c => th'[d] = th[d]
  BY GoesTo DEF IInv, Types
<1>2. Types' BY <1>1 DEF IInv, Types
<1>3. Threads' BY <1>1 DEF IInv, Threads
<1>4. Hands' BY <1>1 DEF IInv, Hands
<1>5. Maps' BY DEF IInv, Maps, Lists
<1> QED BY <1>2, <1>3, <1>4, <1>5 DEF IInv

-----------------------------------------------------------------------------
(* The steps.                                                                *)

LEMMA InitIInv == ASSUME OrchestratorAssumption, Init PROVE IInv
<1>1. Len(made) = 0 /\ made \in Seq(Made) BY EmptySeq DEF Init
<1>2. th = [c \in Client |-> Idle] BY DEF Init
<1>r. Rest
  <2>1. nodeAddrs \in Seq(Port) BY EmptySeq DEF Init
  <2>2. portCounter \in 1 .. MaxPort + 1 BY DEF Init, FirstPort, OrchestratorAssumption
  <2> QED BY <2>1, <2>2 DEF Init, Rest, OrchestratorAssumption
<1>t. th \in [Client -> Thread] BY <1>2, IdleOK
<1>m. NoNodes \in [Port -> 0 .. Len(made)] BY <1>1 DEF NoNodes, None
<1>3. Types BY <1>1, <1>r, <1>t, <1>m DEF Init, Types
<1>4. Threads BY <1>2, IdleOK DEF Threads
<1>5. Idle.pc = "idle" BY DEF Idle
<1>6. Hands BY <1>2, <1>5 DEF Hands, HasNode
<1>7. Maps BY DEF Init, Maps, Lists, NoNodes
<1> QED BY <1>3, <1>4, <1>6, <1>7 DEF IInv

\* What a request is when it comes in.
LEMMA FreshOK ==
  ASSUME OrchestratorAssumption, Types, NEW r \in Requests, r.op \in Ops
  PROVE  /\ Fresh(r) = [op |-> r.op, pc |-> "next", addr |-> r.addr, protocol |-> Wanted(r),
                        node |-> None, first |-> FALSE, boot |-> None, kills |-> {}, fill |-> 0,
                        left |-> 0, rounds |-> 0, strict |-> TRUE]
         /\ Fresh(r) \in Thread
         /\ r.addr \in Port \cup {None} /\ r.count \in Nat
<1>a. PICK i \in Thread : i = Idle BY IdleOK
<1>b. /\ i.node = None /\ i.first = FALSE /\ i.boot = None /\ i.kills = {} /\ i.fill = 0
      /\ i.left = 0 /\ i.rounds = 0 /\ i.strict = TRUE
  BY <1>a DEF Idle
<1>c. Fresh(r) = [i EXCEPT !.op = r.op, !.pc = "next", !.addr = r.addr, !.protocol = Wanted(r)]
  BY <1>a DEF Fresh
<1>1. Fresh(r) = [op |-> r.op, pc |-> "next", addr |-> r.addr, protocol |-> Wanted(r),
                        node |-> None, first |-> FALSE, boot |-> None, kills |-> {}, fill |-> 0,
                        left |-> 0, rounds |-> 0, strict |-> TRUE]
  BY <1>b, <1>c DEF Thread
<1>2. Wanted(r) \in Protocol BY DEF Wanted, Types, Rest
<1>3. r.addr \in Port \cup {None} /\ r.count \in Nat BY DEF OrchestratorAssumption
<1>4. Fresh(r) \in Thread BY <1>1, <1>2, <1>3 DEF Thread, Pcs, None
<1> QED BY <1>1, <1>3, <1>4

LEMMA CountFacts ==
  ASSUME OrchestratorAssumption
  PROVE  NodeCount \in Nat /\ Mapped \subseteq Port /\ IsFiniteSet(Mapped) /\ (NodeCount = 0 <=> Mapped = {})
<1>1. IsFiniteSet(Port) BY FS_Interval DEF Port, OrchestratorAssumption
<1>2. Mapped \subseteq Port BY DEF Mapped
<1>3. IsFiniteSet(Mapped) BY <1>1, <1>2, FS_Subset
<1> QED BY <1>2, <1>3, FS_CardinalityType, FS_EmptySet DEF NodeCount

\* What a request starts with.
Begins(s) ==
  /\ s.op # "idle" /\ s.pc \in {"next", "reset", "config"}
  /\ s.pc \in {"reset", "config"} => Switches(s)
  /\ s.pc = "config" => s.protocol = protocol \/ Mapped = {}

LEMMA Comes ==
  ASSUME OrchestratorAssumption, Types, NEW c \in Client, NEW r \in Requests,
         \/ spawnNode(c, r) \/ removeNode(c, r) \/ resetNetwork(c, r) \/ startNetwork(c, r)
         \/ updateConfig(c, r)
         \/ ScenarioBootstrap(c, r) \/ ScenarioBenchmark(c, r) \/ ScenarioChurn(c, r)
  PROVE  \E s \in Thread : Begins(s) /\ Accept(c, r, s)
<1>0. r.op \in Ops \ {"idle"}
  BY DEF Ops, spawnNode, removeNode, resetNetwork, startNetwork, updateConfig, ScenarioBootstrap,
         ScenarioBenchmark, ScenarioChurn
<1>1. PICK f \in Thread : f = Fresh(r) BY <1>0, FreshOK
<1>2. /\ f.op = r.op /\ f.pc = "next" /\ f.protocol = Wanted(r)
      /\ r.addr \in Port \cup {None} /\ r.count \in Nat
  BY <1>0, <1>1, FreshOK
<1>3. Mapped \subseteq Port /\ NodeCount \in Nat /\ (NodeCount = 0 <=> Mapped = {}) BY CountFacts
<1>4. CASE spawnNode(c, r)
  <2>1. Accept(c, r, [f EXCEPT !.left = 1]) BY <1>1, <1>4 DEF spawnNode
  <2>2. [f EXCEPT !.left = 1] \in Thread BY DEF Thread
  <2>3. Begins([f EXCEPT !.left = 1]) BY <1>0, <1>2 DEF Begins, Thread
  <2> QED BY <2>1, <2>2, <2>3
<1>5. CASE removeNode(c, r)
  <2>1. Accept(c, r, [f EXCEPT !.kills = {r.addr}]) /\ r.addr \in Port
    BY <1>1, <1>3, <1>5 DEF removeNode
  <2>2. [f EXCEPT !.kills = {r.addr}] \in Thread BY <2>1 DEF Thread
  <2>3. Begins([f EXCEPT !.kills = {r.addr}]) BY <1>0, <1>2 DEF Begins, Thread
  <2> QED BY <2>1, <2>2, <2>3
<1>6. CASE resetNetwork(c, r)
  <2>1. Accept(c, r, [f EXCEPT !.pc = "reset"]) /\ f.op = "reset" BY <1>1, <1>2, <1>6 DEF resetNetwork
  <2>2. [f EXCEPT !.pc = "reset"] \in Thread BY DEF Thread, Pcs
  <2>3. Begins([f EXCEPT !.pc = "reset"]) BY <2>1 DEF Begins, Thread, Switches
  <2> QED BY <2>1, <2>2, <2>3
<1>7. CASE startNetwork(c, r)
  <2>1. PICK p : p = IF NodeCount > 0 THEN "reset" ELSE "config" OBVIOUS
  <2>2. Accept(c, r, [f EXCEPT !.pc = p, !.left = r.count]) /\ f.op = "start"
    BY <1>1, <1>2, <1>7, <2>1 DEF startNetwork
  <2>3. p \in {"reset", "config"} /\ (p = "config" => Mapped = {}) BY <1>3, <2>1
  <2>4. [f EXCEPT !.pc = p, !.left = r.count] \in Thread BY <1>2, <2>3 DEF Thread, Pcs
  <2>5. Begins([f EXCEPT !.pc = p, !.left = r.count]) BY <2>2, <2>3 DEF Begins, Thread, Switches
  <2> QED BY <2>2, <2>4, <2>5
<1>8. CASE updateConfig(c, r)
  <2>1. f.op = "config" BY <1>2, <1>8 DEF updateConfig
  <2>2. CASE Wanted(r) # protocol /\ NodeCount > 0
    <3>1. Accept(c, r, [f EXCEPT !.pc = "reset", !.left = NodeCount]) BY <1>1, <1>8, <2>2 DEF updateConfig
    <3>2. [f EXCEPT !.pc = "reset", !.left = NodeCount] \in Thread BY <1>3 DEF Thread, Pcs
    <3>3. Begins([f EXCEPT !.pc = "reset", !.left = NodeCount]) BY <2>1 DEF Begins, Thread, Switches
    <3> QED BY <3>1, <3>2, <3>3
  <2>3. CASE ~(Wanted(r) # protocol /\ NodeCount > 0)
    <3>1. Accept(c, r, [f EXCEPT !.pc = "config"]) BY <1>1, <1>8, <2>3 DEF updateConfig
    <3>2. [f EXCEPT !.pc = "config"] \in Thread BY DEF Thread, Pcs
    <3>3. Wanted(r) = protocol \/ Mapped = {} BY <1>3, <2>3
    <3>4. Begins([f EXCEPT !.pc = "config"]) BY <1>2, <2>1, <3>3 DEF Begins, Thread, Switches
    <3> QED BY <3>1, <3>2, <3>4
  <2> QED BY <2>2, <2>3
<1>9. CASE ScenarioBootstrap(c, r)
  <2>1. Accept(c, r, [f EXCEPT !.kills = Mapped, !.left = r.count]) BY <1>1, <1>9 DEF ScenarioBootstrap
  <2>2. [f EXCEPT !.kills = Mapped, !.left = r.count] \in Thread BY <1>2, <1>3 DEF Thread
  <2>3. Begins([f EXCEPT !.kills = Mapped, !.left = r.count]) BY <1>0, <1>2 DEF Begins, Thread
  <2> QED BY <2>1, <2>2, <2>3
<1>10. CASE ScenarioBenchmark(c, r)
  <2>1. Accept(c, r, [f EXCEPT !.kills = Mapped, !.fill = r.count]) BY <1>1, <1>10 DEF ScenarioBenchmark
  <2>2. [f EXCEPT !.kills = Mapped, !.fill = r.count] \in Thread BY <1>2, <1>3 DEF Thread
  <2>3. Begins([f EXCEPT !.kills = Mapped, !.fill = r.count]) BY <1>0, <1>2 DEF Begins, Thread
  <2> QED BY <2>1, <2>2, <2>3
<1>11. CASE ScenarioChurn(c, r)
  <2>1. Accept(c, r, [f EXCEPT !.fill = r.count, !.rounds = 1]) BY <1>1, <1>11 DEF ScenarioChurn
  <2>2. [f EXCEPT !.fill = r.count, !.rounds = 1] \in Thread BY <1>2 DEF Thread
  <2>3. Begins([f EXCEPT !.fill = r.count, !.rounds = 1]) BY <1>0, <1>2 DEF Begins, Thread
  <2> QED BY <2>1, <2>2, <2>3
<1> QED BY <1>4, <1>5, <1>6, <1>7, <1>8, <1>9, <1>10, <1>11

LEMMA AcceptStep ==
  ASSUME IInv, NEW c \in Client, NEW r \in Requests, NEW s \in Thread, Begins(s), Accept(c, r, s)
  PROVE  IInv'
<1>1. ThreadOK(s, made, typed) BY DEF Begins, ThreadOK, HasAddr, HasNode, Stops
<1>2. Rest' BY DEF Accept, orch, IInv, Types, Rest, Clash
<1>3. s.pc \notin HasNode BY DEF Begins, HasNode
<1>4. registry' \in [Port -> 0 .. Len(made)] BY DEF Accept, IInv, Types
<1> QED BY <1>1, <1>2, <1>3, <1>4, QuietStep DEF Accept, orch

LEMMA PartitionStep ==
  ASSUME IInv, HealPartition \/ \E r \in Requests : SetPartition(r)
  PROVE  IInv'
<1>1. UNCHANGED <<made, nodes, typed, nodeAddrs, portCounter, protocol, registry, th, doubled, crossed, firsts>>
  BY DEF HealPartition, SetPartition, orch
<1> QED BY <1>1 DEF IInv, Types, Rest, Threads, Hands, Maps, Lists

\* What a request goes on with.
GoesOn(c, s) ==
  /\ s.pc \in {"idle", "next", "remove", "addr"}
  /\ s.pc = "idle" <=> s.op = "idle"
  /\ s.pc # "idle" => s.op = th[c].op
  /\ s.pc = "remove" => s.addr \in Port
  /\ s.pc = "addr" /\ s.op # "spawnAt" => s.addr = None

LEMMA Continues ==
  ASSUME OrchestratorAssumption, Types, Threads, NEW c \in Client, Continue(c)
  PROVE  \E s \in Thread : GoesOn(c, s) /\ Goto(c, s)
<1>1. PICK s \in Thread : s = th[c] BY DEF Types
<1>2. s.pc = "next" /\ s.op # "idle" BY <1>1 DEF Continue, At, Threads, ThreadOK
<1>3. Mapped \subseteq Port BY CountFacts
<1>4. CASE \E a \in s.kills : Goto(c, [s EXCEPT !.pc = "remove", !.addr = a, !.kills = @ \ {a}])
  <2>1. PICK a \in s.kills : Goto(c, [s EXCEPT !.pc = "remove", !.addr = a, !.kills = @ \ {a}]) BY <1>4
  <2>2. a \in Port /\ s.kills \ {a} \in SUBSET Port BY DEF Thread
  <2>3. [s EXCEPT !.pc = "remove", !.addr = a, !.kills = @ \ {a}] \in Thread BY <2>2 DEF Thread, Pcs
  <2>4. GoesOn(c, [s EXCEPT !.pc = "remove", !.addr = a, !.kills = @ \ {a}])
    BY <1>1, <1>2, <2>2 DEF GoesOn, Thread
  <2> QED BY <2>1, <2>3, <2>4
<1>5. CASE Goto(c, [s EXCEPT !.pc = "addr", !.addr = None])
  <2>1. [s EXCEPT !.pc = "addr", !.addr = None] \in Thread BY DEF Thread, Pcs
  <2>2. GoesOn(c, [s EXCEPT !.pc = "addr", !.addr = None]) BY <1>1, <1>2 DEF GoesOn, Thread
  <2> QED BY <1>5, <2>1, <2>2
<1>6. CASE s.left > 0 /\ Goto(c, [s EXCEPT !.pc = "addr", !.addr = IF Given(c) THEN @ ELSE None, !.left = @ - 1])
  <2>1. PICK a : a = IF Given(c) THEN s.addr ELSE None OBVIOUS
  <2>2. PICK n : n = s.left - 1 OBVIOUS
  <2>3. Goto(c, [s EXCEPT !.pc = "addr", !.addr = a, !.left = n]) BY <1>6, <2>1, <2>2
  <2>4. a \in Port \cup {None} /\ (s.op # "spawnAt" => a = None) BY <1>1, <2>1 DEF Thread, Given
  <2>5. s.left \in Nat BY DEF Thread
  <2>6. n \in Nat BY <1>6, <2>2, <2>5
  <2>7. [s EXCEPT !.pc = "addr", !.addr = a, !.left = n] \in Thread BY <2>4, <2>6 DEF Thread, Pcs
  <2>8. GoesOn(c, [s EXCEPT !.pc = "addr", !.addr = a, !.left = n]) BY <1>1, <1>2, <2>4 DEF GoesOn, Thread
  <2> QED BY <2>3, <2>7, <2>8
<1>7. CASE \E k \in SUBSET Mapped :
             /\ s.rounds > 0
             /\ Goto(c, [s EXCEPT !.kills = k, !.fill = 0, !.left = 1, !.rounds = @ - 1, !.strict = FALSE])
  <2>1. PICK k \in SUBSET Mapped :
          Goto(c, [s EXCEPT !.kills = k, !.fill = 0, !.left = 1, !.rounds = @ - 1, !.strict = FALSE])
    BY <1>7
  <2>2. PICK n : n = s.rounds - 1 OBVIOUS
  <2>3. s.rounds \in Nat BY DEF Thread
  <2>4. n \in Nat BY <1>7, <2>2, <2>3
  <2>5. k \in SUBSET Port BY <1>3
  <2>6. PICK t : t = [s EXCEPT !.kills = k, !.fill = 0, !.left = 1, !.rounds = n, !.strict = FALSE] OBVIOUS
  <2>7. t = [op |-> s.op, pc |-> s.pc, addr |-> s.addr, protocol |-> s.protocol, node |-> s.node,
             first |-> s.first, boot |-> s.boot, kills |-> k, fill |-> 0, left |-> 1, rounds |-> n,
             strict |-> FALSE]
    BY <2>6 DEF Thread
  <2>8. t \in Thread BY <2>4, <2>5, <2>7 DEF Thread
  <2>9. GoesOn(c, t) BY <1>1, <1>2, <2>7 DEF GoesOn
  <2>10. Goto(c, t) BY <2>1, <2>2, <2>6
  <2> QED BY <2>8, <2>9, <2>10
<1>8. CASE s.rounds > 0 /\ Goto(c, [s EXCEPT !.fill = 0, !.left = 1, !.rounds = @ - 1, !.strict = FALSE])
  <2>2. PICK n : n = s.rounds - 1 OBVIOUS
  <2>3. s.rounds \in Nat BY DEF Thread
  <2>4. n \in Nat BY <1>8, <2>2, <2>3
  <2>6. PICK t : t = [s EXCEPT !.fill = 0, !.left = 1, !.rounds = n, !.strict = FALSE] OBVIOUS
  <2>7. t = [op |-> s.op, pc |-> s.pc, addr |-> s.addr, protocol |-> s.protocol, node |-> s.node,
             first |-> s.first, boot |-> s.boot, kills |-> s.kills, fill |-> 0, left |-> 1, rounds |-> n,
             strict |-> FALSE]
    BY <2>6 DEF Thread
  <2>8. t \in Thread BY <2>4, <2>7 DEF Thread
  <2>9. GoesOn(c, t) BY <1>1, <1>2, <2>7 DEF GoesOn
  <2>10. Goto(c, t) BY <1>8, <2>2, <2>6
  <2> QED BY <2>8, <2>9, <2>10
<1>9. CASE Goto(c, Idle)
  <2>1. Idle.pc = "idle" /\ Idle.op = "idle" BY DEF Idle
  <2>2. GoesOn(c, Idle) BY <2>1 DEF GoesOn
  <2> QED BY <1>9, <2>2, IdleOK
<1> QED
  <2>1. \A a \in Mapped : {a} \in SUBSET Mapped OBVIOUS
  <2> QED BY <1>1, <1>4, <1>5, <1>6, <1>7, <1>8, <1>9, <2>1 DEF Continue

LEMMA ContinueStep ==
  ASSUME OrchestratorAssumption, IInv, NEW c \in Client, Continue(c)
  PROVE  IInv'
<1>1. PICK s \in Thread : GoesOn(c, s) /\ Goto(c, s) BY Continues DEF IInv
<1>2. ThreadOK(s, made, typed) /\ s.pc \notin HasNode
  BY <1>1 DEF GoesOn, ThreadOK, HasAddr, HasNode, Stops
<1>3. Rest' /\ registry' \in [Port -> 0 .. Len(made)]
  BY DEF Continue, orch, IInv, Types, Rest
<1> QED BY <1>1, <1>2, <1>3, QuietStep DEF Continue, orch

\* The address is the caller's or the counter's.
LEMMA TakesAddr ==
  ASSUME OrchestratorAssumption, Types, Threads, NEW c \in Client, TakeAddr(c)
  PROVE  \E s \in Thread :
           /\ Goto(c, s) /\ s.pc = "check" /\ s.op = th[c].op /\ s.op # "idle" /\ s.addr \in Port
           /\ \/ s.op = "spawnAt" /\ portCounter' \in {portCounter, portCounter + 1}
              \/ s.addr = portCounter /\ portCounter' = portCounter + 1
           /\ portCounter' \in 1 .. MaxPort + 1
<1>1. PICK s \in Thread : s = th[c] BY DEF Types
<1>2. s.pc = "addr" /\ s.op # "idle" /\ (s.op # "spawnAt" => s.addr = None)
  BY <1>1 DEF TakeAddr, At, Threads, ThreadOK
<1>3. portCounter \in 1 .. MaxPort + 1 /\ MaxPort \in Nat BY DEF Types, Rest, OrchestratorAssumption
<1>4. CASE s.addr # None
  <2>1. Goto(c, [s EXCEPT !.pc = "check"]) /\ portCounter' = portCounter BY <1>1, <1>4 DEF TakeAddr
  <2>2. [s EXCEPT !.pc = "check"] \in Thread BY DEF Thread, Pcs
  <2>3. [s EXCEPT !.pc = "check"].pc = "check" /\ [s EXCEPT !.pc = "check"].op = s.op
        /\ [s EXCEPT !.pc = "check"].addr = s.addr /\ s.addr \in Port
    BY <1>4 DEF Thread
  <2> QED BY <1>1, <1>2, <1>3, <1>4, <2>1, <2>2, <2>3
<1>5. CASE s.addr = None
  <2>1. /\ Goto(c, [s EXCEPT !.pc = "check", !.addr = portCounter])
        /\ portCounter' = portCounter + 1 /\ portCounter \in Port
    BY <1>1, <1>5 DEF TakeAddr
  <2>2. [s EXCEPT !.pc = "check", !.addr = portCounter] \in Thread BY <2>1 DEF Thread, Pcs
  <2>3. /\ [s EXCEPT !.pc = "check", !.addr = portCounter].pc = "check"
        /\ [s EXCEPT !.pc = "check", !.addr = portCounter].op = s.op
        /\ [s EXCEPT !.pc = "check", !.addr = portCounter].addr = portCounter
    BY DEF Thread
  <2>4. portCounter' \in 1 .. MaxPort + 1 BY <1>3, <2>1 DEF Port
  <2> QED BY <1>1, <1>2, <2>1, <2>2, <2>3, <2>4
<1> QED BY <1>4, <1>5

LEMMA TakeAddrStep ==
  ASSUME OrchestratorAssumption, IInv, NEW c \in Client, TakeAddr(c)
  PROVE  IInv'
<1>1. PICK s \in Thread :
        /\ Goto(c, s) /\ s.pc = "check" /\ s.op = th[c].op /\ s.op # "idle" /\ s.addr \in Port
        /\ portCounter' \in 1 .. MaxPort + 1
  BY TakesAddr DEF IInv
<1>2. ThreadOK(s, made, typed) /\ s.pc \notin HasNode
  BY <1>1 DEF ThreadOK, HasAddr, HasNode, Stops
<1>3. Rest' /\ registry' \in [Port -> 0 .. Len(made)]
  BY <1>1 DEF TakeAddr, IInv, Types, Rest
<1> QED BY <1>1, <1>2, <1>3, QuietStep DEF TakeAddr

LEMMA GoesOnOK ==
  ASSUME NEW c \in Client, NEW s, GoesOn(c, s), NEW m, NEW t
  PROVE  ThreadOK(s, m, t) /\ s.pc \notin HasNode /\ s.pc \notin Stops
  BY DEF GoesOn, ThreadOK, HasAddr, HasNode, Stops

LEMMA EndsOK ==
  ASSUME OrchestratorAssumption, Types, NEW c \in Client, th[c].op # "idle"
  PROVE  /\ Done(c) \in Thread /\ GoesOn(c, Done(c)) /\ Done(c).pc = "next"
         /\ Failed(c) \in Thread /\ GoesOn(c, Failed(c)) /\ Failed(c).pc \in {"idle", "next"}
<1>1. /\ Done(c) \in Thread /\ Done(c).pc = "next" /\ Done(c).op = th[c].op
      /\ Failed(c) \in Thread /\ Failed(c).pc \in {"idle", "next"}
      /\ Failed(c).pc = "next" => Failed(c).op = th[c].op
      /\ ThreadOK(Failed(c), made, typed)
  BY DoneOK
<1> QED BY <1>1 DEF GoesOn, ThreadOK

\* A request that checks an address either ends or goes on to make its node.
Checked(c, s) ==
  \/ GoesOn(c, s) /\ s.pc \in {"idle", "next"}
  \/ /\ nodes[th[c].addr] = None /\ s.pc = "make" /\ s.op = th[c].op /\ s.addr = th[c].addr
     /\ (s.first <=> NodeCount = 0)

LEMMA Checks ==
  ASSUME OrchestratorAssumption, Types, Threads, NEW c \in Client, Check(c)
  PROVE  /\ th[c].pc = "check" /\ th[c].op # "idle" /\ th[c].addr \in Port
         /\ \E s \in Thread : Goto(c, s) /\ Checked(c, s)
<1>1. PICK s \in Thread : s = th[c] BY DEF Types
<1>2. s.pc = "check" /\ s.op # "idle" /\ s.addr \in Port
  BY <1>1 DEF Check, At, Threads, ThreadOK, HasAddr
<1>3. CASE nodes[s.addr] # None
  <2>1. Goto(c, Failed(c)) BY <1>1, <1>3 DEF Check
  <2> QED BY <1>1, <1>2, <2>1, EndsOK DEF Checked
<1>4. CASE nodes[s.addr] = None
  <2>1. PICK b \in BOOLEAN : b <=> NodeCount = 0 OBVIOUS
  <2>2. PICK t : t = [s EXCEPT !.pc = "make", !.first = (NodeCount = 0), !.node = None] OBVIOUS
  <2>3. Goto(c, t) BY <1>1, <1>4, <2>2 DEF Check
  <2>4. t \in Thread /\ t.pc = "make" /\ t.op = s.op /\ t.addr = s.addr /\ (t.first <=> NodeCount = 0)
    BY <2>2 DEF Thread, Pcs, None
  <2> QED BY <1>1, <1>2, <1>4, <2>3, <2>4 DEF Checked
<1> QED BY <1>1, <1>2, <1>3, <1>4

LEMMA CheckStep ==
  ASSUME OrchestratorAssumption, IInv, NEW c \in Client, Check(c)
  PROVE  IInv'
<1>1. th[c].op # "idle" /\ th[c].addr \in Port BY Checks DEF IInv
<1>2. PICK s \in Thread : Goto(c, s) /\ Checked(c, s) BY Checks DEF IInv
<1>3. ThreadOK(s, made, typed) /\ s.pc \notin HasNode
  <2>1. CASE GoesOn(c, s) BY <2>1, GoesOnOK
  <2>2. CASE ~GoesOn(c, s) BY <1>1, <1>2, <2>2 DEF Checked, ThreadOK, HasAddr, HasNode, Stops
  <2> QED BY <2>1, <2>2
<1>4. Rest' /\ registry' \in [Port -> 0 .. Len(made)]
  BY DEF Check, orch, IInv, Types, Rest
<1> QED BY <1>2, <1>3, <1>4, QuietStep DEF Check, orch

\* The node a request makes.
LEMMA Makes ==
  ASSUME Types, Threads, NEW c \in Client, Make(c)
  PROVE  /\ th[c].pc = "make" /\ th[c].addr \in Port /\ th[c].op # "idle"
         /\ \E e \in Made, s \in Thread :
              /\ made' = Append(made, e) /\ Goto(c, s)
              /\ e.addr = th[c].addr /\ e.protocol = protocol /\ e.state = "new"
              /\ e.network = (IF th[c].first THEN Len(made) + 1 ELSE None) /\ (e.given <=> Given(c))
              /\ s.pc = (IF th[c].first THEN "publish" ELSE "bootstrap") /\ s.node = Len(made) + 1
              /\ s.addr = th[c].addr /\ s.op = th[c].op
<1>1. PICK s \in Thread : s = th[c] BY DEF Types
<1>2. s.pc = "make" /\ s.addr \in Port /\ s.op # "idle"
  BY <1>1 DEF Make, At, Threads, ThreadOK, HasAddr
<1>3. PICK g \in BOOLEAN : g = Given(c) BY DEF Given
<1>4. Len(made) \in Nat /\ protocol \in Protocol BY LenProperties DEF Types, Rest
<1>5. PICK n \in Nat : n = IF s.first THEN Len(made) + 1 ELSE None BY <1>4 DEF None
<1>6. PICK p \in Pcs : p = IF s.first THEN "publish" ELSE "bootstrap" BY DEF Pcs
<1>7. PICK e : e = [addr |-> s.addr, protocol |-> protocol, state |-> "new", network |-> n, given |-> g] OBVIOUS
<1>8. e \in Made /\ e.addr = s.addr /\ e.protocol = protocol /\ e.state = "new" /\ e.network = n /\ e.given = g
  BY <1>2, <1>4, <1>7 DEF Made
<1>9. made' = Append(made, e) BY <1>1, <1>3, <1>5, <1>7 DEF Make
<1>k. PICK k \in Nat : k = Len(made) + 1 BY <1>4
<1>10. PICK t : t = [s EXCEPT !.pc = p, !.node = k] OBVIOUS
<1>11. Goto(c, t) BY <1>1, <1>6, <1>k, <1>10 DEF Make
<1>12. t \in Thread /\ t.pc = p /\ t.node = Len(made) + 1 /\ t.addr = s.addr /\ t.op = s.op
  BY <1>k, <1>10 DEF Thread
<1> QED BY <1>1, <1>2, <1>3, <1>5, <1>6, <1>8, <1>9, <1>11, <1>12

LEMMA MakeStep ==
  ASSUME IInv, NEW c \in Client, Make(c)
  PROVE  IInv'
<1>1. th[c].pc = "make" /\ th[c].addr \in Port /\ th[c].op # "idle" BY Makes DEF IInv
<1>2. PICK e \in Made, s \in Thread :
        /\ made' = Append(made, e) /\ Goto(c, s)
        /\ e.addr = th[c].addr /\ e.state = "new" /\ (e.given <=> Given(c))
        /\ s.pc = (IF th[c].first THEN "publish" ELSE "bootstrap") /\ s.node = Len(made) + 1
        /\ s.addr = th[c].addr /\ s.op = th[c].op
  BY Makes DEF IInv
<1>3. made \in Seq(Made) /\ Len(made) \in Nat BY LenProperties DEF IInv, Types
<1>m. made' = Append(made, e) BY <1>2
<1>4. /\ made' \in Seq(Made) /\ Len(made') = Len(made) + 1 /\ Keeps(made, made')
      /\ \A j \in 1 .. Len(made) : made'[j] = made[j]
      /\ made'[Len(made) + 1] = e
  BY <1>3, <1>m, AddNode
<1>5. s.pc \in HasNode /\ s.pc \in {"publish", "bootstrap"} BY <1>2 DEF HasNode
<1>6. th' \in [Client -> Thread] /\ th'[c] = s /\ \A d \in Client : d # c => th'[d] = th[d]
  BY <1>2, GoesTo DEF IInv, Types
<1>7. UNCHANGED <<nodes, typed, nodeAddrs, portCounter, protocol, doubled, crossed, firsts>>
      /\ registry' = [registry EXCEPT ![th[c].addr] = Len(made) + 1]
  BY DEF Make, orch
<1>8. Types'
  <2>1. \A x : x \in 0 .. Len(made) => x \in 0 .. Len(made') BY <1>3, <1>4
  <2>2. Len(made) + 1 \in 0 .. Len(made') BY <1>3, <1>4
  <2>3. nodes' \in [Port -> 0 .. Len(made')] BY <1>7, <2>1 DEF IInv, Types
  <2>4. typed' \in [Protocol -> [Port -> 0 .. Len(made')]]
    <3>1. typed \in [Protocol -> [Port -> 0 .. Len(made)]] BY DEF IInv, Types
    <3>2. \A f \in [Port -> 0 .. Len(made)] : f \in [Port -> 0 .. Len(made')] BY <2>1
    <3> QED BY <1>7, <3>1, <3>2
  <2>5. registry' \in [Port -> 0 .. Len(made')] BY <1>7, <2>1, <2>2 DEF IInv, Types
  <2> QED BY <1>4, <1>6, <1>7, <2>3, <2>4, <2>5 DEF IInv, Types, Rest
<1>9. ThreadOK(s, made', typed')
  <2>1. s.node \in 1 .. Len(made') BY <1>2, <1>3, <1>4
  <2> QED BY <1>1, <1>2, <1>4, <1>5, <2>1 DEF ThreadOK, HasAddr, HasNode, Stops, Given
<1>10. \A d \in Client \ {c} : th[d].pc \in HasNode \cup Stops => th[d].node \in 1 .. Len(made)
  BY DEF IInv, Threads, ThreadOK
<1>11. Threads'
  <2>1. \A d \in Client \ {c} : th[d].pc \in HasNode => made'[th[d].node].state = "new"
    BY <1>4, <1>10 DEF IInv, Threads, ThreadOK
  <2>2. \A d \in Client \ {c} : th[d].pc \in Stops =>
          made'[th[d].node].state # "new" /\ \A p \in Protocol : typed'[p][th[d].addr] # th[d].node
    BY <1>4, <1>7, <1>10 DEF IInv, Threads, ThreadOK
  <2> QED BY <1>2, <1>4, <1>9, <2>1, <2>2, ThreadsStep DEF IInv
<1>12. Hands'
  <2>1. \A d \in Client \ {c} : th[d].pc \in HasNode => th[d].node # Len(made) + 1 BY <1>3, <1>10
  <2> QED BY <1>2, <1>6, <2>1 DEF IInv, Hands
<1>13. Maps' BY <1>4, <1>7, MapsKept DEF IInv
<1> QED BY <1>8, <1>11, <1>12, <1>13 DEF IInv

\* A step that keeps the node in hand, whose network may become known.
LEMMA SpawnStep ==
  ASSUME IInv, NEW c \in Client, NEW s \in Thread, Goto(c, s),
         th[c].pc \in HasNode, s.pc \in HasNode,
         s.node = th[c].node, s.addr = th[c].addr, s.op = th[c].op,
         s.pc = "join" => s.boot \in 1 .. Len(made),
         made' \in Seq(Made), Len(made') = Len(made), Keeps(made, made'),
         \A i \in 1 .. Len(made) : made'[i].state = made[i].state,
         UNCHANGED <<nodes, typed, registry>>, Rest'
  PROVE  IInv'
<1>1. th' \in [Client -> Thread] /\ th'[c] = s /\ \A d \in Client : d # c => th'[d] = th[d]
  BY GoesTo DEF IInv, Types
<1>2. Types' BY <1>1 DEF IInv, Types
<1>3. \A d \in Client : th[d].pc \in HasNode \cup Stops => th[d].node \in 1 .. Len(made)
  BY DEF IInv, Threads, ThreadOK
<1>4. ThreadOK(th[c], made, typed) BY DEF IInv, Threads
<1>5. ThreadOK(s, made', typed')
  BY <1>3, <1>4 DEF ThreadOK, HasNode, HasAddr, Stops, Keeps
<1>6. Threads'
  <2>1. \A d \in Client \ {c} : th[d].pc \in HasNode => made'[th[d].node].state = "new"
    BY <1>3 DEF IInv, Threads, ThreadOK
  <2>2. \A d \in Client \ {c} : th[d].pc \in Stops =>
          made'[th[d].node].state # "new" /\ \A p \in Protocol : typed'[p][th[d].addr] # th[d].node
    BY <1>3 DEF IInv, Threads, ThreadOK
  <2> QED BY <1>5, <2>1, <2>2, ThreadsStep DEF IInv
<1>7. Hands' BY <1>1 DEF IInv, Hands
<1>8. Maps' BY MapsKept DEF IInv
<1> QED BY <1>2, <1>6, <1>7, <1>8 DEF IInv

\* The request founds a network with its node or goes on to join through another.
LEMMA Bootstraps ==
  ASSUME Types, Threads, NEW c \in Client, Bootstrap(c)
  PROVE  /\ th[c].pc = "bootstrap" /\ th[c].node \in 1 .. Len(made)
         /\ \E s \in Thread :
              /\ Goto(c, s) /\ s.node = th[c].node /\ s.addr = th[c].addr /\ s.op = th[c].op
              /\ \/ /\ s.pc = "publish" /\ made' = [made EXCEPT ![th[c].node].network = th[c].node]
                    /\ \A a \in Port : ~Lists(made[th[c].node].protocol, a)
                    /\ firsts' = (firsts \/ Alongside(c))
                 \/ /\ s.pc = "join" /\ UNCHANGED <<made, firsts>> /\ s.boot # None
                    /\ \E a \in Port : s.boot = typed[made[th[c].node].protocol][a]
<1>1. PICK s \in Thread : s = th[c] BY DEF Types
<1>2. s.pc = "bootstrap" /\ s.node \in 1 .. Len(made)
  BY <1>1 DEF Bootstrap, At, Threads, ThreadOK, HasNode
<1>p. made[s.node].protocol \in Protocol
  <2>1. made[s.node] \in Made BY <1>2, ElementOfSeq DEF Types
  <2> QED BY <2>1 DEF Made
<1> DEFINE known == {typed[made[s.node].protocol][a] : a \in Port} \ {None}
<1>3. CASE /\ known = {} /\ made' = [made EXCEPT ![s.node].network = s.node]
           /\ firsts' = (firsts \/ Alongside(c)) /\ Goto(c, [s EXCEPT !.pc = "publish"])
  <2>1. PICK t : t = [s EXCEPT !.pc = "publish"] OBVIOUS
  <2>2. t \in Thread /\ t.pc = "publish" /\ t.node = s.node /\ t.addr = s.addr /\ t.op = s.op
    BY <2>1 DEF Thread, Pcs
  <2>3. \A a \in Port : ~Lists(made[s.node].protocol, a) BY <1>3 DEF Lists
  <2>4. Goto(c, t) BY <1>3, <2>1
  <2>5. made' = [made EXCEPT ![s.node].network = s.node] /\ firsts' = (firsts \/ Alongside(c)) BY <1>3
  <2> HIDE DEF known
  <2> QED BY <1>1, <1>2, <2>2, <2>3, <2>4, <2>5
<1>4. CASE \E b \in known : Goto(c, [s EXCEPT !.pc = "join", !.boot = b]) /\ UNCHANGED <<made, firsts>>
  <2>1. PICK b \in known : Goto(c, [s EXCEPT !.pc = "join", !.boot = b]) /\ UNCHANGED <<made, firsts>>
    BY <1>4
  <2>2. PICK a \in Port : b = typed[made[s.node].protocol][a] /\ b # None OBVIOUS
  <2>3. b \in Nat
    <3>1. Len(made) \in Nat BY LenProperties DEF Types
    <3> QED BY <1>p, <2>2, <3>1 DEF Types
  <2>4. PICK t : t = [s EXCEPT !.pc = "join", !.boot = b] OBVIOUS
  <2>5. t \in Thread /\ t.pc = "join" /\ t.node = s.node /\ t.addr = s.addr /\ t.op = s.op /\ t.boot = b
    BY <2>3, <2>4 DEF Thread, Pcs
  <2>6. Goto(c, t) BY <2>1, <2>4
  <2> HIDE DEF known
  <2> QED BY <1>1, <1>2, <2>1, <2>2, <2>5, <2>6
<1> QED BY <1>1, <1>2, <1>3, <1>4 DEF Bootstrap

LEMMA BootstrapStep ==
  ASSUME IInv, NEW c \in Client, Bootstrap(c)
  PROVE  IInv'
<1>1. th[c].pc = "bootstrap" /\ th[c].pc \in HasNode /\ th[c].node \in 1 .. Len(made)
  BY Bootstraps DEF IInv, HasNode
<1>2. PICK s \in Thread :
        /\ Goto(c, s) /\ s.node = th[c].node /\ s.addr = th[c].addr /\ s.op = th[c].op
        /\ \/ s.pc = "publish" /\ made' = [made EXCEPT ![th[c].node].network = th[c].node]
           \/ /\ s.pc = "join" /\ made' = made /\ s.boot # None
              /\ \E a \in Port : s.boot = typed[made[th[c].node].protocol][a]
  BY Bootstraps DEF IInv
<1>3. made \in Seq(Made) /\ Len(made) \in Nat /\ th[c].node \in Nat BY <1>1, LenProperties DEF IInv, Types
<1>4. s.pc \in HasNode BY <1>2 DEF HasNode
<1>5. s.pc = "join" => s.boot \in 1 .. Len(made)
  <2>1. made[th[c].node] \in Made BY <1>1, <1>3, ElementOfSeq
  <2>2. made[th[c].node].protocol \in Protocol BY <2>1 DEF Made
  <2> QED BY <1>2, <1>3, <2>2 DEF IInv, Types, None
<1>6. made' \in Seq(Made) /\ Len(made') = Len(made) /\ Keeps(made, made')
      /\ \A i \in 1 .. Len(made) : made'[i].state = made[i].state
  <2>1. CASE made' = WithNetwork(made, th[c].node, th[c].node) BY <1>1, <1>3, <2>1, SetNetwork
  <2>2. CASE made' = made BY <1>3, <2>2 DEF Keeps
  <2> QED BY <1>2, <2>1, <2>2 DEF WithNetwork
<1>7. Rest'
  <2>1. Alongside(c) \in BOOLEAN BY DEF Alongside
  <2> QED BY <2>1 DEF Bootstrap, orch, IInv, Types, Rest
<1>8. UNCHANGED <<nodes, typed, registry>> BY DEF Bootstrap, orch
<1> QED BY <1>1, <1>2, <1>4, <1>5, <1>6, <1>7, <1>8, SpawnStep

\* A node that joins has a network from then on.
LEMMA Joins ==
  ASSUME Types, Threads, NEW c \in Client, Join(c)
  PROVE  LET b == made[th[c].boot].addr IN
         /\ th[c].pc = "join" /\ th[c].node \in 1 .. Len(made) /\ th[c].boot \in 1 .. Len(made)
         /\ b \in Port /\ registry[b] \in 1 .. Len(made)
         /\ \E x \in Nat, s \in Thread :
              /\ x # None /\ made' = WithNetwork(made, th[c].node, x)
              /\ \/ x = made[registry[b]].network /\ firsts' = firsts
                 \/ made[registry[b]].network = None /\ firsts'
              /\ Goto(c, s) /\ s.pc = "publish" /\ s.node = th[c].node
              /\ s.addr = th[c].addr /\ s.op = th[c].op
<1>1. PICK s \in Thread : s = th[c] BY DEF Types
<1>2. s.pc = "join" /\ s.node \in 1 .. Len(made) /\ s.boot \in 1 .. Len(made)
  BY <1>1 DEF Join, At, Threads, ThreadOK, HasNode
<1>3. made \in Seq(Made) /\ Len(made) \in Nat BY LenProperties DEF Types
<1>4. PICK b \in Port : b = made[s.boot].addr
  <2>1. made[s.boot] \in Made BY <1>2, <1>3, ElementOfSeq
  <2> QED BY <2>1 DEF Made
<1>5. registry[b] \in 1 .. Len(made)
  <2>1. registry[b] # None BY <1>1, <1>4 DEF Join, Answers, Reaches
  <2>2. registry[b] \in 0 .. Len(made) BY <1>4 DEF Types
  <2> QED BY <1>3, <2>1, <2>2 DEF None
<1>6. PICK n \in Nat : n = made[registry[b]].network
  <2>1. made[registry[b]] \in Made BY <1>3, <1>5, ElementOfSeq
  <2> QED BY <2>1 DEF Made
<1>7. PICK x \in Nat : x = IF n = None THEN s.node ELSE n BY <1>2, <1>3
<1>8. x # None BY <1>2, <1>3, <1>7 DEF None
<1>9. /\ made' = [made EXCEPT ![s.node].network = x] /\ firsts' = (firsts \/ n = None)
      /\ Goto(c, [s EXCEPT !.pc = "publish"])
  BY <1>1, <1>4, <1>6, <1>7 DEF Join
<1>10. PICK t : t = [s EXCEPT !.pc = "publish"] OBVIOUS
<1>11. t \in Thread /\ t.pc = "publish" /\ t.node = s.node /\ t.addr = s.addr /\ t.op = s.op
  BY <1>10 DEF Thread, Pcs
<1>12. Goto(c, t) /\ made' = WithNetwork(made, s.node, x) BY <1>9, <1>10 DEF WithNetwork
<1>13. \/ x = n /\ firsts' = firsts
       \/ n = None /\ firsts'
  <2>1. firsts \in BOOLEAN BY DEF Types, Rest
  <2>2. CASE n = None BY <1>9, <2>2
  <2>3. CASE n # None BY <1>7, <1>9, <2>1, <2>3
  <2> QED BY <2>2, <2>3
<1> QED BY <1>1, <1>2, <1>4, <1>5, <1>6, <1>8, <1>11, <1>12, <1>13

LEMMA JoinStep ==
  ASSUME IInv, NEW c \in Client, Join(c)
  PROVE  IInv'
<1>1. th[c].pc = "join" /\ th[c].node \in 1 .. Len(made) BY Joins DEF IInv
<1>2. PICK x \in Nat, s \in Thread :
        /\ made' = WithNetwork(made, th[c].node, x)
        /\ Goto(c, s) /\ s.pc = "publish" /\ s.node = th[c].node
        /\ s.addr = th[c].addr /\ s.op = th[c].op
  BY Joins DEF IInv
<1>3. made \in Seq(Made) BY DEF IInv, Types
<1>4. made' \in Seq(Made) /\ Len(made') = Len(made) /\ Keeps(made, made')
      /\ \A i \in 1 .. Len(made) : made'[i].state = made[i].state
  BY <1>1, <1>2, <1>3, SetNetwork
<1>5. th[c].pc \in HasNode /\ s.pc \in HasNode /\ s.pc # "join" BY <1>1, <1>2 DEF HasNode
<1>6. Rest'
  <2>1. firsts' \in BOOLEAN BY DEF Join
  <2> QED BY <2>1 DEF Join, orch, IInv, Types, Rest
<1>7. UNCHANGED <<nodes, typed, registry>> BY DEF Join, orch
<1> QED BY <1>2, <1>4, <1>5, <1>6, <1>7, SpawnStep

\* A node that joins alone has itself for a network.
LEMMA JoinsAlone ==
  ASSUME Types, Threads, NEW c \in Client, JoinAlone(c)
  PROVE  /\ th[c].pc = "join" /\ th[c].node \in 1 .. Len(made) /\ th[c].node \in Nat
         /\ th[c].node # None /\ made' = WithNetwork(made, th[c].node, th[c].node)
         /\ \E s \in Thread :
              /\ Goto(c, s) /\ s.pc = "publish" /\ s.node = th[c].node
              /\ s.addr = th[c].addr /\ s.op = th[c].op
<1>1. PICK s \in Thread : s = th[c] BY DEF Types
<1>2. s.pc = "join" /\ s.node \in 1 .. Len(made)
  BY <1>1 DEF JoinAlone, At, Threads, ThreadOK, HasNode
<1>3. Len(made) \in Nat BY LenProperties DEF Types
<1>4. s.node \in Nat /\ s.node # None BY <1>2, <1>3 DEF None
<1>5. PICK t : t = [s EXCEPT !.pc = "publish"] OBVIOUS
<1>6. t \in Thread /\ t.pc = "publish" /\ t.node = s.node /\ t.addr = s.addr /\ t.op = s.op
  BY <1>5 DEF Thread, Pcs
<1>7. Goto(c, t) /\ made' = WithNetwork(made, s.node, s.node)
  BY <1>1, <1>5 DEF JoinAlone, WithNetwork
<1> QED BY <1>1, <1>2, <1>4, <1>6, <1>7

LEMMA JoinAloneStep ==
  ASSUME IInv, NEW c \in Client, JoinAlone(c)
  PROVE  IInv'
<1>1. /\ th[c].pc = "join" /\ th[c].node \in 1 .. Len(made) /\ th[c].node \in Nat
      /\ made' = WithNetwork(made, th[c].node, th[c].node)
  BY JoinsAlone DEF IInv
<1>2. PICK s \in Thread : /\ Goto(c, s) /\ s.pc = "publish" /\ s.node = th[c].node
                          /\ s.addr = th[c].addr /\ s.op = th[c].op
  BY JoinsAlone DEF IInv
<1>3. made \in Seq(Made) BY DEF IInv, Types
<1>4. made' \in Seq(Made) /\ Len(made') = Len(made) /\ Keeps(made, made')
      /\ \A i \in 1 .. Len(made) : made'[i].state = made[i].state
  BY <1>1, <1>3, SetNetwork
<1>5. th[c].pc \in HasNode /\ s.pc \in HasNode /\ s.pc # "join" BY <1>1, <1>2 DEF HasNode
<1>6. Rest' BY DEF JoinAlone, orch, IInv, Types, Rest
<1>7. UNCHANGED <<nodes, typed, registry>> BY DEF JoinAlone, orch
<1> QED BY <1>2, <1>4, <1>5, <1>6, <1>7, SpawnStep

LEMMA JoinFailsStep ==
  ASSUME OrchestratorAssumption, IInv, NEW c \in Client, JoinFails(c)
  PROVE  IInv'
<1>1. th[c].op # "idle" BY DEF JoinFails, At, IInv, Threads, ThreadOK
<1>2. Failed(c) \in Thread /\ GoesOn(c, Failed(c)) BY <1>1, EndsOK DEF IInv
<1>3. ThreadOK(Failed(c), made, typed) /\ Failed(c).pc \notin HasNode BY <1>2, GoesOnOK
<1>4. registry' \in [Port -> 0 .. Len(made)]
  <2>1. None \in 0 .. Len(made)
    <3>1. Len(made) \in Nat BY LenProperties DEF IInv, Types
    <3> QED BY <3>1 DEF None
  <2> QED BY <2>1 DEF JoinFails, IInv, Types
<1>5. Rest' BY DEF JoinFails, orch, IInv, Types, Rest
<1> QED BY <1>2, <1>3, <1>4, <1>5, QuietStep DEF JoinFails, orch

\* What is published.
LEMMA Publishes ==
  ASSUME OrchestratorAssumption, Types, Threads, NEW c \in Client, Publish(c)
  PROVE  LET i == th[c].node  a == th[c].addr IN
         /\ th[c].pc = "publish" /\ i \in 1 .. Len(made) /\ a \in Port /\ made[i].addr = a
         /\ made[i].state = "new" /\ made[i].protocol \in Protocol
         /\ made' = WithState(made, i, "runs")
         /\ nodes' = [nodes EXCEPT ![a] = i] /\ nodeAddrs' = Append(nodeAddrs, a)
         /\ \A p \in Protocol, b \in Port :
              typed'[p][b] = IF p = made[i].protocol /\ b = a THEN i ELSE typed[p][b]
         /\ Goto(c, Done(c)) /\ Done(c) \in Thread /\ GoesOn(c, Done(c))
<1>1. PICK i \in 1 .. Len(made) : i = th[c].node
  BY DEF Publish, At, Threads, ThreadOK, HasNode
<1>2. PICK a \in Port : a = th[c].addr BY DEF Publish, At, Threads, ThreadOK, HasAddr
<1>3. /\ made[i].addr = a /\ made[i].state = "new" /\ th[c].pc = "publish" /\ th[c].op # "idle"
  BY <1>1, <1>2 DEF Publish, At, Threads, ThreadOK, HasNode
<1>4. PICK q \in Protocol : q = made[i].protocol
  <2>1. made[i] \in Made BY ElementOfSeq DEF Types
  <2> QED BY <2>1 DEF Made
<1>5. typed' = [typed EXCEPT ![q][a] = i] BY <1>1, <1>2, <1>4 DEF Publish
<1>6. \A p \in Protocol, b \in Port : typed'[p][b] = IF p = q /\ b = a THEN i ELSE typed[p][b]
  <2>1. typed \in [Protocol -> [Port -> 0 .. Len(made)]] BY DEF Types
  <2> QED BY <1>5, <2>1
<1>7. made' = WithState(made, i, "runs") BY <1>1 DEF Publish, WithState
<1>8. Done(c) \in Thread /\ GoesOn(c, Done(c)) BY <1>3, EndsOK
<1>9. nodes' = [nodes EXCEPT ![a] = i] /\ nodeAddrs' = Append(nodeAddrs, a) /\ Goto(c, Done(c))
  BY <1>1, <1>2 DEF Publish
<1> QED BY <1>1, <1>2, <1>3, <1>4, <1>6, <1>7, <1>8, <1>9

LEMMA PublishStep ==
  ASSUME OrchestratorAssumption, IInv, NEW c \in Client, Publish(c)
  PROVE  IInv'
<1>1. PICK i \in 1 .. Len(made), a \in Port, q \in Protocol :
        i = th[c].node /\ a = th[c].addr /\ q = made[i].protocol
  BY Publishes DEF IInv
<1>2. /\ th[c].pc = "publish" /\ made[i].addr = a /\ made[i].state = "new"
      /\ made' = WithState(made, i, "runs")
      /\ nodes' = [nodes EXCEPT ![a] = i] /\ nodeAddrs' = Append(nodeAddrs, a)
      /\ \A p \in Protocol, b \in Port : typed'[p][b] = IF p = q /\ b = a THEN i ELSE typed[p][b]
      /\ Goto(c, Done(c)) /\ Done(c) \in Thread /\ GoesOn(c, Done(c))
  BY <1>1, Publishes DEF IInv
<1>3. made \in Seq(Made) /\ Len(made) \in Nat BY LenProperties DEF IInv, Types
<1>4. made' \in Seq(Made) /\ Len(made') = Len(made) /\ Keeps(made, made')
      /\ \A j \in 1 .. Len(made) : made'[j].state = IF j = i THEN "runs" ELSE made[j].state
  BY <1>2, <1>3, SetState
<1>5. th' \in [Client -> Thread] /\ th'[c] = Done(c) /\ \A d \in Client : d # c => th'[d] = th[d]
  BY <1>2, GoesTo DEF IInv, Types
<1>6. Types'
  <2>1. nodes' \in [Port -> 0 .. Len(made)] BY <1>2, <1>3 DEF IInv, Types
  <2>2. typed' \in [Protocol -> [Port -> 0 .. Len(made)]]
    <3>1. typed' = [typed EXCEPT ![q][a] = i] BY <1>1 DEF Publish
    <3>2. i \in 0 .. Len(made) BY <1>3
    <3> QED BY <3>1, <3>2 DEF IInv, Types
  <2>3. nodeAddrs' \in Seq(Port) BY <1>2, AppendProperties DEF IInv, Types, Rest
  <2>4. Rest' BY <2>3 DEF Publish, IInv, Types, Rest
  <2>5. registry' = registry BY DEF Publish
  <2> QED BY <1>4, <1>5, <2>1, <2>2, <2>4, <2>5 DEF IInv, Types
<1>7. \A d \in Client : th[d].pc \in HasNode \cup Stops => th[d].node \in 1 .. Len(made) /\ th[d].addr \in Port
  BY DEF IInv, Threads, ThreadOK, HasNode, HasAddr, Stops
<1>8. Threads'
  <2>1. \A d \in Client \ {c} : th[d].pc \in HasNode => made'[th[d].node].state = "new"
    <3>1. \A d \in Client \ {c} : th[d].pc \in HasNode => th[d].node # i
      BY <1>1, <1>2 DEF IInv, Hands, HasNode
    <3> QED BY <1>4, <1>7, <3>1 DEF IInv, Threads, ThreadOK
  <2>2. \A d \in Client \ {c} : th[d].pc \in Stops => th[d].node # i
    BY <1>2, <1>7 DEF IInv, Threads, ThreadOK
  <2>3. \A d \in Client \ {c} : th[d].pc \in Stops =>
          made'[th[d].node].state # "new" /\ \A p \in Protocol : typed'[p][th[d].addr] # th[d].node
    <3> SUFFICES ASSUME NEW d \in Client \ {c}, th[d].pc \in Stops
                 PROVE  made'[th[d].node].state # "new" /\ \A p \in Protocol : typed'[p][th[d].addr] # th[d].node
      OBVIOUS
    <3>1. /\ made[th[d].node].state # "new" /\ \A p \in Protocol : typed[p][th[d].addr] # th[d].node
          /\ th[d].node \in 1 .. Len(made) /\ th[d].addr \in Port
      BY <1>7 DEF IInv, Threads, ThreadOK
    <3>2. made'[th[d].node].state # "new" BY <1>4, <3>1
    <3> QED BY <1>2, <2>2, <3>1, <3>2
  <2>4. ThreadOK(Done(c), made', typed') BY <1>2, GoesOnOK
  <2> QED BY <1>2, <1>4, <2>1, <2>3, <2>4, ThreadsStep DEF IInv
<1>9. Hands'
  <2>1. Done(c).pc \notin HasNode BY <1>2, GoesOnOK
  <2> QED BY <1>5, <2>1 DEF IInv, Hands
<1>10. Maps'
  <2>0. nodes \in [Port -> 0 .. Len(made)] /\ typed \in [Protocol -> [Port -> 0 .. Len(made)]]
    BY DEF IInv, Types
  <2>1. ASSUME NEW b \in Port, nodes'[b] # None
        PROVE  made'[nodes'[b]].addr = b /\ typed'[made'[nodes'[b]].protocol][b] = nodes'[b]
    <3>1. CASE b = a
      <4>1. nodes'[b] = i BY <1>2, <2>0, <3>1
      <4>2. made'[i].addr = a /\ made'[i].protocol = q BY <1>1, <1>2, <1>4 DEF Keeps
      <4> QED BY <1>2, <3>1, <4>1, <4>2
    <3>2. CASE b # a
      <4>1. nodes'[b] = nodes[b] BY <1>2, <2>0, <3>2
      <4>2. nodes[b] \in 1 .. Len(made) BY <1>3, <2>0, <2>1, <4>1 DEF None
      <4>3. made[nodes[b]].addr = b /\ typed[made[nodes[b]].protocol][b] = nodes[b]
        BY <2>1, <4>1 DEF IInv, Maps
      <4>4. made[nodes[b]].protocol \in Protocol
        <5>1. made[nodes[b]] \in Made BY <1>3, <4>2, ElementOfSeq
        <5> QED BY <5>1 DEF Made
      <4>5. made'[nodes[b]].addr = made[nodes[b]].addr /\ made'[nodes[b]].protocol = made[nodes[b]].protocol
        BY <1>4, <4>2 DEF Keeps
      <4> QED BY <1>2, <3>2, <4>1, <4>3, <4>4, <4>5
    <3> QED BY <3>1, <3>2
  <2>2. ASSUME NEW p \in Protocol, NEW b \in Port, typed'[p][b] # None
        PROVE  /\ made'[typed'[p][b]].addr = b /\ made'[typed'[p][b]].protocol = p
               /\ made'[typed'[p][b]].state = "runs" /\ nodes'[b] # None
    <3>1. CASE p = q /\ b = a
      <4>1. typed'[p][b] = i BY <1>2, <3>1
      <4>2. nodes'[b] = i /\ i # None BY <1>2, <1>3, <2>0, <3>1 DEF None
      <4>3. made'[i].addr = a /\ made'[i].protocol = q /\ made'[i].state = "runs" BY <1>1, <1>2, <1>4 DEF Keeps
      <4> QED BY <3>1, <4>1, <4>2, <4>3
    <3>2. CASE ~(p = q /\ b = a)
      <4>1. typed'[p][b] = typed[p][b] BY <1>2, <3>2
      <4>2. typed[p][b] \in 1 .. Len(made) BY <1>3, <2>0, <2>2, <4>1 DEF None
      <4>3. /\ made[typed[p][b]].addr = b /\ made[typed[p][b]].protocol = p
            /\ made[typed[p][b]].state = "runs" /\ nodes[b] # None
        BY <2>2, <4>1 DEF IInv, Maps, Lists
      <4>4. nodes'[b] # None BY <1>2, <1>3, <2>0, <4>3 DEF None
      <4> QED BY <1>4, <4>1, <4>2, <4>3, <4>4 DEF Keeps
    <3> QED BY <3>1, <3>2
  <2> QED BY <2>1, <2>2 DEF Maps, Lists
<1> QED BY <1>6, <1>8, <1>9, <1>10 DEF IInv

\* A sequence without its k-th element.
LEMMA Removes ==
  ASSUME NEW S, NEW s \in Seq(S), NEW k \in 1 .. Len(s)
  PROVE  /\ RemoveAt(s, k) \in Seq(S) /\ Len(RemoveAt(s, k)) = Len(s) - 1
         /\ \A j \in 1 .. Len(s) - 1 : RemoveAt(s, k)[j] = IF j < k THEN s[j] ELSE s[j + 1]
<1> DEFINE u == SubSeq(s, 1, k - 1)
           v == SubSeq(s, k + 1, Len(s))
<1>1. Len(s) \in Nat /\ k \in Nat /\ 1 <= k /\ k <= Len(s) BY LenProperties
<1>2. \A i \in 1 .. Len(s) : s[i] \in S BY ElementOfSeq
<1>3. \A i \in 1 .. k - 1 : i \in 1 .. Len(s) BY <1>1
<1>4. \A i \in k + 1 .. Len(s) : i \in 1 .. Len(s) BY <1>1
<1>5. u \in Seq(S) /\ Len(u) = k - 1 /\ \A i \in 1 .. k - 1 : u[i] = s[i]
  <2>1. k - 1 \in Int /\ 1 \in Int /\ (k - 1) - 1 + 1 = k - 1 BY <1>1
  <2>2. \A i \in 1 .. k - 1 : s[i] \in S BY <1>2, <1>3
  <2>3. /\ u \in Seq(S) /\ Len(u) = IF 1 <= k - 1 THEN (k - 1) - 1 + 1 ELSE 0
        /\ \A i \in 1 .. (k - 1) - 1 + 1 : u[i] = s[1 + i - 1]
    BY <2>1, <2>2, SubSeqProperties
  <2> HIDE DEF u
  <2>4. \A i \in 1 .. k - 1 : 1 + i - 1 = i OBVIOUS
  <2> QED BY <1>1, <2>1, <2>3, <2>4
<1>6. v \in Seq(S) /\ Len(v) = Len(s) - k /\ \A i \in 1 .. Len(s) - k : v[i] = s[k + i]
  <2>1. k + 1 \in Int /\ Len(s) \in Int /\ Len(s) - (k + 1) + 1 = Len(s) - k BY <1>1
  <2>2. \A i \in k + 1 .. Len(s) : s[i] \in S BY <1>2, <1>4
  <2>3. /\ v \in Seq(S) /\ Len(v) = IF k + 1 <= Len(s) THEN Len(s) - (k + 1) + 1 ELSE 0
        /\ \A i \in 1 .. Len(s) - (k + 1) + 1 : v[i] = s[k + 1 + i - 1]
    BY <2>1, <2>2, SubSeqProperties
  <2> HIDE DEF v
  <2>5. Len(v) = Len(s) - k
    <3>1. Len(v) = IF k + 1 <= Len(s) THEN Len(s) - (k + 1) + 1 ELSE 0 BY <2>3
    <3>2. \A m, n \in Nat : m <= n => (IF m + 1 <= n THEN n - (m + 1) + 1 ELSE 0) = n - m OBVIOUS
    <3> QED BY <1>1, <3>1, <3>2
  <2>6. ASSUME NEW i \in 1 .. Len(s) - k PROVE v[i] = s[k + i]
    <3>1. k + 1 + i - 1 = k + i BY <1>1
    <3>2. v[i] = s[k + 1 + i - 1] BY <2>1, <2>3
    <3> QED BY <3>1, <3>2
  <2> QED BY <2>3, <2>5, <2>6
<1>7. RemoveAt(s, k) = u \o v BY DEF RemoveAt
<1> HIDE DEF u, v
<1>8. /\ u \o v \in Seq(S) /\ Len(u \o v) = Len(u) + Len(v)
      /\ \A i \in 1 .. Len(u) + Len(v) : (u \o v)[i] = IF i <= Len(u) THEN u[i] ELSE v[i - Len(u)]
  BY <1>5, <1>6, ConcatProperties
<1>9. Len(u) + Len(v) = Len(s) - 1 BY <1>1, <1>5, <1>6
<1>10. ASSUME NEW j \in 1 .. Len(s) - 1 PROVE (u \o v)[j] = IF j < k THEN s[j] ELSE s[j + 1]
  <2>1. CASE j < k
    <3>1. j \in 1 .. k - 1 /\ j <= Len(u) BY <1>1, <1>5, <2>1
    <3> QED BY <1>5, <1>8, <1>9, <2>1, <3>1
  <2>2. CASE ~(j < k)
    <3>1. j - (k - 1) \in 1 .. Len(s) - k /\ k + (j - (k - 1)) = j + 1 /\ ~(j <= k - 1) BY <1>1, <2>2
    <3>2. v[j - (k - 1)] = s[j + 1] BY <1>6, <3>1
    <3> QED BY <1>5, <1>8, <1>9, <2>2, <3>1, <3>2
  <2> QED BY <2>1, <2>2
<1> QED BY <1>7, <1>8, <1>9, <1>10

\* A nonempty set of numbers has a least one.
LEMMA NatMin ==
  ASSUME NEW T, T \subseteq Nat, T # {}
  PROVE  \E x \in T : \A y \in T : x <= y
<1> DEFINE Less == OpToRel(<, Nat)
<1>1. IsWellFoundedOn(Less, Nat) BY NatLessThanWellFounded
<1> HIDE DEF Less
<1>2. PICK x \in T : \A y \in T : ~ (<<y, x>> \in Less) BY <1>1, WFMin
<1>3. \A y \in T : ~(y < x) BY <1>2 DEF Less, OpToRel
<1> QED BY <1>3

\* Where removeAddr finds an address.
LEMMA RemovesAddr ==
  ASSUME nodeAddrs \in Seq(Port), NEW a
  PROVE  \/ a \notin Range(nodeAddrs) /\ removeAddr(a) = nodeAddrs
         \/ \E k \in 1 .. Len(nodeAddrs) : nodeAddrs[k] = a /\ removeAddr(a) = RemoveAt(nodeAddrs, k)
<1>1. Len(nodeAddrs) \in Nat /\ DOMAIN nodeAddrs = 1 .. Len(nodeAddrs) BY LenProperties
<1>2. CASE a \notin Range(nodeAddrs) BY <1>2 DEF removeAddr
<1>3. CASE a \in Range(nodeAddrs)
  <2> DEFINE T == {k \in 1 .. Len(nodeAddrs) : nodeAddrs[k] = a}
             First(k) == nodeAddrs[k] = a /\ \A j \in 1 .. k - 1 : nodeAddrs[j] # a
             f == CHOOSE k \in DOMAIN nodeAddrs : First(k)
  <2>1. T \subseteq Nat /\ T # {} BY <1>1, <1>3 DEF Range
  <2>2. PICK k \in T : \A j \in T : k <= j
    <3> HIDE DEF T
    <3> QED BY <2>1, NatMin
  <2>3. \A j \in 1 .. k - 1 : j \in 1 .. Len(nodeAddrs) /\ ~(k <= j) BY <1>1, <2>2
  <2>4. k \in DOMAIN nodeAddrs /\ First(k) BY <1>1, <2>2, <2>3
  <2>5. f \in DOMAIN nodeAddrs /\ First(f)
    <3> HIDE DEF First
    <3> QED BY <2>4
  <2>6. removeAddr(a) = RemoveAt(nodeAddrs, f) BY <1>3 DEF removeAddr
  <2>7. nodeAddrs[f] = a /\ f \in 1 .. Len(nodeAddrs) BY <1>1, <2>5
  <2> HIDE DEF f
  <2> QED BY <2>6, <2>7
<1> QED BY <1>2, <1>3

\* A node taken out of the maps comes in hand; an unknown address is an error.
LEMMA Unmaps ==
  ASSUME OrchestratorAssumption, Types, Threads, NEW c \in Client, Unmap(c)
  PROVE  LET a == th[c].addr IN
         /\ th[c].pc = "remove" /\ a \in Port
         /\ \/ /\ nodes[a] = None /\ UNCHANGED <<nodes, typed, nodeAddrs>>
               /\ Goto(c, Done(c)) /\ Done(c) \in Thread /\ GoesOn(c, Done(c))
            \/ /\ nodes[a] \in 1 .. Len(made)
               /\ nodes' = [nodes EXCEPT ![a] = None] /\ nodeAddrs' = removeAddr(a)
               /\ typed' \in [Protocol -> [Port -> 0 .. Len(made)]]
               /\ \A p \in Protocol, b \in Port : typed'[p][b] = IF b = a THEN None ELSE typed[p][b]
               /\ \E s \in Thread : /\ Goto(c, s) /\ s.pc = "deregister" /\ s.node = nodes[a] /\ s.addr = a
                                    /\ s.op = th[c].op /\ s.op # "idle"
<1>1. PICK s \in Thread : s = th[c] BY DEF Types
<1>2. s.pc = "remove" /\ s.addr \in Port /\ s.op # "idle"
  BY <1>1 DEF Unmap, At, Threads, ThreadOK, HasAddr
<1>3. Len(made) \in Nat BY LenProperties DEF Types
<1>4. CASE nodes[s.addr] = None
  <2>1. UNCHANGED <<nodes, typed, nodeAddrs>> /\ Goto(c, Done(c)) BY <1>1, <1>4 DEF Unmap
  <2>2. Done(c) \in Thread /\ GoesOn(c, Done(c)) BY <1>1, <1>2, EndsOK
  <2> QED BY <1>1, <1>2, <1>4, <2>1, <2>2
<1>5. CASE nodes[s.addr] # None
  <2>1. PICK a \in Port : a = s.addr BY <1>2
  <2>2. PICK i \in 1 .. Len(made) : i = nodes[a]
    <3>1. nodes[a] \in 0 .. Len(made) BY DEF Types
    <3> QED BY <1>3, <1>5, <2>1, <3>1 DEF None
  <2>3. /\ nodes' = [nodes EXCEPT ![a] = None] /\ nodeAddrs' = removeAddr(a)
        /\ typed' = [p \in Protocol |-> [typed[p] EXCEPT ![a] = None]]
        /\ Goto(c, [s EXCEPT !.pc = "deregister", !.node = i])
    BY <1>1, <1>5, <2>1, <2>2 DEF Unmap
  <2>4. typed \in [Protocol -> [Port -> 0 .. Len(made)]] /\ None \in 0 .. Len(made) BY <1>3 DEF Types, None
  <2>5. typed' \in [Protocol -> [Port -> 0 .. Len(made)]] BY <2>3, <2>4
  <2>6. \A p \in Protocol, b \in Port : typed'[p][b] = IF b = a THEN None ELSE typed[p][b] BY <2>3, <2>4
  <2>7. PICK t : t = [s EXCEPT !.pc = "deregister", !.node = i] OBVIOUS
  <2>8. t \in Thread /\ t.pc = "deregister" /\ t.node = i /\ t.addr = s.addr /\ t.op = s.op
    <3>1. i \in Nat BY <1>3
    <3> QED BY <2>7, <3>1 DEF Thread, Pcs
  <2> QED BY <1>1, <1>2, <2>1, <2>2, <2>3, <2>5, <2>6, <2>7, <2>8
<1> QED BY <1>4, <1>5

LEMMA UnmapStep ==
  ASSUME OrchestratorAssumption, IInv, NEW c \in Client, Unmap(c)
  PROVE  IInv'
<1>1. PICK a \in Port : a = th[c].addr BY Unmaps DEF IInv
<1>2. UNCHANGED <<made, portCounter, protocol, registry, doubled, crossed, firsts>> BY DEF Unmap
<1>3. made \in Seq(Made) /\ Len(made) \in Nat BY LenProperties DEF IInv, Types
<1>4. CASE /\ UNCHANGED <<nodes, typed, nodeAddrs>>
           /\ Goto(c, Done(c)) /\ Done(c) \in Thread /\ GoesOn(c, Done(c))
  <2>1. ThreadOK(Done(c), made, typed) /\ Done(c).pc \notin HasNode BY <1>4, GoesOnOK
  <2>2. Rest' /\ registry' \in [Port -> 0 .. Len(made)] BY <1>2, <1>4 DEF IInv, Types, Rest
  <2> QED BY <1>2, <1>4, <2>1, <2>2, QuietStep
<1>5. CASE /\ nodes[a] \in 1 .. Len(made)
           /\ nodes' = [nodes EXCEPT ![a] = None] /\ nodeAddrs' = removeAddr(a)
           /\ typed' \in [Protocol -> [Port -> 0 .. Len(made)]]
           /\ \A p \in Protocol, b \in Port : typed'[p][b] = IF b = a THEN None ELSE typed[p][b]
           /\ \E s \in Thread : /\ Goto(c, s) /\ s.pc = "deregister" /\ s.node = nodes[a] /\ s.addr = a
                                /\ s.op = th[c].op /\ s.op # "idle"
  <2>1. PICK s \in Thread : /\ Goto(c, s) /\ s.pc = "deregister" /\ s.node = nodes[a] /\ s.addr = a
                            /\ s.op # "idle"
    BY <1>5
  <2>2. PICK i \in 1 .. Len(made) : i = nodes[a] BY <1>5
  <2>3. i # None /\ None \in 0 .. Len(made) BY <1>3 DEF None
  <2>4. \A p \in Protocol, b \in Port : typed'[p][b] \in {None, typed[p][b]} /\ typed'[p][a] = None
    BY <1>5
  <2>5. th' \in [Client -> Thread] /\ th'[c] = s /\ \A d \in Client : d # c => th'[d] = th[d]
    BY <2>1, GoesTo DEF IInv, Types
  <2>6. Types'
    <3>1. nodes' \in [Port -> 0 .. Len(made)] BY <1>5, <2>3 DEF IInv, Types
    <3>2. nodeAddrs' \in Seq(Port)
      <4>1. nodeAddrs \in Seq(Port) BY DEF IInv, Types, Rest
      <4>2. nodeAddrs' = removeAddr(a) BY <1>5
      <4>3. CASE removeAddr(a) = nodeAddrs BY <4>1, <4>2, <4>3
      <4>4. CASE \E k \in 1 .. Len(nodeAddrs) : removeAddr(a) = RemoveAt(nodeAddrs, k)
        BY <4>1, <4>2, <4>4, Removes
      <4> QED BY <4>1, <4>3, <4>4, RemovesAddr
    <3> QED BY <1>2, <1>5, <2>5, <3>1, <3>2 DEF IInv, Types, Rest
  <2>7. made[i].addr = a /\ made[i].state = "runs"
    <3>1. made[i].addr = a /\ typed[made[i].protocol][a] = i BY <2>2, <2>3 DEF IInv, Maps
    <3>2. made[i].protocol \in Protocol
      <4>1. made[i] \in Made BY <1>3, ElementOfSeq
      <4> QED BY <4>1 DEF Made
    <3> QED BY <2>3, <3>1, <3>2 DEF IInv, Maps, Lists
  <2>8. ThreadOK(s, made, typed')
    BY <2>1, <2>2, <2>3, <2>4, <2>7 DEF ThreadOK, HasAddr, HasNode, Stops
  <2>9. Threads'
    <3>1. \A d \in Client \ {c} : th[d].pc \in HasNode => made'[th[d].node].state = "new"
      BY <1>2 DEF IInv, Threads, ThreadOK
    <3>2. ASSUME NEW d \in Client \ {c}, th[d].pc \in Stops
          PROVE  made'[th[d].node].state # "new" /\ \A p \in Protocol : typed'[p][th[d].addr] # th[d].node
      <4>1. /\ made[th[d].node].state # "new" /\ \A p \in Protocol : typed[p][th[d].addr] # th[d].node
            /\ th[d].node \in 1 .. Len(made) /\ th[d].addr \in Port
        BY <3>2 DEF IInv, Threads, ThreadOK, HasAddr, Stops
      <4>2. th[d].node # None BY <4>1 DEF None
      <4> QED BY <1>2, <2>4, <4>1, <4>2
    <3>3. Keeps(made, made') BY <1>2, <1>3 DEF Keeps
    <3> QED BY <1>2, <1>3, <2>1, <2>8, <3>1, <3>2, <3>3, ThreadsStep DEF IInv
  <2>10. Hands' BY <2>1, <2>5 DEF IInv, Hands, HasNode
  <2>11. Maps'
    <3>0. nodes \in [Port -> 0 .. Len(made)] BY DEF IInv, Types
    <3>1. ASSUME NEW b \in Port, nodes'[b] # None
          PROVE  made[nodes'[b]].addr = b /\ typed'[made[nodes'[b]].protocol][b] = nodes'[b]
      <4>1. b # a /\ nodes'[b] = nodes[b] BY <1>5, <3>0, <3>1
      <4>2. nodes[b] \in 1 .. Len(made) BY <1>3, <3>0, <3>1, <4>1 DEF None
      <4>3. made[nodes[b]] \in Made BY <1>3, <4>2, ElementOfSeq
      <4>4. made[nodes[b]].protocol \in Protocol BY <4>3 DEF Made
      <4>5. made[nodes[b]].addr = b /\ typed[made[nodes[b]].protocol][b] = nodes[b]
        BY <3>1, <4>1 DEF IInv, Maps
      <4> QED BY <1>5, <4>1, <4>4, <4>5
    <3>2. ASSUME NEW p \in Protocol, NEW b \in Port, typed'[p][b] # None
          PROVE  /\ made[typed'[p][b]].addr = b /\ made[typed'[p][b]].protocol = p
                 /\ made[typed'[p][b]].state = "runs" /\ nodes'[b] # None
      <4>1. b # a /\ typed'[p][b] = typed[p][b] BY <1>5, <3>2
      <4>2. nodes'[b] = nodes[b] BY <1>5, <3>0, <4>1
      <4> QED BY <3>2, <4>1, <4>2 DEF IInv, Maps, Lists
    <3> QED BY <1>2, <3>1, <3>2 DEF Maps, Lists
  <2> QED BY <2>6, <2>9, <2>10, <2>11 DEF IInv
<1> QED BY <1>1, <1>4, <1>5, Unmaps DEF IInv

LEMMA DeregisterStep ==
  ASSUME IInv, NEW c \in Client, Deregister(c)
  PROVE  IInv'
<1>1. PICK s \in Thread : s = th[c] BY DEF IInv, Types
<1>2. s.pc = "deregister" /\ ThreadOK(s, made, typed) BY <1>1 DEF Deregister, At, IInv, Threads
<1>3. PICK t : t = [s EXCEPT !.pc = "stop"] OBVIOUS
<1>4. t \in Thread /\ t.pc = "stop" /\ t.op = s.op /\ t.addr = s.addr /\ t.node = s.node
  BY <1>3 DEF Thread, Pcs
<1>5. Goto(c, t) BY <1>1, <1>3 DEF Deregister
<1>6. ThreadOK(t, made, typed) /\ t.pc \notin HasNode
  BY <1>2, <1>4 DEF ThreadOK, HasAddr, HasNode, Stops
<1>7. registry' \in [Port -> 0 .. Len(made)]
  <2>1. None \in 0 .. Len(made)
    <3>1. Len(made) \in Nat BY LenProperties DEF IInv, Types
    <3> QED BY <3>1 DEF None
  <2> QED BY <2>1 DEF Deregister, IInv, Types
<1>8. Rest' BY DEF Deregister, orch, IInv, Types, Rest
<1> QED BY <1>4, <1>5, <1>6, <1>7, <1>8, QuietStep DEF Deregister, orch

\* Which node is stopped: none that is listed.
LEMMA StopsNode ==
  ASSUME OrchestratorAssumption, IInv, NEW c \in Client, StopNode(c)
  PROVE  /\ th[c].pc = "stop" /\ th[c].node \in 1 .. Len(made) /\ made[th[c].node].state # "new"
         /\ made' = WithState(made, th[c].node, "stopped")
         /\ \A p \in Protocol, b \in Port : typed[p][b] # th[c].node
         /\ Goto(c, Done(c)) /\ Done(c) \in Thread /\ GoesOn(c, Done(c))
<1>1. th[c].pc = "stop" /\ ThreadOK(th[c], made, typed) BY DEF StopNode, At, IInv, Threads
<1>2. /\ th[c].node \in 1 .. Len(made) /\ made[th[c].node].state # "new" /\ th[c].op # "idle"
      /\ made[th[c].node].addr = th[c].addr
      /\ \A p \in Protocol : typed[p][th[c].addr] # th[c].node
  BY <1>1 DEF ThreadOK, Stops
<1>3. \A p \in Protocol, b \in Port : typed[p][b] # th[c].node
  <2> SUFFICES ASSUME NEW p \in Protocol, NEW b \in Port, typed[p][b] = th[c].node PROVE FALSE
    OBVIOUS
  <2>1. th[c].node # None BY <1>2 DEF None
  <2>2. made[typed[p][b]].addr = b BY <2>1 DEF IInv, Maps, Lists
  <2> QED BY <1>2, <2>2
<1>4. Done(c) \in Thread /\ GoesOn(c, Done(c)) BY <1>2, EndsOK DEF IInv
<1> QED BY <1>1, <1>2, <1>3, <1>4 DEF StopNode, WithState

LEMMA StopNodeStep ==
  ASSUME OrchestratorAssumption, IInv, NEW c \in Client, StopNode(c)
  PROVE  IInv'
<1>1. PICK i \in 1 .. Len(made) : i = th[c].node BY StopsNode
<1>2. /\ made[i].state # "new" /\ made' = WithState(made, i, "stopped")
      /\ \A p \in Protocol, b \in Port : typed[p][b] # i
      /\ Goto(c, Done(c)) /\ Done(c) \in Thread /\ GoesOn(c, Done(c))
  BY <1>1, StopsNode
<1>3. made \in Seq(Made) /\ Len(made) \in Nat BY LenProperties DEF IInv, Types
<1>4. made' \in Seq(Made) /\ Len(made') = Len(made) /\ Keeps(made, made')
      /\ \A j \in 1 .. Len(made) : made'[j].state = IF j = i THEN "stopped" ELSE made[j].state
  BY <1>2, <1>3, SetState
<1>5. th' \in [Client -> Thread] /\ th'[c] = Done(c) /\ \A d \in Client : d # c => th'[d] = th[d]
  BY <1>2, GoesTo DEF IInv, Types
<1>6. UNCHANGED <<nodes, typed, registry>> /\ Rest'
  BY DEF StopNode, orch, IInv, Types, Rest
<1>7. Types' BY <1>4, <1>5, <1>6 DEF IInv, Types
<1>8. Threads'
  <2>1. ASSUME NEW d \in Client \ {c}, th[d].pc \in HasNode PROVE made'[th[d].node].state = "new"
    <3>1. th[d].node \in 1 .. Len(made) /\ made[th[d].node].state = "new"
      BY <2>1 DEF IInv, Threads, ThreadOK
    <3> QED BY <1>2, <1>4, <3>1
  <2>2. ASSUME NEW d \in Client \ {c}, th[d].pc \in Stops
        PROVE  made'[th[d].node].state # "new" /\ \A p \in Protocol : typed'[p][th[d].addr] # th[d].node
    <3>1. /\ th[d].node \in 1 .. Len(made) /\ made[th[d].node].state # "new"
          /\ \A p \in Protocol : typed[p][th[d].addr] # th[d].node
      BY <2>2 DEF IInv, Threads, ThreadOK
    <3> QED BY <1>4, <1>6, <3>1
  <2>3. ThreadOK(Done(c), made', typed') BY <1>2, GoesOnOK
  <2> QED BY <1>2, <1>4, <2>1, <2>2, <2>3, ThreadsStep DEF IInv
<1>9. Hands'
  <2>1. Done(c).pc \notin HasNode BY <1>2, GoesOnOK
  <2> QED BY <1>5, <2>1 DEF IInv, Hands
<1>10. Maps'
  <2>1. ASSUME NEW b \in Port, nodes[b] # None
        PROVE  made'[nodes[b]].addr = b /\ typed[made'[nodes[b]].protocol][b] = nodes[b]
    <3>1. nodes[b] \in 1 .. Len(made)
      <4>1. nodes[b] \in 0 .. Len(made) BY DEF IInv, Types
      <4> QED BY <1>3, <2>1, <4>1 DEF None
    <3> QED BY <1>4, <2>1, <3>1 DEF IInv, Maps, Keeps
  <2>2. ASSUME NEW p \in Protocol, NEW b \in Port, typed[p][b] # None
        PROVE  /\ made'[typed[p][b]].addr = b /\ made'[typed[p][b]].protocol = p
               /\ made'[typed[p][b]].state = "runs" /\ nodes[b] # None
    <3>1. typed[p][b] \in 1 .. Len(made)
      <4>1. typed[p][b] \in 0 .. Len(made) BY DEF IInv, Types
      <4> QED BY <1>3, <2>2, <4>1 DEF None
    <3>2. /\ made[typed[p][b]].addr = b /\ made[typed[p][b]].protocol = p
          /\ made[typed[p][b]].state = "runs" /\ nodes[b] # None
      BY <2>2 DEF IInv, Maps, Lists
    <3> QED BY <1>2, <1>4, <3>1, <3>2 DEF Keeps
  <2> QED BY <1>6, <2>1, <2>2 DEF Maps, Lists
<1> QED BY <1>7, <1>8, <1>9, <1>10 DEF IInv

\* A reset stops what is listed and empties everything; nodes in hand live on.
LEMMA Resets ==
  ASSUME Types, Threads, NEW c \in Client, Reset(c)
  PROVE  /\ th[c].pc = "reset" /\ Switches(th[c])
         /\ made' \in Seq(Made) /\ Len(made') = Len(made) /\ Keeps(made, made')
         /\ \A i \in 1 .. Len(made) :
              /\ made'[i].network = made[i].network
              /\ IF \E p \in Protocol, a \in Port : typed[p][a] = i
                 THEN made'[i].state = "stopped" ELSE made'[i].state = made[i].state
         /\ registry' = [a \in Port |-> IF nodes[a] # None THEN None ELSE registry[a]]
         /\ nodes' = NoNodes /\ typed' = [p \in Protocol |-> NoNodes] /\ nodeAddrs' = <<>>
         /\ portCounter' = 1
         /\ \E s \in Thread : /\ Goto(c, s) /\ s.pc \in {"next", "config"} /\ s.op = th[c].op /\ Switches(s)
                              /\ s.op # "idle"
<1>1. PICK s \in Thread : s = th[c] BY DEF Types
<1>2. s.pc = "reset" /\ Switches(s) BY <1>1 DEF Reset, At, Threads, ThreadOK
<1>3. made \in Seq(Made) /\ Len(made) \in Nat /\ DOMAIN made = 1 .. Len(made) BY LenProperties DEF Types
<1> DEFINE all == {typed[p][a] : p \in Protocol, a \in Port}
           new(i) == IF i \in all THEN [made[i] EXCEPT !.state = "stopped"] ELSE made[i]
<1>4. made' = [i \in 1 .. Len(made) |-> new(i)] BY <1>3 DEF Reset
<1>5. ASSUME NEW i \in 1 .. Len(made)
      PROVE  /\ new(i) \in Made /\ new(i).addr = made[i].addr /\ new(i).protocol = made[i].protocol
             /\ (new(i).given <=> made[i].given) /\ new(i).network = made[i].network
             /\ new(i).state = IF i \in all THEN "stopped" ELSE made[i].state
  <2>1. made[i] \in Made BY <1>3, ElementOfSeq
  <2>2. CASE i \in all
    <3>1. new(i) = [made[i] EXCEPT !.state = "stopped"] BY <2>2
    <3> HIDE DEF new, all
    <3> QED BY <2>1, <2>2, <3>1 DEF Made
  <2>3. CASE i \notin all
    <3>1. new(i) = made[i] BY <2>3
    <3> HIDE DEF new, all
    <3> QED BY <2>1, <2>3, <3>1
  <2> QED BY <2>2, <2>3
<1>6. \A i \in 1 .. Len(made) : i \in all <=> \E p \in Protocol, a \in Port : typed[p][a] = i OBVIOUS
<1> HIDE DEF new, all
<1>7. made' \in Seq(Made) /\ Len(made') = Len(made)
  <2>1. made' \in [1 .. Len(made) -> Made] BY <1>4, <1>5
  <2> QED BY <1>3, <2>1
<1>8. \A i \in 1 .. Len(made) : made'[i] = new(i) BY <1>4
<1>9. Keeps(made, made') BY <1>3, <1>5, <1>7, <1>8 DEF Keeps
<1>10. \A i \in 1 .. Len(made) :
         /\ made'[i].network = made[i].network
         /\ IF \E p \in Protocol, a \in Port : typed[p][a] = i
            THEN made'[i].state = "stopped" ELSE made'[i].state = made[i].state
  BY <1>5, <1>6, <1>8
<1>11. registry' = [a \in Port |-> IF nodes[a] # None THEN None ELSE registry[a]] BY DEF Reset, Mapped
<1>12. PICK q \in {"next", "config"} : q = IF s.op = "reset" THEN "next" ELSE "config" OBVIOUS
<1>13. PICK t : t = [s EXCEPT !.pc = q] OBVIOUS
<1>14. t \in Thread /\ t.pc = q /\ t.op = s.op BY <1>13 DEF Thread, Pcs
<1>15. Goto(c, t) BY <1>1, <1>12, <1>13 DEF Reset
<1>16. Switches(t) /\ t.op # "idle" BY <1>2, <1>14 DEF Switches
<1> QED BY <1>1, <1>2, <1>7, <1>9, <1>10, <1>11, <1>14, <1>15, <1>16 DEF Reset, FirstPort

LEMMA ResetStep ==
  ASSUME OrchestratorAssumption, IInv, NEW c \in Client, Reset(c)
  PROVE  IInv'
<1>1. /\ made' \in Seq(Made) /\ Len(made') = Len(made) /\ Keeps(made, made')
      /\ \A i \in 1 .. Len(made) :
           IF \E p \in Protocol, a \in Port : typed[p][a] = i
           THEN made'[i].state = "stopped" ELSE made'[i].state = made[i].state
      /\ registry' = [a \in Port |-> IF nodes[a] # None THEN None ELSE registry[a]]
      /\ nodes' = NoNodes /\ typed' = [p \in Protocol |-> NoNodes] /\ nodeAddrs' = <<>>
      /\ portCounter' = 1
  BY Resets DEF IInv
<1>2. PICK s \in Thread : Goto(c, s) /\ s.pc \in {"next", "config"} /\ Switches(s) /\ s.op # "idle"
  BY Resets DEF IInv
<1>3. Len(made) \in Nat BY LenProperties DEF IInv, Types
<1>4. th' \in [Client -> Thread] /\ th'[c] = s /\ \A d \in Client : d # c => th'[d] = th[d]
  BY <1>2, GoesTo DEF IInv, Types
<1>5. \A p \in Protocol, b \in Port : typed'[p][b] = None BY <1>1 DEF NoNodes
<1>6. \A b \in Port : nodes'[b] = None BY <1>1 DEF NoNodes
<1>7. Types'
  <2>1. None \in 0 .. Len(made) BY <1>3 DEF None
  <2>2. NoNodes \in [Port -> 0 .. Len(made)] BY <2>1 DEF NoNodes
  <2>3. registry' \in [Port -> 0 .. Len(made)] BY <1>1, <2>1 DEF IInv, Types
  <2>4. nodeAddrs' \in Seq(Port) BY <1>1, EmptySeq
  <2>5. portCounter' \in 1 .. MaxPort + 1 BY <1>1 DEF OrchestratorAssumption
  <2>6. Rest' BY <2>4, <2>5 DEF Reset, IInv, Types, Rest
  <2> QED BY <1>1, <1>4, <2>2, <2>3, <2>6 DEF Types
<1>8. Threads'
  <2>1. ASSUME NEW d \in Client \ {c}, th[d].pc \in HasNode PROVE made'[th[d].node].state = "new"
    <3>1. th[d].node \in 1 .. Len(made) /\ made[th[d].node].state = "new"
      BY <2>1 DEF IInv, Threads, ThreadOK
    <3>2. th[d].node # None BY <3>1 DEF None
    <3>3. \A p \in Protocol, a \in Port : typed[p][a] # th[d].node
      BY <3>1, <3>2 DEF IInv, Maps, Lists
    <3> QED BY <1>1, <3>1, <3>3
  <2>2. ASSUME NEW d \in Client \ {c}, th[d].pc \in Stops
        PROVE  made'[th[d].node].state # "new" /\ \A p \in Protocol : typed'[p][th[d].addr] # th[d].node
    <3>1. /\ th[d].node \in 1 .. Len(made) /\ made[th[d].node].state # "new" /\ th[d].addr \in Port
      BY <2>2 DEF IInv, Threads, ThreadOK, HasAddr, Stops
    <3>2. th[d].node # None BY <3>1 DEF None
    <3>3. made'[th[d].node].state # "new" BY <1>1, <3>1
    <3> QED BY <1>5, <3>1, <3>2, <3>3
  <2>3. ThreadOK(s, made', typed') BY <1>2 DEF ThreadOK, HasAddr, HasNode, Stops
  <2> QED BY <1>1, <1>2, <2>1, <2>2, <2>3, ThreadsStep DEF IInv
<1>9. Hands' BY <1>2, <1>4 DEF IInv, Hands, HasNode
<1>10. Maps' BY <1>5, <1>6 DEF Maps, Lists
<1> QED BY <1>7, <1>8, <1>9, <1>10 DEF IInv

\* The configuration a request writes back is the one it read.
LEMMA Updates ==
  ASSUME Types, Threads, NEW c \in Client, UpdateConfig(c)
  PROVE  /\ th[c].pc = "config" /\ Switches(th[c]) /\ protocol' = th[c].protocol /\ protocol' \in Protocol
         /\ \E s \in Thread : Goto(c, s) /\ s.pc = "next" /\ s.op = th[c].op /\ s.op # "idle"
<1>1. PICK s \in Thread : s = th[c] BY DEF Types
<1>2. s.pc = "config" /\ Switches(s) BY <1>1 DEF UpdateConfig, At, Threads, ThreadOK
<1>3. PICK t : t = [s EXCEPT !.pc = "next"] OBVIOUS
<1>4. t \in Thread /\ t.pc = "next" /\ t.op = s.op BY <1>3 DEF Thread, Pcs
<1>5. Goto(c, t) /\ protocol' = s.protocol BY <1>1, <1>3 DEF UpdateConfig
<1>6. s.protocol \in Protocol /\ s.op # "idle" BY <1>2 DEF Thread, Switches
<1> QED BY <1>1, <1>2, <1>4, <1>5, <1>6

LEMMA UpdateConfigStep ==
  ASSUME IInv, NEW c \in Client, UpdateConfig(c)
  PROVE  IInv'
<1>1. PICK s \in Thread : Goto(c, s) /\ s.pc = "next" /\ s.op # "idle" BY Updates DEF IInv
<1>2. protocol' \in Protocol BY Updates DEF IInv
<1>3. ThreadOK(s, made, typed) /\ s.pc \notin HasNode BY <1>1 DEF ThreadOK, HasAddr, HasNode, Stops
<1>4. Rest' /\ registry' \in [Port -> 0 .. Len(made)] BY <1>2 DEF UpdateConfig, IInv, Types, Rest
<1> QED BY <1>1, <1>3, <1>4, QuietStep DEF UpdateConfig

LEMMA Inductive == OrchestratorAssumption /\ IInv /\ [Next]_vars => IInv'
<1> SUFFICES ASSUME OrchestratorAssumption, IInv, [Next]_vars PROVE IInv'
  OBVIOUS
<1>1. ASSUME NEW c \in Client, NEW r \in Requests,
             \/ spawnNode(c, r) \/ removeNode(c, r) \/ resetNetwork(c, r) \/ startNetwork(c, r)
             \/ updateConfig(c, r)
             \/ ScenarioBootstrap(c, r) \/ ScenarioBenchmark(c, r) \/ ScenarioChurn(c, r)
      PROVE  IInv'
  <2>1. PICK s \in Thread : Begins(s) /\ Accept(c, r, s) BY <1>1, Comes DEF IInv
  <2> QED BY <2>1, AcceptStep
<1>2. ASSUME HealPartition \/ \E r \in Requests : SetPartition(r) PROVE IInv' BY <1>2, PartitionStep
<1>3. ASSUME NEW c \in Client,
             \/ Continue(c)
             \/ TakeAddr(c) \/ Check(c) \/ Make(c) \/ Bootstrap(c)
             \/ Join(c) \/ JoinFails(c) \/ JoinAlone(c) \/ Publish(c)
             \/ Unmap(c) \/ Deregister(c) \/ StopNode(c) \/ Reset(c) \/ UpdateConfig(c)
      PROVE  IInv'
  BY <1>3, ContinueStep, TakeAddrStep, CheckStep, MakeStep, BootstrapStep, JoinStep, JoinFailsStep,
     JoinAloneStep, PublishStep, UnmapStep, DeregisterStep, StopNodeStep, ResetStep, UpdateConfigStep
<1>4. CASE UNCHANGED vars
  BY <1>4 DEF vars, orch, IInv, Types, Rest, Threads, Hands, Maps, Lists
<1> QED BY <1>1, <1>2, <1>3, <1>4 DEF Next

LEMMA Invariant == Spec => []IInv
<1>1. Init => IInv BY OrchestratorAssumption, InitIInv
<1>2. IInv /\ [Next]_vars => IInv' BY OrchestratorAssumption, Inductive
<1> QED BY <1>1, <1>2, PTL DEF Spec

\* TypeOK: the maps agree with each other and with the addresses and protocols of
\* the nodes they name, whatever requests overlap.
THEOREM TypeCorrect == Spec => []TypeOK
<1>1. IInv => TypeOK
  <2> SUFFICES ASSUME IInv PROVE TypeOK OBVIOUS
  <2>1. made \in Seq(Made) /\ Len(made) \in Nat /\ DOMAIN made = 1 .. Len(made)
    BY LenProperties DEF IInv, Types
  <2>2. Node \cup {None} = 0 .. Len(made) BY <2>1 DEF Node, None
  <2>3. \A a \in Mapped : made[nodes[a]].addr = a /\ typed[made[nodes[a]].protocol][a] = nodes[a]
    BY DEF IInv, Maps, Mapped
  <2>4. \A p \in Protocol, a \in Port : typed[p][a] # None => made[typed[p][a]].protocol = p
    BY DEF IInv, Maps, Lists
  <2> QED BY <2>2, <2>3, <2>4 DEF IInv, Types, Rest, TypeOK
<1> QED BY <1>1, Invariant, PTL

\* ListedRun: SpawnNode publishes a node after it has started it, and KillNode and
\* CrashNode stop one after they have unlisted it; no request comes between.
THEOREM ListedNodesRun == Spec => []ListedRun
<1>1. IInv => ListedRun BY DEF IInv, Maps, Lists, ListedRun
<1> QED BY <1>1, Invariant, PTL

-----------------------------------------------------------------------------
(* One story: as long as no address is in two hands, the maps, the registry  *)
(* and the running nodes agree; and as long as no reset or reconfiguration   *)
(* overlaps another request, the counter gives no address twice.             *)

Running(s) == s.op # "idle"

Apart ==
  ~crossed => \A c, d \in Client : c # d /\ Running(th[c]) /\ Running(th[d]) => ~Switches(th[c])

\* A spawn on its way at an address of the counter.
Counted(s) == s.op # "spawnAt" /\ s.pc \in {"check", "make"} \cup HasNode

\* The addresses given out are used by one request or node each.
Counter ==
  ~crossed =>
    /\ \A c \in Client : Counted(th[c]) => th[c].addr < portCounter
    /\ \A c, d \in Client : c # d /\ Counted(th[c]) /\ Counted(th[d]) => th[c].addr # th[d].addr
    /\ \A d \in Client : th[d].pc \in Stops /\ ~made[th[d].node].given =>
         /\ th[d].addr < portCounter
         /\ \A c \in Client : Counted(th[c]) => th[c].addr # th[d].addr
    /\ \A a \in Port : nodes[a] # None /\ ~made[nodes[a]].given =>
         /\ a < portCounter
         /\ \A c \in Client : Counted(th[c]) => th[c].addr # a

Ledger == Apart /\ Counter

\* The nodes that are mapped or in hand exist.
LEMMA InRange ==
  ASSUME IInv
  PROVE  /\ made \in Seq(Made) /\ Len(made) \in Nat
         /\ \A a \in Port : nodes[a] # None => nodes[a] \in 1 .. Len(made)
         /\ \A a \in Port : registry[a] # None => registry[a] \in 1 .. Len(made)
         /\ \A d \in Client : th[d].pc \in HasNode \cup Stops =>
              th[d].node \in 1 .. Len(made) /\ made[th[d].node].addr = th[d].addr /\ th[d].addr \in Port
         /\ \A d \in Client : th[d].pc \in HasAddr => th[d].addr \in Port
<1>1. made \in Seq(Made) /\ Len(made) \in Nat BY LenProperties DEF IInv, Types
<1>2. \A a \in Port : nodes[a] # None => nodes[a] \in 1 .. Len(made) BY <1>1 DEF IInv, Types, None
<1>3. \A a \in Port : registry[a] # None => registry[a] \in 1 .. Len(made) BY <1>1 DEF IInv, Types, None
<1>4. \A d \in Client : th[d].pc \in HasNode \cup Stops =>
        th[d].node \in 1 .. Len(made) /\ made[th[d].node].addr = th[d].addr /\ th[d].addr \in Port
  BY DEF IInv, Threads, ThreadOK, HasNode, HasAddr, Stops
<1>5. \A d \in Client : th[d].pc \in HasAddr => th[d].addr \in Port BY DEF IInv, Threads, ThreadOK
<1> QED BY <1>1, <1>2, <1>3, <1>4, <1>5

LEMMA ApartKept ==
  ASSUME IInv, Apart, NEW c \in Client, NEW s \in Thread, Goto(c, s), s.op \in {th[c].op, "idle"},
         crossed' = crossed
  PROVE  Apart'
<1>1. th'[c] = s /\ \A d \in Client : d # c => th'[d] = th[d] BY GoesTo DEF IInv, Types
<1>2. Running(s) => Running(th[c]) BY DEF Running
<1>3. Running(s) /\ Switches(s) => Switches(th[c]) BY DEF Running, Switches
<1> QED BY <1>1, <1>2, <1>3 DEF Apart

\* A step that takes no address from the counter and publishes or unmaps nothing.
LEMMA CounterKept ==
  ASSUME IInv, Counter, NEW c \in Client, NEW s \in Thread, Goto(c, s),
         Counted(s) => Counted(th[c]) /\ s.addr = th[c].addr,
         s.pc \in Stops => th[c].pc \in Stops /\ s.node = th[c].node /\ s.addr = th[c].addr,
         Keeps(made, made'), UNCHANGED <<nodes, crossed, portCounter>>
  PROVE  Counter'
<1>1. th'[c] = s /\ \A d \in Client : d # c => th'[d] = th[d] BY GoesTo DEF IInv, Types
<1> SUFFICES ASSUME ~crossed PROVE
    /\ \A d \in Client : Counted(th'[d]) => th'[d].addr < portCounter
    /\ \A e, d \in Client : e # d /\ Counted(th'[e]) /\ Counted(th'[d]) => th'[e].addr # th'[d].addr
    /\ \A d \in Client : th'[d].pc \in Stops /\ ~made'[th'[d].node].given =>
         /\ th'[d].addr < portCounter
         /\ \A e \in Client : Counted(th'[e]) => th'[e].addr # th'[d].addr
    /\ \A a \in Port : nodes[a] # None /\ ~made'[nodes[a]].given =>
         /\ a < portCounter
         /\ \A e \in Client : Counted(th'[e]) => th'[e].addr # a
  BY DEF Counter
<1>2. \A d \in Client : Counted(th'[d]) => Counted(th[d]) /\ th'[d].addr = th[d].addr BY <1>1
<1>3. \A d \in Client : th'[d].pc \in Stops =>
        th[d].pc \in Stops /\ th'[d].node = th[d].node /\ th'[d].addr = th[d].addr
  BY <1>1
<1>4. \A i \in 1 .. Len(made) : made'[i].given <=> made[i].given BY DEF Keeps
<1>5. \A d \in Client : th[d].pc \in Stops => th[d].node \in 1 .. Len(made) BY InRange
<1>6. \A a \in Port : nodes[a] # None => nodes[a] \in 1 .. Len(made) BY InRange
<1>7. \A d \in Client : Counted(th'[d]) => th'[d].addr < portCounter BY <1>2 DEF Counter
<1>8. \A e, d \in Client : e # d /\ Counted(th'[e]) /\ Counted(th'[d]) => th'[e].addr # th'[d].addr
  BY <1>2 DEF Counter
<1>9. ASSUME NEW d \in Client, th'[d].pc \in Stops, ~made'[th'[d].node].given
      PROVE  /\ th'[d].addr < portCounter
             /\ \A e \in Client : Counted(th'[e]) => th'[e].addr # th'[d].addr
  <2>1. th[d].pc \in Stops /\ th'[d].node = th[d].node /\ th'[d].addr = th[d].addr BY <1>3, <1>9
  <2>2. ~made[th[d].node].given BY <1>4, <1>5, <1>9, <2>1
  <2>3. th[d].addr < portCounter /\ \A e \in Client : Counted(th[e]) => th[e].addr # th[d].addr
    BY <2>1, <2>2 DEF Counter
  <2> QED BY <1>2, <2>1, <2>3
<1>10. ASSUME NEW a \in Port, nodes[a] # None, ~made'[nodes[a]].given
       PROVE  /\ a < portCounter
              /\ \A e \in Client : Counted(th'[e]) => th'[e].addr # a
  <2>1. ~made[nodes[a]].given BY <1>4, <1>6, <1>10
  <2> QED BY <1>2, <1>10, <2>1 DEF Counter
<1> QED BY <1>7, <1>8, <1>9, <1>10

LEMMA KeepsSame == ASSUME IInv, made' = made PROVE Keeps(made, made')
<1>1. Len(made) \in Nat BY InRange
<1> QED BY <1>1 DEF Keeps

LEMMA AcceptLedger ==
  ASSUME IInv, Ledger, NEW c \in Client, NEW r \in Requests, NEW s \in Thread, Begins(s), Accept(c, r, s)
  PROVE  Ledger'
<1>1. th' \in [Client -> Thread] /\ th'[c] = s /\ \A d \in Client : d # c => th'[d] = th[d]
  BY GoesTo DEF IInv, Types, Accept
<1>2. crossed' <=> crossed \/ Clash(c, s) BY DEF Accept
<1>3. th[c].op = "idle" BY DEF Accept, Busy
<1>4. Apart'
  <2> SUFFICES ASSUME ~crossed', NEW e \in Client, NEW d \in Client, e # d, Running(th'[e]), Running(th'[d])
               PROVE  ~Switches(th'[e])
    BY DEF Apart
  <2>1. ~crossed /\ \A b \in Client \ {c} : th[b].op # "idle" => ~Switches(s) /\ ~Switches(th[b])
    BY <1>2 DEF Clash, Busy
  <2> QED BY <1>1, <2>1 DEF Apart, Running
<1>5. CASE crossed' = crossed
  <2>1. ~Counted(s) /\ s.pc \notin Stops BY DEF Begins, Counted, HasNode, Stops
  <2>2. UNCHANGED <<made, nodes, portCounter>> /\ Goto(c, s) BY DEF Accept, orch
  <2>3. Keeps(made, made') BY <2>2, KeepsSame
  <2>4. Counter' BY <1>5, <2>1, <2>2, <2>3, CounterKept DEF Ledger
  <2> QED BY <1>4, <2>4 DEF Ledger
<1>6. CASE crossed'
  BY <1>4, <1>6 DEF Ledger, Counter
<1> QED
  <2>1. crossed \in BOOLEAN /\ crossed' \in BOOLEAN BY <1>2 DEF IInv, Types, Rest, Accept, Clash
  <2> QED BY <1>2, <1>5, <1>6, <2>1

\* A step of a request that ends a thing or goes on with another.
LEMMA QuietLedger ==
  ASSUME IInv, Ledger, NEW c \in Client, NEW s \in Thread, Goto(c, s), GoesOn(c, s),
         Keeps(made, made'), UNCHANGED <<nodes, crossed, portCounter>>
  PROVE  Ledger'
<1>1. ~Counted(s) /\ s.pc \notin Stops BY DEF GoesOn, Counted, HasNode, Stops
<1>2. s.op \in {th[c].op, "idle"} BY DEF GoesOn
<1>3. Apart' BY <1>2, ApartKept DEF Ledger
<1>4. Counter' BY <1>1, CounterKept DEF Ledger
<1> QED BY <1>3, <1>4 DEF Ledger

\* A step of a spawn that stays at its address, or of a removal.
LEMMA SameLedger ==
  ASSUME IInv, Ledger, NEW c \in Client, NEW s \in Thread, Goto(c, s),
         s.op = th[c].op, s.addr = th[c].addr,
         \/ th[c].pc \in {"check", "make"} \cup HasNode /\ s.pc \in {"make"} \cup HasNode
         \/ th[c].pc \in Stops /\ s.pc \in Stops /\ s.node = th[c].node,
         Keeps(made, made'), UNCHANGED <<nodes, crossed, portCounter>>
  PROVE  Ledger'
<1>1. Counted(s) => Counted(th[c]) BY DEF Counted, HasNode, Stops
<1>2. s.pc \in Stops => th[c].pc \in Stops /\ s.node = th[c].node BY DEF HasNode, Stops
<1>3. Apart' BY ApartKept DEF Ledger
<1>4. Counter' BY <1>1, <1>2, CounterKept DEF Ledger
<1> QED BY <1>3, <1>4 DEF Ledger

LEMMA TakeAddrLedger ==
  ASSUME OrchestratorAssumption, IInv, Ledger, NEW c \in Client, TakeAddr(c)
  PROVE  Ledger'
<1>1. PICK s \in Thread :
        /\ Goto(c, s) /\ s.pc = "check" /\ s.op = th[c].op
        /\ \/ s.op = "spawnAt" /\ portCounter' \in {portCounter, portCounter + 1}
           \/ s.addr = portCounter /\ portCounter' = portCounter + 1
  BY TakesAddr DEF IInv
<1>2. th'[c] = s /\ \A d \in Client : d # c => th'[d] = th[d] BY <1>1, GoesTo DEF IInv, Types
<1>3. UNCHANGED <<made, nodes, crossed>> BY DEF TakeAddr
<1>4. Apart' BY <1>1, <1>3, ApartKept DEF Ledger
<1>5. portCounter \in Nat /\ portCounter' \in Nat /\ portCounter <= portCounter'
  <2>1. portCounter \in Nat BY DEF IInv, Types, Rest
  <2> QED BY <1>1, <2>1
<1>6. \A d \in Client : th[d].pc \in HasAddr => th[d].addr \in Nat BY InRange DEF Port
<1>7. \A d \in Client : Counted(th[d]) \/ th[d].pc \in Stops => th[d].pc \in HasAddr
  BY DEF Counted, HasNode, HasAddr, Stops
<1>8. \A a \in Port : a \in Nat BY DEF Port
<1>9. s.pc \notin Stops BY <1>1 DEF Stops
<1>10. Counted(s) => s.addr = portCounter /\ portCounter' = portCounter + 1 BY <1>1 DEF Counted
<1>11. ASSUME ~crossed PROVE \A d \in Client : Counted(th'[d]) => th'[d].addr < portCounter'
  BY <1>2, <1>5, <1>6, <1>7, <1>10, <1>11 DEF Ledger, Counter
<1>12. ASSUME ~crossed, NEW e \in Client, NEW d \in Client, e # d, Counted(th'[e]), Counted(th'[d])
       PROVE  th'[e].addr # th'[d].addr
  <2>1. CASE e # c /\ d # c BY <1>2, <1>12, <2>1 DEF Ledger, Counter
  <2>2. CASE e = c
    <3>1. s.addr = portCounter /\ th'[e].addr = portCounter BY <1>2, <1>10, <1>12, <2>2
    <3>2. th'[d] = th[d] /\ th[d].addr < portCounter /\ th[d].addr \in Nat
      BY <1>2, <1>6, <1>7, <1>12, <2>2 DEF Ledger, Counter
    <3> QED BY <1>5, <3>1, <3>2
  <2>3. CASE d = c
    <3>1. s.addr = portCounter /\ th'[d].addr = portCounter BY <1>2, <1>10, <1>12, <2>3
    <3>2. th'[e] = th[e] /\ th[e].addr < portCounter /\ th[e].addr \in Nat
      BY <1>2, <1>6, <1>7, <1>12, <2>3 DEF Ledger, Counter
    <3> QED BY <1>5, <3>1, <3>2
  <2> QED BY <2>1, <2>2, <2>3
<1>13. ASSUME ~crossed, NEW d \in Client, th'[d].pc \in Stops, ~made[th'[d].node].given
       PROVE  /\ th'[d].addr < portCounter'
              /\ \A e \in Client : Counted(th'[e]) => th'[e].addr # th'[d].addr
  <2>1. d # c /\ th'[d] = th[d] BY <1>2, <1>9, <1>13
  <2>2. th[d].addr < portCounter /\ \A e \in Client : Counted(th[e]) => th[e].addr # th[d].addr
    BY <1>13, <2>1 DEF Ledger, Counter
  <2>3. th[d].addr \in Nat BY <1>6, <1>7, <1>13, <2>1
  <2> QED BY <1>2, <1>5, <1>10, <2>1, <2>2, <2>3
<1>14. ASSUME ~crossed, NEW a \in Port, nodes[a] # None, ~made[nodes[a]].given
       PROVE  /\ a < portCounter'
              /\ \A e \in Client : Counted(th'[e]) => th'[e].addr # a
  <2>1. a < portCounter /\ \A e \in Client : Counted(th[e]) => th[e].addr # a
    BY <1>14 DEF Ledger, Counter
  <2> QED BY <1>2, <1>5, <1>8, <1>10, <2>1
<1>15. Counter' BY <1>3, <1>11, <1>12, <1>13, <1>14 DEF Counter
<1> QED BY <1>4, <1>15 DEF Ledger

LEMMA PublishLedger ==
  ASSUME OrchestratorAssumption, IInv, Ledger, NEW c \in Client, Publish(c)
  PROVE  Ledger'
<1>1. PICK i \in 1 .. Len(made), a \in Port : i = th[c].node /\ a = th[c].addr
  BY Publishes DEF IInv
<1>2. /\ th[c].pc = "publish" /\ made' = WithState(made, i, "runs") /\ nodes' = [nodes EXCEPT ![a] = i]
      /\ Goto(c, Done(c)) /\ Done(c) \in Thread /\ GoesOn(c, Done(c))
  BY <1>1, Publishes DEF IInv
<1>3. Keeps(made, made') BY <1>2, SetState DEF IInv, Types
<1>4. th'[c] = Done(c) /\ \A d \in Client : d # c => th'[d] = th[d] BY <1>2, GoesTo DEF IInv, Types
<1>5. UNCHANGED <<crossed, portCounter>> BY DEF Publish
<1>6. ~Counted(Done(c)) /\ Done(c).pc \notin Stops BY <1>2 DEF GoesOn, Counted, HasNode, Stops
<1>7. Done(c).op \in {th[c].op, "idle"} BY <1>2 DEF GoesOn
<1>8. Apart' BY <1>2, <1>5, <1>7, ApartKept DEF Ledger
<1>9. /\ \A j \in 1 .. Len(made) : made'[j].given <=> made[j].given
      /\ \A d \in Client : th[d].pc \in Stops => th[d].node \in 1 .. Len(made)
      /\ \A b \in Port : nodes[b] # None => nodes[b] \in 1 .. Len(made)
  BY <1>3, InRange DEF Keeps
<1>10. \A d \in Client : Counted(th'[d]) \/ th'[d].pc \in Stops => d # c /\ th'[d] = th[d] BY <1>4, <1>6
<1>11. ASSUME ~crossed, NEW b \in Port, nodes'[b] # None, ~made'[nodes'[b]].given
       PROVE  b < portCounter /\ \A d \in Client : Counted(th'[d]) => th'[d].addr # b
  <2>0. nodes \in [Port -> 0 .. Len(made)] BY DEF IInv, Types
  <2>1. CASE b = a
    <3>1. nodes'[b] = i BY <1>2, <2>0, <2>1
    <3>2. ~made[i].given BY <1>9, <1>11, <3>1
    <3>3. made[i].given <=> th[c].op = "spawnAt"
      BY <1>1, <1>2 DEF IInv, Threads, ThreadOK, HasNode
    <3>4. Counted(th[c]) BY <1>2, <3>2, <3>3 DEF Counted, HasNode
    <3>5. a < portCounter /\ \A d \in Client : d # c /\ Counted(th[d]) => th[d].addr # a
      BY <1>1, <1>11, <3>4 DEF Ledger, Counter
    <3> QED BY <1>10, <2>1, <3>5
  <2>2. CASE b # a
    <3>1. nodes'[b] = nodes[b] BY <1>2, <2>0, <2>2
    <3>2. nodes[b] # None /\ ~made[nodes[b]].given BY <1>9, <1>11, <3>1
    <3> QED BY <1>10, <1>11, <3>2 DEF Ledger, Counter
  <2> QED BY <2>1, <2>2
<1>12. ASSUME ~crossed, NEW d \in Client, th'[d].pc \in Stops, ~made'[th'[d].node].given
       PROVE  /\ th'[d].addr < portCounter
              /\ \A e \in Client : Counted(th'[e]) => th'[e].addr # th'[d].addr
  <2>1. th'[d] = th[d] BY <1>10, <1>12
  <2>2. ~made[th[d].node].given BY <1>9, <1>12, <2>1
  <2> QED BY <1>10, <1>12, <2>1, <2>2 DEF Ledger, Counter
<1>13. Counter' BY <1>5, <1>10, <1>11, <1>12 DEF Ledger, Counter
<1> QED BY <1>8, <1>13 DEF Ledger

LEMMA UnmapLedger ==
  ASSUME OrchestratorAssumption, IInv, Ledger, NEW c \in Client, Unmap(c)
  PROVE  Ledger'
<1>1. PICK a \in Port : a = th[c].addr BY Unmaps DEF IInv
<1>2. UNCHANGED <<made, portCounter, crossed>> BY DEF Unmap
<1>3. Keeps(made, made') BY <1>2, KeepsSame
<1>4. CASE UNCHANGED nodes /\ Goto(c, Done(c)) /\ Done(c) \in Thread /\ GoesOn(c, Done(c))
  BY <1>2, <1>3, <1>4, QuietLedger
<1>5. CASE /\ nodes[a] \in 1 .. Len(made) /\ nodes' = [nodes EXCEPT ![a] = None]
           /\ \E s \in Thread : /\ Goto(c, s) /\ s.pc = "deregister" /\ s.node = nodes[a] /\ s.addr = a
                                /\ s.op = th[c].op
  <2>1. PICK s \in Thread : Goto(c, s) /\ s.pc = "deregister" /\ s.node = nodes[a] /\ s.addr = a /\ s.op = th[c].op
    BY <1>5
  <2>2. th'[c] = s /\ \A d \in Client : d # c => th'[d] = th[d] BY <2>1, GoesTo DEF IInv, Types
  <2>3. Apart' BY <1>2, <2>1, ApartKept DEF Ledger
  <2>4. ~Counted(s) BY <2>1 DEF Counted, HasNode
  <2>5. \A d \in Client : Counted(th'[d]) => d # c /\ th'[d] = th[d] BY <2>2, <2>4
  <2>6. nodes[a] # None BY <1>5 DEF None
  <2>7. nodes \in [Port -> 0 .. Len(made)] BY DEF IInv, Types
  <2>8. \A b \in Port : nodes'[b] # None => nodes[b] = nodes'[b] BY <1>5, <2>7
  <2>9. ASSUME ~crossed, NEW d \in Client, th'[d].pc \in Stops, ~made[th'[d].node].given
        PROVE  /\ th'[d].addr < portCounter
               /\ \A e \in Client : Counted(th'[e]) => th'[e].addr # th'[d].addr
    <3>1. CASE d = c
      <4>1. ~made[nodes[a]].given BY <2>1, <2>2, <2>9, <3>1
      <4>2. a < portCounter /\ \A e \in Client : Counted(th[e]) => th[e].addr # a
        BY <2>6, <2>9, <4>1 DEF Ledger, Counter
      <4> QED BY <2>1, <2>2, <2>5, <3>1, <4>2
    <3>2. CASE d # c
      <4>1. th'[d] = th[d] BY <2>2, <3>2
      <4>2. th[d].addr < portCounter /\ \A e \in Client : Counted(th[e]) => th[e].addr # th[d].addr
        BY <2>9, <4>1 DEF Ledger, Counter
      <4> QED BY <2>5, <4>1, <4>2
    <3> QED BY <3>1, <3>2
  <2>10. ASSUME ~crossed, NEW b \in Port, nodes'[b] # None, ~made[nodes'[b]].given
         PROVE  b < portCounter /\ \A e \in Client : Counted(th'[e]) => th'[e].addr # b
    <3>1. nodes[b] # None /\ ~made[nodes[b]].given BY <2>8, <2>10
    <3> QED BY <2>5, <2>10, <3>1 DEF Ledger, Counter
  <2>11. Counter' BY <1>2, <2>5, <2>9, <2>10 DEF Ledger, Counter
  <2> QED BY <2>3, <2>11 DEF Ledger
<1> QED BY <1>1, <1>4, <1>5, Unmaps DEF IInv

\* A reset that overlaps nothing is alone, so the counter may start again.
LEMMA ResetLedger ==
  ASSUME OrchestratorAssumption, IInv, Ledger, NEW c \in Client, Reset(c)
  PROVE  Ledger'
<1>1. nodes' = NoNodes /\ Switches(th[c]) BY Resets DEF IInv
<1>2. PICK s \in Thread : Goto(c, s) /\ s.pc \in {"next", "config"} /\ s.op = th[c].op BY Resets DEF IInv
<1>3. crossed' = crossed BY DEF Reset
<1>4. th'[c] = s /\ \A d \in Client : d # c => th'[d] = th[d] BY <1>2, GoesTo DEF IInv, Types
<1>5. Apart' BY <1>2, <1>3, ApartKept DEF Ledger
<1>6. ASSUME ~crossed, NEW d \in Client PROVE ~Counted(th'[d]) /\ th'[d].pc \notin Stops
  <2>1. CASE d = c BY <1>2, <1>4, <2>1 DEF Counted, HasNode, Stops
  <2>2. CASE d # c
    <3>1. Running(th[c]) BY <1>1 DEF Switches, Running
    <3>2. ~Running(th[d]) BY <1>1, <1>6, <2>2, <3>1 DEF Ledger, Apart
    <3>3. th[d].pc = "idle" BY <3>2 DEF IInv, Threads, ThreadOK, Running
    <3> QED BY <1>4, <2>2, <3>3 DEF Counted, HasNode, Stops
  <2> QED BY <2>1, <2>2
<1>7. \A b \in Port : nodes'[b] = None BY <1>1 DEF NoNodes
<1>8. Counter' BY <1>3, <1>6, <1>7 DEF Counter
<1> QED BY <1>5, <1>8 DEF Ledger

LEMMA LedgerNext == OrchestratorAssumption /\ IInv /\ Ledger /\ [Next]_vars => Ledger'
<1> SUFFICES ASSUME OrchestratorAssumption, IInv, Ledger, [Next]_vars PROVE Ledger'
  OBVIOUS
<1>1. ASSUME NEW c \in Client, NEW r \in Requests,
             \/ spawnNode(c, r) \/ removeNode(c, r) \/ resetNetwork(c, r) \/ startNetwork(c, r)
             \/ updateConfig(c, r)
             \/ ScenarioBootstrap(c, r) \/ ScenarioBenchmark(c, r) \/ ScenarioChurn(c, r)
      PROVE  Ledger'
  <2>1. PICK s \in Thread : Begins(s) /\ Accept(c, r, s) BY <1>1, Comes DEF IInv
  <2> QED BY <2>1, AcceptLedger
<1>2. CASE HealPartition \/ (\E r \in Requests : SetPartition(r)) \/ UNCHANGED vars
  <2>1. UNCHANGED <<made, nodes, portCounter, th, crossed>>
    BY <1>2 DEF HealPartition, SetPartition, orch, vars
  <2> QED BY <2>1 DEF Ledger, Apart, Counter
<1>3. ASSUME NEW c \in Client, Continue(c) \/ JoinFails(c) \/ StopNode(c) \/ UpdateConfig(c) PROVE Ledger'
  <2>1. UNCHANGED <<nodes, crossed, portCounter>>
    BY <1>3 DEF Continue, JoinFails, StopNode, UpdateConfig, orch
  <2>2. \E s \in Thread : Goto(c, s) /\ GoesOn(c, s)
    <3>1. CASE Continue(c) BY <3>1, Continues DEF IInv
    <3>2. CASE JoinFails(c)
      <4>1. th[c].op # "idle" BY <3>2 DEF JoinFails, At, IInv, Threads, ThreadOK
      <4> QED BY <3>2, <4>1, EndsOK DEF IInv, JoinFails
    <3>3. CASE StopNode(c) BY <3>3, StopsNode
    <3>4. CASE UpdateConfig(c)
      <4>1. PICK s \in Thread : Goto(c, s) /\ s.pc = "next" /\ s.op = th[c].op /\ s.op # "idle"
        BY <3>4, Updates DEF IInv
      <4> QED BY <4>1 DEF GoesOn
    <3> QED BY <1>3, <3>1, <3>2, <3>3, <3>4
  <2>3. Keeps(made, made')
    <3>1. CASE StopNode(c)
      <4>1. made \in Seq(Made) BY InRange
      <4> QED BY <3>1, <4>1, StopsNode, SetState
    <3>2. CASE ~StopNode(c) BY <1>3, <3>2, KeepsSame DEF Continue, JoinFails, UpdateConfig
    <3> QED BY <3>1, <3>2
  <2> QED BY <2>1, <2>2, <2>3, QuietLedger
<1>4. ASSUME NEW c \in Client, Check(c) PROVE Ledger'
  <2>1. PICK s \in Thread : Goto(c, s) /\ Checked(c, s) BY <1>4, Checks DEF IInv
  <2>2. UNCHANGED <<nodes, crossed, portCounter>> /\ made' = made BY <1>4 DEF Check, orch
  <2>3. Keeps(made, made') BY <2>2, KeepsSame
  <2>4. CASE GoesOn(c, s) BY <2>1, <2>2, <2>3, <2>4, QuietLedger
  <2>5. CASE ~GoesOn(c, s)
    <3>1. s.pc = "make" /\ s.op = th[c].op /\ s.addr = th[c].addr /\ th[c].pc = "check"
      BY <1>4, <2>1, <2>5, Checks DEF Checked, IInv
    <3> QED BY <2>1, <2>2, <2>3, <3>1, SameLedger
  <2> QED BY <2>4, <2>5
<1>5. ASSUME NEW c \in Client, Make(c) PROVE Ledger'
  <2>1. PICK e \in Made, s \in Thread :
          /\ made' = Append(made, e) /\ Goto(c, s)
          /\ s.pc = (IF th[c].first THEN "publish" ELSE "bootstrap")
          /\ s.addr = th[c].addr /\ s.op = th[c].op
    BY <1>5, Makes DEF IInv
  <2>2. th[c].pc = "make" BY <1>5, Makes DEF IInv
  <2>3. UNCHANGED <<nodes, crossed, portCounter>> BY <1>5 DEF Make, orch
  <2>4. Keeps(made, made') BY <2>1, AddNode, InRange
  <2>5. s.pc \in HasNode BY <2>1 DEF HasNode
  <2> QED BY <2>1, <2>2, <2>3, <2>4, <2>5, SameLedger
<1>6. ASSUME NEW c \in Client, Bootstrap(c) PROVE Ledger'
  <2>1. PICK s \in Thread :
          /\ Goto(c, s) /\ s.addr = th[c].addr /\ s.op = th[c].op /\ s.pc \in {"publish", "join"}
          /\ made' = [made EXCEPT ![th[c].node].network = th[c].node] \/ made' = made
    BY <1>6, Bootstraps DEF IInv
  <2>2. th[c].pc = "bootstrap" /\ th[c].node \in 1 .. Len(made) BY <1>6, Bootstraps DEF IInv
  <2>3. UNCHANGED <<nodes, crossed, portCounter>> BY <1>6 DEF Bootstrap, orch
  <2>4. Keeps(made, made')
    <3>1. made' = WithNetwork(made, th[c].node, th[c].node) \/ made' = made BY <2>1 DEF WithNetwork
    <3>2. th[c].node \in Nat BY <2>2
    <3> QED BY <2>2, <3>1, <3>2, KeepsSame, SetNetwork, InRange
  <2>5. th[c].pc \in HasNode /\ s.pc \in HasNode BY <2>1, <2>2 DEF HasNode
  <2> QED BY <2>1, <2>3, <2>4, <2>5, SameLedger
<1>7. ASSUME NEW c \in Client, Join(c) \/ JoinAlone(c) PROVE Ledger'
  <2>1. PICK x \in Nat, s \in Thread :
          /\ made' = WithNetwork(made, th[c].node, x)
          /\ Goto(c, s) /\ s.pc = "publish" /\ s.addr = th[c].addr /\ s.op = th[c].op
    BY <1>7, Joins, JoinsAlone DEF IInv
  <2>2. th[c].pc = "join" /\ th[c].node \in 1 .. Len(made) BY <1>7, Joins, JoinsAlone DEF IInv
  <2>3. UNCHANGED <<nodes, crossed, portCounter>> BY <1>7 DEF Join, JoinAlone, orch
  <2>4. Keeps(made, made') BY <2>1, <2>2, SetNetwork, InRange
  <2>5. th[c].pc \in HasNode /\ s.pc \in HasNode BY <2>1, <2>2 DEF HasNode
  <2> QED BY <2>1, <2>3, <2>4, <2>5, SameLedger
<1>8. ASSUME NEW c \in Client, Deregister(c) PROVE Ledger'
  <2>1. PICK s \in Thread : s = th[c] BY DEF IInv, Types
  <2>2. PICK t : t = [s EXCEPT !.pc = "stop"] OBVIOUS
  <2>3. t \in Thread /\ t.pc = "stop" /\ t.op = s.op /\ t.addr = s.addr /\ t.node = s.node
    BY <2>2 DEF Thread, Pcs
  <2>4. Goto(c, t) /\ s.pc = "deregister" BY <1>8, <2>1, <2>2 DEF Deregister, At
  <2>5. UNCHANGED <<nodes, crossed, portCounter>> /\ made' = made BY <1>8 DEF Deregister, orch
  <2>6. Keeps(made, made') BY <2>5, KeepsSame
  <2> QED BY <2>1, <2>3, <2>4, <2>5, <2>6, SameLedger DEF Stops
<1> QED
  BY <1>1, <1>2, <1>3, <1>4, <1>5, <1>6, <1>7, <1>8, TakeAddrLedger, PublishLedger, UnmapLedger, ResetLedger
  DEF Next

\* A request has a node in hand, or an address for one.
Hand(s) == s.pc \in {"make"} \cup HasNode \cup Stops

\* The node in hand is still registered.
Holds(s) == s.pc \in HasNode \cup {"deregister"}

\* A node is registered under its own address.
Registered == \A a \in Port : registry[a] # None => made[registry[a]].addr = a

Alone ==
  /\ \A c, d \in Client : c # d /\ Hand(th[c]) /\ Hand(th[d]) => th[c].addr # th[d].addr
  /\ \A c \in Client : Hand(th[c]) => nodes[th[c].addr] = None
  /\ \A c \in Client : Holds(th[c]) => registry[th[c].addr] = th[c].node

Listing ==
  /\ \A k \in 1 .. Len(nodeAddrs) : nodes[nodeAddrs[k]] # None
  /\ \A a \in Port : nodes[a] # None => \E k \in 1 .. Len(nodeAddrs) : nodeAddrs[k] = a
  /\ \A j, k \in 1 .. Len(nodeAddrs) : j # k => nodeAddrs[j] # nodeAddrs[k]

Story ==
  /\ \A a \in Port : nodes[a] # None => registry[a] = nodes[a]
  /\ \A i \in 1 .. Len(made) : made[i].state = "runs" =>
       nodes[made[i].addr] = i \/ \E c \in Client : th[c].pc \in Stops /\ th[c].node = i
  /\ \A a \in Port : registry[a] # None =>
       nodes[a] = registry[a] \/ \E c \in Client : Holds(th[c]) /\ th[c].node = registry[a]

Told == ~doubled => Alone /\ Listing /\ Story

Tale == Ledger /\ Registered /\ Told

LEMMA HandFacts ==
  ASSUME IInv
  PROVE  /\ \A d \in Client : Hand(th[d]) => th[d].addr \in Port
         /\ \A d \in Client : Holds(th[d]) =>
              /\ Hand(th[d]) /\ th[d].addr \in Port
              /\ th[d].node \in 1 .. Len(made) /\ made[th[d].node].addr = th[d].addr
<1>1. /\ \A d \in Client : th[d].pc \in HasNode \cup Stops =>
              th[d].node \in 1 .. Len(made) /\ made[th[d].node].addr = th[d].addr /\ th[d].addr \in Port
      /\ \A d \in Client : th[d].pc \in HasAddr => th[d].addr \in Port
  BY InRange
<1>2. \A d \in Client : Hand(th[d]) => th[d].pc \in HasAddr BY DEF Hand, HasAddr, HasNode, Stops
<1>3. \A d \in Client : Holds(th[d]) => Hand(th[d]) /\ th[d].pc \in HasNode \cup Stops
  BY DEF Hand, Holds, HasNode, Stops
<1> QED BY <1>1, <1>2, <1>3

\* A step that changes neither the maps nor what is in hand.
LEMMA TaleKept ==
  ASSUME IInv, NEW c \in Client, NEW s \in Thread, Goto(c, s),
         Hand(s) => Hand(th[c]) /\ s.addr = th[c].addr,
         Holds(s) <=> Holds(th[c]), s.pc \in Stops <=> th[c].pc \in Stops,
         Holds(s) \/ s.pc \in Stops => s.node = th[c].node,
         Alone, Listing, Story,
         Keeps(made, made'), Len(made') = Len(made),
         \A i \in 1 .. Len(made) : made'[i].state = made[i].state,
         UNCHANGED <<nodes, registry, nodeAddrs>>
  PROVE  Alone' /\ Listing' /\ Story'
<1>1. th'[c] = s /\ \A d \in Client : d # c => th'[d] = th[d] BY GoesTo DEF IInv, Types
<1>2. \A d \in Client : Hand(th'[d]) => Hand(th[d]) /\ th'[d].addr = th[d].addr BY <1>1
<1>3. \A d \in Client : /\ Holds(th'[d]) <=> Holds(th[d])
                        /\ Holds(th'[d]) => th'[d].node = th[d].node
  BY <1>1
<1>4. \A d \in Client : /\ th'[d].pc \in Stops <=> th[d].pc \in Stops
                        /\ th'[d].pc \in Stops => th'[d].node = th[d].node
  BY <1>1
<1>5. \A d \in Client : Holds(th'[d]) => Hand(th'[d]) BY DEF Holds, Hand, HasNode, Stops
<1>6. Alone' BY <1>2, <1>3, <1>5 DEF Alone
<1>7. Listing' BY DEF Listing
<1>8. Story' BY <1>3, <1>4 DEF Story, Keeps
<1> QED BY <1>6, <1>7, <1>8

\* The node made is registered and in hand.
LEMMA MakeTale ==
  ASSUME IInv, Alone, Listing, Story, NEW c \in Client, Make(c)
  PROVE  Alone' /\ Listing' /\ Story'
<1>1. PICK a \in Port : a = th[c].addr BY Makes DEF IInv
<1>2. PICK e \in Made, s \in Thread :
        /\ made' = Append(made, e) /\ Goto(c, s)
        /\ e.addr = a /\ e.state = "new"
        /\ s.pc = (IF th[c].first THEN "publish" ELSE "bootstrap") /\ s.node = Len(made) + 1
        /\ s.addr = a
  BY <1>1, Makes DEF IInv
<1>3. th[c].pc = "make" BY Makes DEF IInv
<1>4. th'[c] = s /\ \A d \in Client : d # c => th'[d] = th[d] BY <1>2, GoesTo DEF IInv, Types
<1>5. /\ made \in Seq(Made) /\ Len(made) \in Nat
      /\ \A b \in Port : registry[b] # None => registry[b] \in 1 .. Len(made)
      /\ \A b \in Port : nodes[b] # None => nodes[b] \in 1 .. Len(made)
  BY InRange
<1>6. /\ Len(made') = Len(made) + 1
      /\ \A j \in 1 .. Len(made) : made'[j] = made[j]
      /\ made'[Len(made) + 1] = e
  BY <1>2, <1>5, AddNode
<1>7. registry' = [registry EXCEPT ![a] = Len(made) + 1] /\ UNCHANGED <<nodes, nodeAddrs>>
  BY <1>1 DEF Make, orch
<1>8. registry \in [Port -> 0 .. Len(made)] BY DEF IInv, Types
<1>9. registry'[a] = Len(made) + 1 /\ \A b \in Port : b # a => registry'[b] = registry[b]
  BY <1>7, <1>8
<1>10. Hand(s) /\ Holds(s) /\ s.pc \notin Stops BY <1>2 DEF Hand, Holds, HasNode, Stops
<1>11. Hand(th[c]) /\ ~Holds(th[c]) /\ th[c].pc \notin Stops BY <1>3 DEF Hand, Holds, HasNode, Stops
<1>12. nodes[a] = None BY <1>1, <1>11 DEF Alone
<1>13. \A d \in Client : d # c /\ Hand(th[d]) => th[d].addr # a BY <1>1, <1>11 DEF Alone
<1>15. Alone'
  <2>1. \A d \in Client : Hand(th'[d]) => Hand(th[d]) /\ th'[d].addr = th[d].addr
    BY <1>1, <1>2, <1>4, <1>11
  <2>2. ASSUME NEW d \in Client, Holds(th'[d]) PROVE registry'[th'[d].addr] = th'[d].node
    <3>1. CASE d = c BY <1>2, <1>4, <1>9, <3>1
    <3>2. CASE d # c
      <4>1. th'[d] = th[d] /\ Hand(th[d]) /\ th[d].addr \in Port BY <1>4, <2>2, <3>2, HandFacts
      <4>2. th[d].addr # a BY <1>13, <3>2, <4>1
      <4> QED BY <1>9, <2>2, <4>1, <4>2 DEF Alone
    <3> QED BY <3>1, <3>2
  <2> QED BY <1>7, <2>1, <2>2 DEF Alone
<1>16. Listing' BY <1>7 DEF Listing
<1>17. Story'
  <2>1. \A b \in Port : nodes'[b] # None => registry'[b] = nodes'[b] BY <1>7, <1>9, <1>12 DEF Story
  <2>2. ASSUME NEW i \in 1 .. Len(made'), made'[i].state = "runs"
        PROVE  nodes'[made'[i].addr] = i \/ \E d \in Client : th'[d].pc \in Stops /\ th'[d].node = i
    <3>1. i # Len(made) + 1 BY <1>2, <1>6, <2>2
    <3>2. i \in 1 .. Len(made) /\ made'[i] = made[i] BY <1>5, <1>6, <3>1
    <3>3. nodes[made[i].addr] = i \/ \E d \in Client : th[d].pc \in Stops /\ th[d].node = i
      BY <2>2, <3>2 DEF Story
    <3> QED BY <1>4, <1>7, <1>11, <3>2, <3>3
  <2>3. ASSUME NEW b \in Port, registry'[b] # None
        PROVE  nodes'[b] = registry'[b] \/ \E d \in Client : Holds(th'[d]) /\ th'[d].node = registry'[b]
    <3>1. CASE b = a BY <1>2, <1>4, <1>9, <1>10, <3>1
    <3>2. CASE b # a
      <4>1. registry'[b] = registry[b] BY <1>9, <3>2
      <4>2. nodes[b] = registry[b] \/ \E d \in Client : Holds(th[d]) /\ th[d].node = registry[b]
        BY <2>3, <4>1 DEF Story
      <4> QED BY <1>4, <1>7, <1>11, <4>1, <4>2
    <3> QED BY <3>1, <3>2
  <2> QED BY <2>1, <2>2, <2>3 DEF Story
<1> QED BY <1>15, <1>16, <1>17

\* A request gives the node it has in hand up: it takes it from the registry, or
\* has stopped it.
LEMMA EndTale ==
  ASSUME IInv, Registered, Alone, Listing, Story, NEW c \in Client, NEW s \in Thread, Goto(c, s),
         Hand(th[c]), ~Holds(s), Hand(s) => s.addr = th[c].addr,
         \/ Holds(th[c]) /\ registry' = [registry EXCEPT ![th[c].addr] = None]
         \/ ~Holds(th[c]) /\ registry' = registry,
         Keeps(made, made'), Len(made') = Len(made),
         \A i \in 1 .. Len(made) : made'[i].state = "runs" =>
           made[i].state = "runs" /\ (th[c].pc \in Stops /\ th[c].node = i => s.pc \in Stops /\ s.node = i),
         UNCHANGED <<nodes, nodeAddrs>>
  PROVE  Alone' /\ Listing' /\ Story'
<1>1. th'[c] = s /\ \A d \in Client : d # c => th'[d] = th[d] BY GoesTo DEF IInv, Types
<1>2. PICK a \in Port : a = th[c].addr BY HandFacts
<1>3. registry \in [Port -> 0 .. Len(made)] BY DEF IInv, Types
<1>4. \A b \in Port : b # a => registry'[b] = registry[b] BY <1>2, <1>3
<1>5. nodes[a] = None /\ \A d \in Client : d # c /\ Hand(th[d]) => th[d].addr # a
  BY <1>2 DEF Alone
<1>6. Alone'
  <2>1. \A d \in Client : Hand(th'[d]) => Hand(th[d]) /\ th'[d].addr = th[d].addr BY <1>1
  <2>2. ASSUME NEW d \in Client, Holds(th'[d]) PROVE registry'[th'[d].addr] = th'[d].node
    <3>1. d # c /\ th'[d] = th[d] BY <1>1, <2>2
    <3>2. Hand(th[d]) /\ th[d].addr \in Port BY <2>2, <3>1, HandFacts
    <3>3. th[d].addr # a BY <1>5, <3>1, <3>2
    <3> QED BY <1>4, <2>2, <3>1, <3>2, <3>3 DEF Alone
  <2> QED BY <2>1, <2>2 DEF Alone
<1>7. Listing' BY DEF Listing
<1>8. Story'
  <2>1. \A b \in Port : nodes'[b] # None => registry'[b] = nodes'[b] BY <1>4, <1>5 DEF Story
  <2>2. ASSUME NEW i \in 1 .. Len(made'), made'[i].state = "runs"
        PROVE  nodes'[made'[i].addr] = i \/ \E d \in Client : th'[d].pc \in Stops /\ th'[d].node = i
    <3>1. i \in 1 .. Len(made) /\ made[i].state = "runs" /\ made'[i].addr = made[i].addr
      BY <2>2 DEF Keeps
    <3>2. CASE nodes[made[i].addr] = i BY <3>1, <3>2
    <3>3. CASE \E d \in Client : th[d].pc \in Stops /\ th[d].node = i
      <4>1. PICK d \in Client : th[d].pc \in Stops /\ th[d].node = i BY <3>3
      <4>2. th'[d].pc \in Stops /\ th'[d].node = i BY <1>1, <2>2, <3>1, <4>1
      <4> QED BY <4>2
    <3> QED BY <3>1, <3>2, <3>3 DEF Story
  <2>3. ASSUME NEW b \in Port, registry'[b] # None
        PROVE  nodes'[b] = registry'[b] \/ \E d \in Client : Holds(th'[d]) /\ th'[d].node = registry'[b]
    <3>1. registry'[b] = registry[b] /\ (Holds(th[c]) => b # a) BY <1>2, <1>3, <2>3
    <3>2. CASE nodes[b] = registry[b] BY <3>1, <3>2
    <3>3. CASE \E d \in Client : Holds(th[d]) /\ th[d].node = registry[b]
      <4>1. PICK d \in Client : Holds(th[d]) /\ th[d].node = registry[b] BY <3>3
      <4>2. th[d].addr = b BY <2>3, <3>1, <4>1, HandFacts DEF Registered
      <4>3. d # c BY <1>2, <3>1, <4>1, <4>2
      <4> QED BY <1>1, <3>1, <4>1, <4>3
    <3> QED BY <2>3, <3>1, <3>2, <3>3 DEF Story
  <2> QED BY <2>1, <2>2, <2>3 DEF Story
<1> QED BY <1>6, <1>7, <1>8

\* The node in hand becomes the one listed.
LEMMA PublishTale ==
  ASSUME OrchestratorAssumption, IInv, Registered, Alone, Listing, Story, NEW c \in Client, Publish(c)
  PROVE  Alone' /\ Listing' /\ Story'
<1>1. PICK i \in 1 .. Len(made), a \in Port : i = th[c].node /\ a = th[c].addr
  BY Publishes DEF IInv
<1>2. /\ th[c].pc = "publish" /\ made[i].addr = a
      /\ made' = WithState(made, i, "runs") /\ nodes' = [nodes EXCEPT ![a] = i]
      /\ nodeAddrs' = Append(nodeAddrs, a)
      /\ Goto(c, Done(c)) /\ Done(c) \in Thread /\ GoesOn(c, Done(c))
  BY <1>1, Publishes DEF IInv
<1>3. th'[c] = Done(c) /\ \A d \in Client : d # c => th'[d] = th[d] BY <1>2, GoesTo DEF IInv, Types
<1>4. /\ made \in Seq(Made) /\ Len(made) \in Nat
      /\ \A b \in Port : registry[b] # None => registry[b] \in 1 .. Len(made)
      /\ \A b \in Port : nodes[b] # None => nodes[b] \in 1 .. Len(made)
  BY InRange
<1>5. /\ Len(made') = Len(made) /\ Keeps(made, made')
      /\ \A j \in 1 .. Len(made) : made'[j].state = IF j = i THEN "runs" ELSE made[j].state
  <2>1. made' = WithState(made, i, "runs") BY <1>2
  <2>2. made \in Seq(Made) BY <1>4
  <2> DEFINE n == WithState(made, i, "runs")
  <2>3. /\ Len(n) = Len(made) /\ Keeps(made, n)
        /\ \A j \in 1 .. Len(made) : n[j].state = IF j = i THEN "runs" ELSE made[j].state
    BY <2>2, SetState
  <2> HIDE DEF n
  <2> QED BY <2>1, <2>3 DEF n
<1>6. nodes \in [Port -> 0 .. Len(made)] /\ nodeAddrs \in Seq(Port) BY DEF IInv, Types, Rest
<1>7. nodes'[a] = i /\ i # None /\ \A b \in Port : b # a => nodes'[b] = nodes[b]
  BY <1>2, <1>6 DEF None
<1>8. registry' = registry BY DEF Publish
<1>9. Hand(th[c]) /\ Holds(th[c]) /\ th[c].pc \notin Stops BY <1>2 DEF Hand, Holds, HasNode, Stops
<1>10. ~Hand(Done(c)) /\ ~Holds(Done(c)) /\ Done(c).pc \notin Stops
  BY <1>2 DEF GoesOn, Hand, Holds, HasNode, Stops
<1>11. nodes[a] = None /\ registry[a] = i BY <1>1, <1>9 DEF Alone
<1>12. \A d \in Client : d # c /\ Hand(th[d]) => th[d].addr # a BY <1>1, <1>9 DEF Alone
<1>14. Alone'
  <2>1. \A d \in Client : Hand(th'[d]) => d # c /\ th'[d] = th[d] BY <1>3, <1>10
  <2>2. \A d \in Client : Holds(th'[d]) => d # c /\ th'[d] = th[d] BY <1>3, <1>10
  <2>3. \A d \in Client : Hand(th'[d]) => nodes'[th'[d].addr] = None
    BY <1>7, <1>12, <2>1, HandFacts DEF Alone
  <2> QED BY <1>8, <2>1, <2>2, <2>3 DEF Alone
<1>15. Listing'
  <2>1. /\ Len(nodeAddrs) \in Nat /\ Len(nodeAddrs') = Len(nodeAddrs) + 1
        /\ \A k \in 1 .. Len(nodeAddrs) : nodeAddrs'[k] = nodeAddrs[k]
        /\ nodeAddrs'[Len(nodeAddrs) + 1] = a
    BY <1>2, <1>6, LenProperties, AppendProperties
  <2>2. \A k \in 1 .. Len(nodeAddrs') : k = Len(nodeAddrs) + 1 \/ k \in 1 .. Len(nodeAddrs) BY <2>1
  <2>3. \A k \in 1 .. Len(nodeAddrs) : k \in 1 .. Len(nodeAddrs') /\ k # Len(nodeAddrs) + 1 BY <2>1
  <2>4. \A k \in 1 .. Len(nodeAddrs) : nodeAddrs[k] # a /\ nodeAddrs[k] \in Port
    BY <1>6, <1>11, ElementOfSeq DEF Listing
  <2>5. \A k \in 1 .. Len(nodeAddrs') : nodes'[nodeAddrs'[k]] # None
    BY <1>7, <2>1, <2>2, <2>4 DEF Listing
  <2>6. ASSUME NEW b \in Port, nodes'[b] # None PROVE \E k \in 1 .. Len(nodeAddrs') : nodeAddrs'[k] = b
    <3>1. CASE b = a
      <4>1. Len(nodeAddrs) + 1 \in 1 .. Len(nodeAddrs') BY <2>1
      <4> QED BY <2>1, <3>1, <4>1
    <3>2. CASE b # a
      <4>1. PICK k \in 1 .. Len(nodeAddrs) : nodeAddrs[k] = b BY <1>7, <2>6, <3>2 DEF Listing
      <4> QED BY <2>1, <2>3, <4>1
    <3> QED BY <3>1, <3>2
  <2>7. ASSUME NEW j \in 1 .. Len(nodeAddrs'), NEW k \in 1 .. Len(nodeAddrs'), j # k
        PROVE  nodeAddrs'[j] # nodeAddrs'[k]
    BY <2>1, <2>2, <2>4, <2>7 DEF Listing
  <2> QED BY <2>5, <2>6, <2>7 DEF Listing
<1>16. Story'
  <2>1. \A b \in Port : nodes'[b] # None => registry'[b] = nodes'[b] BY <1>7, <1>8, <1>11 DEF Story
  <2>2. ASSUME NEW j \in 1 .. Len(made'), made'[j].state = "runs"
        PROVE  nodes'[made'[j].addr] = j \/ \E d \in Client : th'[d].pc \in Stops /\ th'[d].node = j
    <3>1. j \in 1 .. Len(made) /\ made'[j].addr = made[j].addr BY <1>5 DEF Keeps
    <3>2. CASE j = i BY <1>2, <1>7, <3>1, <3>2
    <3>3. CASE j # i
      <4>1. made[j].state = "runs" BY <1>5, <2>2, <3>1, <3>3
      <4>2. CASE nodes[made[j].addr] = j
        <5>1. j # None BY <3>1 DEF None
        <5>2. made[j].addr \in Port
          <6>1. made[j] \in Made BY <1>4, <3>1, ElementOfSeq
          <6> QED BY <6>1 DEF Made
        <5>3. made[j].addr # a BY <1>11, <4>2, <5>1
        <5> QED BY <1>7, <3>1, <4>2, <5>2, <5>3
      <4>3. CASE \E d \in Client : th[d].pc \in Stops /\ th[d].node = j BY <1>3, <1>9, <4>3
      <4> QED BY <3>1, <4>1, <4>2, <4>3 DEF Story
    <3> QED BY <3>2, <3>3
  <2>3. ASSUME NEW b \in Port, registry'[b] # None
        PROVE  nodes'[b] = registry'[b] \/ \E d \in Client : Holds(th'[d]) /\ th'[d].node = registry'[b]
    <3>1. CASE b = a BY <1>7, <1>8, <1>11, <3>1
    <3>2. CASE b # a
      <4>1. CASE nodes[b] = registry[b] BY <1>7, <1>8, <3>2, <4>1
      <4>2. CASE \E d \in Client : Holds(th[d]) /\ th[d].node = registry[b]
        <5>1. PICK d \in Client : Holds(th[d]) /\ th[d].node = registry[b] BY <4>2
        <5>2. made[th[d].node].addr = b BY <1>8, <2>3, <5>1 DEF Registered
        <5>3. d # c BY <1>1, <1>2, <3>2, <5>2
        <5> QED BY <1>3, <1>8, <5>1, <5>3
      <4> QED BY <1>8, <2>3, <4>1, <4>2 DEF Story
    <3> QED BY <3>1, <3>2
  <2> QED BY <2>1, <2>2, <2>3 DEF Story
<1> QED BY <1>14, <1>15, <1>16

\* A node found is taken out of the maps and comes in hand, registered.
LEMMA UnmapTale ==
  ASSUME OrchestratorAssumption, IInv, Alone, Listing, Story, NEW c \in Client, Unmap(c)
  PROVE  Alone' /\ Listing' /\ Story'
<1>1. PICK a \in Port : a = th[c].addr BY Unmaps DEF IInv
<1>2. UNCHANGED <<made, registry>> BY DEF Unmap
<1>3. th[c].pc = "remove" BY Unmaps DEF IInv
<1>4. ~Hand(th[c]) /\ ~Holds(th[c]) /\ th[c].pc \notin Stops BY <1>3 DEF Hand, Holds, HasNode, Stops
<1>5. CASE UNCHANGED <<nodes, nodeAddrs>> /\ Goto(c, Done(c)) /\ Done(c) \in Thread /\ GoesOn(c, Done(c))
  <2>1. ~Hand(Done(c)) /\ ~Holds(Done(c)) /\ Done(c).pc \notin Stops
    BY <1>5 DEF GoesOn, Hand, Holds, HasNode, Stops
  <2>2. Keeps(made, made') BY <1>2, KeepsSame
  <2> QED BY <1>2, <1>4, <1>5, <2>1, <2>2, TaleKept
<1>6. CASE /\ nodes[a] \in 1 .. Len(made)
           /\ nodes' = [nodes EXCEPT ![a] = None] /\ nodeAddrs' = removeAddr(a)
           /\ \E s \in Thread : Goto(c, s) /\ s.pc = "deregister" /\ s.node = nodes[a] /\ s.addr = a
  <2>1. PICK s \in Thread : Goto(c, s) /\ s.pc = "deregister" /\ s.node = nodes[a] /\ s.addr = a BY <1>6
  <2>2. th'[c] = s /\ \A d \in Client : d # c => th'[d] = th[d] BY <2>1, GoesTo DEF IInv, Types
  <2>3. nodes[a] # None BY <1>6 DEF None
  <2>4. nodes \in [Port -> 0 .. Len(made)] /\ nodeAddrs \in Seq(Port) BY DEF IInv, Types, Rest
  <2>5. nodes'[a] = None /\ \A b \in Port : b # a => nodes'[b] = nodes[b] BY <1>6, <2>4
  <2>6. Hand(s) /\ Holds(s) /\ s.pc \in Stops BY <2>1 DEF Hand, Holds, HasNode, Stops
  <2>7. \A d \in Client : Hand(th[d]) => th[d].addr # a BY <2>3 DEF Alone
  <2>8. registry[a] = nodes[a] BY <2>3 DEF Story
  <2>9. Alone'
    <3>1. ASSUME NEW d \in Client, NEW e \in Client, d # e, Hand(th'[d]), Hand(th'[e])
          PROVE  th'[d].addr # th'[e].addr
      BY <2>1, <2>2, <2>7, <3>1 DEF Alone
    <3>2. \A d \in Client : Hand(th'[d]) => nodes'[th'[d].addr] = None
      BY <2>1, <2>2, <2>5, <2>7, HandFacts DEF Alone
    <3>3. \A d \in Client : Holds(th'[d]) => registry'[th'[d].addr] = th'[d].node
      BY <1>2, <2>1, <2>2, <2>8 DEF Alone
    <3> QED BY <3>1, <3>2, <3>3 DEF Alone
  <2>10. Listing'
    <3>1. Len(nodeAddrs) \in Nat BY <2>4, LenProperties
    <3>2. PICK i \in 1 .. Len(nodeAddrs) : nodeAddrs[i] = a /\ nodeAddrs' = RemoveAt(nodeAddrs, i)
      <4>1. PICK i \in 1 .. Len(nodeAddrs) : nodeAddrs[i] = a BY <2>3 DEF Listing
      <4>2. a \in Range(nodeAddrs) BY <2>4, <4>1, LenProperties DEF Range
      <4> QED BY <1>6, <2>4, <4>2, RemovesAddr
    <3> DEFINE old(j) == IF j < i THEN j ELSE j + 1
    <3>3. /\ Len(nodeAddrs') = Len(nodeAddrs) - 1
          /\ \A j \in 1 .. Len(nodeAddrs') : nodeAddrs'[j] = nodeAddrs[old(j)]
      <4>1. /\ Len(nodeAddrs') = Len(nodeAddrs) - 1
            /\ \A j \in 1 .. Len(nodeAddrs) - 1 :
                 nodeAddrs'[j] = IF j < i THEN nodeAddrs[j] ELSE nodeAddrs[j + 1]
        BY <2>4, <3>2, Removes
      <4> QED BY <4>1
    <3>4. \A j \in 1 .. Len(nodeAddrs') : old(j) \in 1 .. Len(nodeAddrs) /\ old(j) # i
      BY <3>1, <3>3
    <3>5. \A j, k \in 1 .. Len(nodeAddrs') : j # k => old(j) # old(k) BY <3>1, <3>3
    <3>6. \A k \in 1 .. Len(nodeAddrs) : k # i => \E j \in 1 .. Len(nodeAddrs') : old(j) = k
      <4> SUFFICES ASSUME NEW k \in 1 .. Len(nodeAddrs), k # i
                   PROVE  \E j \in 1 .. Len(nodeAddrs') : old(j) = k
        OBVIOUS
      <4>1. CASE k < i
        <5>1. k \in 1 .. Len(nodeAddrs') /\ old(k) = k BY <3>1, <3>3, <4>1
        <5> QED BY <5>1
      <4>2. CASE ~(k < i)
        <5>1. k - 1 \in 1 .. Len(nodeAddrs') /\ old(k - 1) = k BY <3>1, <3>3, <4>2
        <5> QED BY <5>1
      <4> QED BY <4>1, <4>2
    <3> HIDE DEF old
    <3>7. \A k \in 1 .. Len(nodeAddrs) : k # i => nodeAddrs[k] # a /\ nodeAddrs[k] \in Port
      BY <2>4, <3>2, ElementOfSeq DEF Listing
    <3>8. \A j \in 1 .. Len(nodeAddrs') : nodes'[nodeAddrs'[j]] # None
      BY <2>5, <3>3, <3>4, <3>7 DEF Listing
    <3>9. ASSUME NEW b \in Port, nodes'[b] # None PROVE \E j \in 1 .. Len(nodeAddrs') : nodeAddrs'[j] = b
      <4>1. b # a /\ nodes[b] # None BY <2>5, <3>9
      <4>2. PICK k \in 1 .. Len(nodeAddrs) : nodeAddrs[k] = b BY <4>1 DEF Listing
      <4>3. k # i BY <3>2, <4>1, <4>2
      <4> QED BY <3>3, <3>6, <4>2, <4>3
    <3>10. \A j, k \in 1 .. Len(nodeAddrs') : j # k => nodeAddrs'[j] # nodeAddrs'[k]
      BY <3>3, <3>4, <3>5 DEF Listing
    <3> QED BY <3>8, <3>9, <3>10 DEF Listing
  <2>11. Story'
    <3>1. \A b \in Port : nodes'[b] # None => registry'[b] = nodes'[b] BY <1>2, <2>5 DEF Story
    <3>2. ASSUME NEW j \in 1 .. Len(made), made[j].state = "runs"
          PROVE  nodes'[made[j].addr] = j \/ \E d \in Client : th'[d].pc \in Stops /\ th'[d].node = j
      <4>1. CASE nodes[made[j].addr] = j
        <5>1. CASE made[j].addr = a BY <2>1, <2>2, <2>6, <4>1, <5>1
        <5>2. CASE made[j].addr # a
          <6>1. made[j] \in Made BY InRange, ElementOfSeq
          <6>2. made[j].addr \in Port BY <6>1 DEF Made
          <6> QED BY <2>5, <4>1, <5>2, <6>2
        <5> QED BY <5>1, <5>2
      <4>2. CASE \E d \in Client : th[d].pc \in Stops /\ th[d].node = j BY <1>4, <2>2, <4>2
      <4> QED BY <3>2, <4>1, <4>2 DEF Story
    <3>3. ASSUME NEW b \in Port, registry[b] # None
          PROVE  nodes'[b] = registry[b] \/ \E d \in Client : Holds(th'[d]) /\ th'[d].node = registry[b]
      <4>1. CASE b = a BY <2>1, <2>2, <2>6, <2>8, <4>1
      <4>2. CASE b # a
        <5>1. nodes[b] = registry[b] \/ \E d \in Client : Holds(th[d]) /\ th[d].node = registry[b]
          BY <3>3 DEF Story
        <5> QED BY <1>4, <2>2, <2>5, <4>2, <5>1
      <4> QED BY <4>1, <4>2
    <3> QED BY <1>2, <3>1, <3>2, <3>3 DEF Story
  <2> QED BY <2>9, <2>10, <2>11
<1> QED BY <1>1, <1>5, <1>6, Unmaps DEF IInv

\* What a reset stops is what was listed; what is in hand stays as it is.
LEMMA ResetTale ==
  ASSUME OrchestratorAssumption, IInv, Alone, Listing, Story, NEW c \in Client, Reset(c)
  PROVE  Alone' /\ Listing' /\ Story'
<1>1. /\ Len(made') = Len(made) /\ Keeps(made, made')
      /\ \A i \in 1 .. Len(made) :
           IF \E p \in Protocol, a \in Port : typed[p][a] = i
           THEN made'[i].state = "stopped" ELSE made'[i].state = made[i].state
      /\ registry' = [a \in Port |-> IF nodes[a] # None THEN None ELSE registry[a]]
      /\ nodes' = NoNodes /\ nodeAddrs' = <<>> /\ th[c].pc = "reset"
  BY Resets DEF IInv
<1>2. PICK s \in Thread : Goto(c, s) /\ s.pc \in {"next", "config"} BY Resets DEF IInv
<1>3. th'[c] = s /\ \A d \in Client : d # c => th'[d] = th[d] BY <1>2, GoesTo DEF IInv, Types
<1>4. ~Hand(s) /\ ~Holds(s) /\ s.pc \notin Stops BY <1>2 DEF Hand, Holds, HasNode, Stops
<1>5. ~Hand(th[c]) /\ ~Holds(th[c]) /\ th[c].pc \notin Stops BY <1>1 DEF Hand, Holds, HasNode, Stops
<1>6. \A a \in Port : nodes'[a] = None BY <1>1 DEF NoNodes
<1>7. \A a \in Port : registry'[a] = IF nodes[a] # None THEN None ELSE registry[a] BY <1>1
<1>10. Alone'
  <2>1. \A d \in Client : Hand(th'[d]) => Hand(th[d]) /\ th'[d].addr = th[d].addr /\ th[d].addr \in Port
    BY <1>3, <1>4, HandFacts
  <2>2. \A d \in Client : Holds(th'[d]) => Holds(th[d]) /\ th'[d] = th[d] /\ Hand(th[d]) /\ th[d].addr \in Port
    BY <1>3, <1>4, HandFacts
  <2>3. \A d \in Client : Holds(th'[d]) => registry'[th'[d].addr] = th'[d].node
    BY <1>7, <2>2 DEF Alone
  <2> QED BY <1>6, <2>1, <2>3 DEF Alone
<1>11. Listing'
  <2>1. Len(nodeAddrs') = 0 BY <1>1
  <2> QED BY <1>6, <2>1 DEF Listing
<1>12. Story'
  <2>1. ASSUME NEW i \in 1 .. Len(made), made'[i].state = "runs"
        PROVE  \E d \in Client : th'[d].pc \in Stops /\ th'[d].node = i
    <3>1. ~(\E p \in Protocol, a \in Port : typed[p][a] = i) /\ made[i].state = "runs" BY <1>1, <2>1
    <3>2. made[i] \in Made /\ i # None BY InRange, ElementOfSeq DEF None
    <3>3. made[i].addr \in Port /\ made[i].protocol \in Protocol BY <3>2 DEF Made
    <3>4. nodes[made[i].addr] # i BY <3>1, <3>2, <3>3 DEF IInv, Maps
    <3>5. PICK d \in Client : th[d].pc \in Stops /\ th[d].node = i BY <3>1, <3>4 DEF Story
    <3> QED BY <1>3, <1>5, <3>5
  <2>2. ASSUME NEW b \in Port, registry'[b] # None
        PROVE  \E d \in Client : Holds(th'[d]) /\ th'[d].node = registry'[b]
    <3>1. nodes[b] = None /\ registry'[b] = registry[b] BY <1>7, <2>2
    <3>2. PICK d \in Client : Holds(th[d]) /\ th[d].node = registry[b] BY <2>2, <3>1 DEF Story
    <3> QED BY <1>3, <1>5, <3>1, <3>2
  <2> QED BY <1>1, <1>6, <2>1, <2>2 DEF Story
<1> QED BY <1>10, <1>11, <1>12

\* A spawn takes an address in hand that nobody else has: one of the counter, which
\* gives it once, unless doubled is noted.
LEMMA CheckTale ==
  ASSUME OrchestratorAssumption, IInv, Ledger, ~doubled', Alone, Listing, Story, NEW c \in Client, Check(c)
  PROVE  Alone' /\ Listing' /\ Story'
<1>1. PICK a \in Port : a = th[c].addr BY Checks DEF IInv
<1>2. PICK s \in Thread : Goto(c, s) /\ Checked(c, s) BY Checks DEF IInv
<1>3. th[c].pc = "check" BY Checks DEF IInv
<1>4. UNCHANGED <<made, nodes, registry, nodeAddrs>> BY DEF Check, orch
<1>5. Keeps(made, made') BY <1>4, KeepsSame
<1>6. ~Hand(th[c]) /\ ~Holds(th[c]) /\ th[c].pc \notin Stops BY <1>3 DEF Hand, Holds, HasNode, Stops
<1>7. CASE GoesOn(c, s)
  <2>1. ~Hand(s) /\ ~Holds(s) /\ s.pc \notin Stops BY <1>7 DEF GoesOn, Hand, Holds, HasNode, Stops
  <2> QED BY <1>2, <1>4, <1>5, <1>6, <2>1, TaleKept
<1>8. CASE ~GoesOn(c, s)
  <2>1. nodes[a] = None /\ s.pc = "make" /\ s.addr = a BY <1>1, <1>2, <1>8 DEF Checked
  <2>2. Hand(s) /\ ~Holds(s) /\ s.pc \notin Stops BY <2>1 DEF Hand, Holds, HasNode, Stops
  <2>3. th'[c] = s /\ \A d \in Client : d # c => th'[d] = th[d] BY <1>2, GoesTo DEF IInv, Types
  <2>4. \A d \in InHand(a) :
          ~crossed /\ ~Given(c) /\ ~Given(d) /\ (Stopping(d) => ~made[th[d].node].given)
    BY <1>1, <2>1 DEF Check
  <2>5. ASSUME NEW d \in Client, Hand(th[d]) PROVE th[d].addr # a
    <3> SUFFICES ASSUME th[d].addr = a PROVE FALSE
      OBVIOUS
    <3>1. d \in InHand(a) BY <2>5 DEF InHand, Spawning, Stopping, Hand, HasNode, Stops
    <3>2. ~crossed /\ ~Given(c) /\ ~Given(d) BY <2>4, <3>1
    <3>3. Counted(th[c]) BY <1>3, <3>2 DEF Counted, Given
    <3>4. d # c BY <1>6, <2>5
    <3>5. CASE th[d].pc \in Stops
      <4>1. ~made[th[d].node].given BY <2>4, <3>1, <3>5 DEF Stopping, Stops
      <4> QED BY <1>1, <3>2, <3>3, <3>5, <4>1 DEF Ledger, Counter
    <3>6. CASE th[d].pc \notin Stops
      <4>1. Counted(th[d]) BY <2>5, <3>2, <3>6 DEF Counted, Given, Hand
      <4> QED BY <1>1, <3>2, <3>3, <3>4, <4>1 DEF Ledger, Counter
    <3> QED BY <3>5, <3>6
  <2>6. Alone'
    <3>1. \A d \in Client : Hand(th'[d]) => (d = c /\ th'[d].addr = a) \/ (d # c /\ th'[d] = th[d])
      BY <2>1, <2>3
    <3>2. \A d \in Client : Holds(th'[d]) => Holds(th[d]) /\ th'[d] = th[d] BY <2>2, <2>3
    <3>3. \A d, e \in Client : d # e /\ Hand(th'[d]) /\ Hand(th'[e]) => th'[d].addr # th'[e].addr
      BY <2>5, <3>1 DEF Alone
    <3>4. \A d \in Client : Hand(th'[d]) => nodes'[th'[d].addr] = None
      BY <1>4, <2>1, <3>1 DEF Alone
    <3>5. \A d \in Client : Holds(th'[d]) => registry'[th'[d].addr] = th'[d].node
      BY <1>4, <3>2 DEF Alone
    <3> QED BY <3>3, <3>4, <3>5 DEF Alone
  <2>7. Listing' BY <1>4 DEF Listing
  <2>8. Story' BY <1>4, <1>6, <2>2, <2>3 DEF Story
  <2> QED BY <2>6, <2>7, <2>8
<1> QED BY <1>7, <1>8

LEMMA RegisteredKept ==
  ASSUME IInv, Registered, Keeps(made, made'),
         \A a \in Port : registry'[a] \in {None, registry[a]}
  PROVE  Registered'
<1>1. \A a \in Port : registry[a] # None => registry[a] \in 1 .. Len(made) BY InRange
<1>2. \A j \in 1 .. Len(made) : made'[j].addr = made[j].addr BY DEF Keeps
<1> QED BY <1>1, <1>2 DEF Registered

LEMMA MakesRegistered ==
  ASSUME IInv, Registered, NEW c \in Client, Make(c)
  PROVE  Registered'
<1>1. PICK a \in Port : a = th[c].addr BY Makes DEF IInv
<1>2. PICK e \in Made : made' = Append(made, e) /\ e.addr = a BY <1>1, Makes DEF IInv
<1>3. made \in Seq(Made) /\ \A b \in Port : registry[b] # None => registry[b] \in 1 .. Len(made)
  BY InRange
<1>4. /\ \A j \in 1 .. Len(made) : made'[j] = made[j]
      /\ made'[Len(made) + 1] = e
  BY <1>2, <1>3, AddNode
<1>5. registry' = [registry EXCEPT ![a] = Len(made) + 1] BY <1>1 DEF Make
<1>6. \A b \in Port : registry'[b] = IF b = a THEN Len(made) + 1 ELSE registry[b]
  BY <1>5 DEF IInv, Types
<1> QED BY <1>2, <1>3, <1>4, <1>6 DEF Registered

\* What a step into a network changes.
LEMMA Wires ==
  ASSUME IInv, NEW c \in Client, Bootstrap(c) \/ Join(c) \/ JoinAlone(c)
  PROVE  \E s \in Thread, x \in Nat :
           /\ Goto(c, s) /\ s.pc \in {"publish", "join"} /\ s.node = th[c].node /\ s.addr = th[c].addr
           /\ made' = WithNetwork(made, th[c].node, x) \/ made' = made
<1>1. CASE Bootstrap(c)
  <2>1. PICK s \in Thread :
          /\ Goto(c, s) /\ s.pc \in {"publish", "join"} /\ s.node = th[c].node /\ s.addr = th[c].addr
          /\ made' = [made EXCEPT ![th[c].node].network = th[c].node] \/ made' = made
    BY <1>1, Bootstraps DEF IInv
  <2>2. th[c].node \in 1 .. Len(made) BY <1>1, Bootstraps DEF IInv
  <2>3. th[c].node \in Nat BY <2>2
  <2> QED BY <2>1, <2>3 DEF WithNetwork
<1>2. CASE Join(c) BY <1>2, Joins DEF IInv
<1>3. CASE JoinAlone(c) BY <1>3, JoinsAlone DEF IInv
<1> QED BY <1>1, <1>2, <1>3

LEMMA TaleNext == OrchestratorAssumption /\ IInv /\ Tale /\ [Next]_vars => Tale'
<1> SUFFICES ASSUME OrchestratorAssumption, IInv, Tale, [Next]_vars PROVE Registered' /\ Told'
  BY LedgerNext DEF Tale
<1> DEFINE Same == UNCHANGED <<nodes, registry, nodeAddrs, doubled>>
           Ok == Registered' /\ Told'
<1>0. Registered /\ Ledger /\ (~doubled => Alone /\ Listing /\ Story) BY DEF Tale, Told
<1>1. ASSUME NEW c \in Client, NEW r \in Requests,
             \/ spawnNode(c, r) \/ removeNode(c, r) \/ resetNetwork(c, r) \/ startNetwork(c, r)
             \/ updateConfig(c, r)
             \/ ScenarioBootstrap(c, r) \/ ScenarioBenchmark(c, r) \/ ScenarioChurn(c, r)
      PROVE  Ok
  <2>1. PICK s \in Thread : Begins(s) /\ Accept(c, r, s) BY <1>1, Comes DEF IInv
  <2>2. Goto(c, s) /\ ~Busy(c) /\ made' = made /\ Same BY <2>1 DEF Accept, orch
  <2>3. th[c].pc = "idle" BY <2>2 DEF Busy, IInv, Threads, ThreadOK
  <2>4. ~Hand(th[c]) /\ ~Holds(th[c]) /\ th[c].pc \notin Stops BY <2>3 DEF Hand, Holds, HasNode, Stops
  <2>5. ~Hand(s) /\ ~Holds(s) /\ s.pc \notin Stops BY <2>1 DEF Begins, Hand, Holds, HasNode, Stops
  <2>6. Keeps(made, made') BY <2>2, KeepsSame
  <2>7. ~doubled => Alone' /\ Listing' /\ Story' BY <1>0, <2>2, <2>4, <2>5, <2>6, TaleKept
  <2> QED BY <1>0, <2>2, <2>6, <2>7, RegisteredKept DEF Told
<1>2. ASSUME HealPartition \/ (\E r \in Requests : SetPartition(r)) \/ UNCHANGED vars PROVE Ok
  <2>1. UNCHANGED <<made, nodes, registry, nodeAddrs, doubled, th>>
    BY <1>2 DEF HealPartition, SetPartition, orch, vars
  <2> QED BY <1>0, <2>1 DEF Registered, Told, Alone, Listing, Story
<1>3. ASSUME NEW c \in Client, Continue(c) \/ TakeAddr(c) \/ UpdateConfig(c) PROVE Ok
  <2>1. made' = made /\ Same BY <1>3 DEF Continue, TakeAddr, UpdateConfig, orch
  <2>2. th[c].pc \in {"next", "addr", "config"} BY <1>3 DEF Continue, TakeAddr, UpdateConfig, At
  <2>3. PICK s \in Thread : Goto(c, s) /\ s.pc \in {"idle", "next", "remove", "addr", "check"}
    <3>1. CASE Continue(c) BY <3>1, Continues DEF IInv, GoesOn
    <3>2. CASE TakeAddr(c) BY <3>2, TakesAddr DEF IInv
    <3>3. CASE UpdateConfig(c) BY <3>3, Updates DEF IInv
    <3> QED BY <1>3, <3>1, <3>2, <3>3
  <2>4. ~Hand(th[c]) /\ ~Holds(th[c]) /\ th[c].pc \notin Stops BY <2>2 DEF Hand, Holds, HasNode, Stops
  <2>5. ~Hand(s) /\ ~Holds(s) /\ s.pc \notin Stops BY <2>3 DEF Hand, Holds, HasNode, Stops
  <2>6. Keeps(made, made') BY <2>1, KeepsSame
  <2>7. ~doubled => Alone' /\ Listing' /\ Story' BY <1>0, <2>1, <2>3, <2>4, <2>5, <2>6, TaleKept
  <2> QED BY <1>0, <2>1, <2>6, <2>7, RegisteredKept DEF Told
<1>4. ASSUME NEW c \in Client, Bootstrap(c) \/ Join(c) \/ JoinAlone(c) PROVE Ok
  <2>1. Same BY <1>4 DEF Bootstrap, Join, JoinAlone, orch
  <2>2. th[c].pc \in {"bootstrap", "join"} /\ th[c].node \in 1 .. Len(made)
    <3>1. CASE Bootstrap(c) BY <3>1, Bootstraps DEF IInv
    <3>2. CASE Join(c) BY <3>2, Joins DEF IInv
    <3>3. CASE JoinAlone(c) BY <3>3, JoinsAlone DEF IInv
    <3> QED BY <1>4, <3>1, <3>2, <3>3
  <2>3. PICK s \in Thread, x \in Nat :
          /\ Goto(c, s) /\ s.pc \in {"publish", "join"} /\ s.node = th[c].node /\ s.addr = th[c].addr
          /\ made' = WithNetwork(made, th[c].node, x) \/ made' = made
    BY <1>4, Wires
  <2>4. Hand(th[c]) /\ Holds(th[c]) /\ th[c].pc \notin Stops BY <2>2 DEF Hand, Holds, HasNode, Stops
  <2>5. Hand(s) /\ Holds(s) /\ s.pc \notin Stops BY <2>3 DEF Hand, Holds, HasNode, Stops
  <2>6. Keeps(made, made') /\ Len(made') = Len(made)
        /\ \A i \in 1 .. Len(made) : made'[i].state = made[i].state
    <3>1. made \in Seq(Made) BY InRange
    <3> QED BY <2>2, <2>3, <3>1, SetNetwork, KeepsSame
  <2>7. ~doubled => Alone' /\ Listing' /\ Story' BY <1>0, <2>1, <2>3, <2>4, <2>5, <2>6, TaleKept
  <2> QED BY <1>0, <2>1, <2>6, <2>7, RegisteredKept DEF Told
<1>5. ASSUME NEW c \in Client, JoinFails(c) \/ Deregister(c) PROVE Ok
  <2>1. /\ registry' = [registry EXCEPT ![th[c].addr] = None]
        /\ UNCHANGED <<made, nodes, nodeAddrs, doubled>>
    BY <1>5 DEF JoinFails, Deregister, orch
  <2>2. th[c].pc \in {"join", "deregister"} BY <1>5 DEF JoinFails, Deregister, At
  <2>3. Hand(th[c]) /\ Holds(th[c]) BY <2>2 DEF Hand, Holds, HasNode, Stops
  <2>4. PICK s \in Thread :
          /\ Goto(c, s) /\ ~Holds(s) /\ (Hand(s) => s.addr = th[c].addr)
          /\ (th[c].pc \in Stops => s.pc \in Stops /\ s.node = th[c].node)
    <3>1. CASE JoinFails(c)
      <4>1. th[c].pc = "join" /\ th[c].op # "idle" /\ Goto(c, Failed(c))
        BY <3>1 DEF JoinFails, At, IInv, Threads, ThreadOK
      <4>2. Failed(c) \in Thread /\ Failed(c).pc \in {"idle", "next"} BY <4>1, EndsOK DEF IInv
      <4> QED BY <4>1, <4>2 DEF Hand, Holds, HasNode, Stops
    <3>2. CASE Deregister(c)
      <4>1. PICK u \in Thread : u = th[c] BY DEF IInv, Types
      <4>2. PICK t : t = [u EXCEPT !.pc = "stop"] OBVIOUS
      <4>3. t \in Thread /\ t.pc = "stop" /\ t.addr = u.addr /\ t.node = u.node BY <4>2 DEF Thread, Pcs
      <4>4. Goto(c, t) BY <3>2, <4>1, <4>2 DEF Deregister
      <4> QED BY <4>1, <4>3, <4>4 DEF Holds, HasNode, Stops
    <3> QED BY <1>5, <3>1, <3>2
  <2>5. Keeps(made, made') BY <2>1, KeepsSame
  <2>6. \A a \in Port : registry'[a] \in {None, registry[a]} BY <2>1 DEF IInv, Types
  <2>7. ~doubled => Alone' /\ Listing' /\ Story' BY <1>0, <2>1, <2>3, <2>4, <2>5, EndTale
  <2> QED BY <1>0, <2>1, <2>5, <2>6, <2>7, RegisteredKept DEF Told
<1>6. ASSUME NEW c \in Client, StopNode(c) PROVE Ok
  <2>1. /\ th[c].pc = "stop" /\ th[c].node \in 1 .. Len(made) /\ made' = WithState(made, th[c].node, "stopped")
        /\ Goto(c, Done(c)) /\ Done(c) \in Thread /\ GoesOn(c, Done(c))
    BY <1>6, StopsNode
  <2>2. Same BY <1>6 DEF StopNode, orch
  <2>3. made \in Seq(Made) BY InRange
  <2>4. Keeps(made, made') /\ Len(made') = Len(made)
        /\ \A i \in 1 .. Len(made) : made'[i].state = IF i = th[c].node THEN "stopped" ELSE made[i].state
    BY <2>1, <2>3, SetState
  <2>5. Hand(th[c]) /\ ~Holds(th[c]) BY <2>1 DEF Hand, Holds, HasNode, Stops
  <2>6. ~Hand(Done(c)) /\ ~Holds(Done(c)) BY <2>1 DEF GoesOn, Hand, Holds, HasNode, Stops
  <2>7. \A i \in 1 .. Len(made) : made'[i].state = "runs" => made[i].state = "runs" /\ th[c].node # i
    BY <2>4
  <2>8. ~doubled => Alone' /\ Listing' /\ Story' BY <1>0, <2>1, <2>2, <2>4, <2>5, <2>6, <2>7, EndTale
  <2> QED BY <1>0, <2>2, <2>4, <2>8, RegisteredKept DEF Told
<1>7. ASSUME NEW c \in Client, Check(c) PROVE Ok
  <2>1. UNCHANGED <<made, registry>> /\ (doubled => doubled') BY <1>7 DEF Check
  <2>2. Keeps(made, made') BY <2>1, KeepsSame
  <2>3. ASSUME ~doubled' PROVE Alone' /\ Listing' /\ Story' BY <1>0, <1>7, <2>1, <2>3, CheckTale
  <2> QED BY <1>0, <2>1, <2>2, <2>3, RegisteredKept DEF Told
<1>8. ASSUME NEW c \in Client, Unmap(c) PROVE Ok
  <2>1. UNCHANGED <<made, registry, doubled>> BY <1>8 DEF Unmap
  <2>2. Keeps(made, made') BY <2>1, KeepsSame
  <2> QED BY <1>0, <1>8, <2>1, <2>2, UnmapTale, RegisteredKept DEF Told
<1>9. ASSUME NEW c \in Client, Make(c) PROVE Ok
  <2>1. doubled' = doubled BY <1>9 DEF Make
  <2>2. ~doubled => Alone' /\ Listing' /\ Story' BY <1>0, <1>9, MakeTale
  <2>3. Registered' BY <1>0, <1>9, MakesRegistered
  <2> QED BY <2>1, <2>2, <2>3 DEF Told
<1>10. ASSUME NEW c \in Client, Publish(c) PROVE Ok
  <2>1. UNCHANGED <<registry, doubled>> BY <1>10 DEF Publish
  <2>2. Keeps(made, made')
    <3>1. made \in Seq(Made) BY InRange
    <3>2. th[c].node \in 1 .. Len(made) /\ made' = WithState(made, th[c].node, "runs")
      BY <1>10, Publishes DEF IInv
    <3> QED BY <3>1, <3>2, SetState
  <2> QED BY <1>0, <1>10, <2>1, <2>2, PublishTale, RegisteredKept DEF Told
<1>11. ASSUME NEW c \in Client, Reset(c) PROVE Ok
  <2>1. doubled' = doubled BY <1>11 DEF Reset
  <2>2. Keeps(made, made') /\ registry' = [a \in Port |-> IF nodes[a] # None THEN None ELSE registry[a]]
    BY <1>11, Resets DEF IInv
  <2>3. \A a \in Port : registry'[a] \in {None, registry[a]} BY <2>2
  <2> QED BY <1>0, <1>11, <2>1, <2>2, <2>3, ResetTale, RegisteredKept DEF Told
<1> QED
  BY <1>1, <1>2, <1>3, <1>4, <1>5, <1>6, <1>7, <1>8, <1>9, <1>10, <1>11 DEF Next

LEMMA InitTale == ASSUME OrchestratorAssumption, Init PROVE Tale
<1>1. th = [c \in Client |-> Idle] /\ Idle.op = "idle" /\ Idle.pc = "idle" BY DEF Init, Idle
<1>2. \A c \in Client : /\ ~Running(th[c]) /\ ~Counted(th[c]) /\ ~Hand(th[c]) /\ ~Holds(th[c])
                        /\ th[c].pc \notin Stops
  BY <1>1 DEF Running, Counted, Hand, Holds, HasNode, Stops
<1>3. \A a \in Port : nodes[a] = None /\ registry[a] = None BY DEF Init, NoNodes
<1>4. Len(made) = 0 /\ Len(nodeAddrs) = 0 BY DEF Init
<1>5. Ledger BY <1>2, <1>3 DEF Ledger, Apart, Counter
<1>6. Registered BY <1>3 DEF Registered
<1>7. Alone BY <1>2 DEF Alone
<1>8. Listing BY <1>3, <1>4 DEF Listing
<1>9. Story BY <1>3, <1>4 DEF Story
<1> QED BY <1>5, <1>6, <1>7, <1>8, <1>9 DEF Tale, Told

LEMMA TaleInvariant == Spec => [](IInv /\ Tale)
<1>1. Init => IInv /\ Tale BY OrchestratorAssumption, InitIInv, InitTale
<1>2. (IInv /\ Tale) /\ [Next]_vars => (IInv /\ Tale)' BY OrchestratorAssumption, Inductive, TaleNext
<1> QED BY <1>1, <1>2, PTL DEF Spec

\* nodeAddrs has the addresses of the nodes, each once, so as many as there are.
LEMMA ListingCounts ==
  ASSUME OrchestratorAssumption, IInv, Listing
  PROVE  Range(nodeAddrs) = Mapped /\ Len(nodeAddrs) = NodeCount
<1>1. nodeAddrs \in Seq(Port) /\ Len(nodeAddrs) \in Nat /\ DOMAIN nodeAddrs = 1 .. Len(nodeAddrs)
  BY LenProperties DEF IInv, Types, Rest
<1>2. \A k \in 1 .. Len(nodeAddrs) : nodeAddrs[k] \in Port BY <1>1, ElementOfSeq
<1>3. \A a \in Mapped : \E k \in 1 .. Len(nodeAddrs) : nodeAddrs[k] = a BY DEF Listing, Mapped
<1>4. \A k \in 1 .. Len(nodeAddrs) : nodeAddrs[k] \in Mapped BY <1>2 DEF Listing, Mapped
<1>5. Range(nodeAddrs) = Mapped BY <1>1, <1>3, <1>4 DEF Range
<1>6. PICK f : f = [k \in 1 .. Len(nodeAddrs) |-> nodeAddrs[k]] OBVIOUS
<1>7. f \in [1 .. Len(nodeAddrs) -> Mapped] BY <1>4, <1>6
<1>8. f \in Injection(1 .. Len(nodeAddrs), Mapped)
  <2>1. \A j, k \in 1 .. Len(nodeAddrs) : f[j] = f[k] => j = k BY <1>6 DEF Listing
  <2> QED BY <1>7, <2>1 DEF Injection, IsInjective
<1>9. f \in Surjection(1 .. Len(nodeAddrs), Mapped) BY <1>3, <1>6, <1>7 DEF Surjection
<1>10. ExistsBijection(1 .. Len(nodeAddrs), Mapped) BY <1>8, <1>9 DEF ExistsBijection, Bijection
<1>11. Cardinality(Mapped) = Len(nodeAddrs) BY <1>1, <1>10, FS_CountingElements
<1> QED BY <1>5, <1>11 DEF NodeCount

\* Consistent: whatever requests overlap, the maps, the transport's registry and the
\* running nodes tell the same story until one address is in two hands.
THEOREM OneStory == Spec => []Consistent
<1>1. IInv /\ Tale => Consistent
  <2> SUFFICES ASSUME IInv, Tale, ~doubled
               PROVE  /\ \A a \in Mapped : registry[a] = nodes[a]
                      /\ \A i \in Node : made[i].state = "runs" =>
                           nodes[made[i].addr] = i \/ \E c \in Client : Stopping(c) /\ th[c].node = i
                      /\ \A a \in Port : registry[a] # None =>
                           nodes[a] = registry[a] \/ \E c \in Client : th[c].node = registry[a]
                      /\ Range(nodeAddrs) = Mapped /\ Len(nodeAddrs) = NodeCount
    BY DEF Consistent
  <2>1. Listing /\ Story BY DEF Tale, Told
  <2>2. Node = 1 .. Len(made) BY LenProperties DEF Node, IInv, Types
  <2>3. \A a \in Mapped : registry[a] = nodes[a] BY <2>1 DEF Story, Mapped
  <2>4. \A i \in Node : made[i].state = "runs" =>
          nodes[made[i].addr] = i \/ \E c \in Client : Stopping(c) /\ th[c].node = i
    BY <2>1, <2>2 DEF Story, Stopping, Stops
  <2>5. \A a \in Port : registry[a] # None =>
          nodes[a] = registry[a] \/ \E c \in Client : th[c].node = registry[a]
    BY <2>1 DEF Story
  <2> QED BY <2>1, <2>3, <2>4, <2>5, ListingCounts, OrchestratorAssumption
<1> QED BY <1>1, TaleInvariant, PTL

-----------------------------------------------------------------------------
(* One network.                                                              *)

\* The nodes there are, and those on their way, are of the protocol in force; it is
\* only written back unchanged, or when there are none.
Uniform ==
  /\ \A c \in Client : th[c].pc = "config" => th[c].protocol = protocol \/ Mapped = {}
  /\ \A a \in Port : nodes[a] # None => made[nodes[a]].protocol = protocol
  /\ \A c \in Client : th[c].pc \in HasNode => made[th[c].node].protocol = protocol

\* What lives on the network: a listed node, one on its way, and whoever is registered
\* where a node is about to join.
Living(i) ==
  \/ \E a \in Port : nodes[a] = i
  \/ \E c \in Client : th[c].pc \in HasNode /\ th[c].node = i
  \/ \E c \in Client : th[c].pc = "join" /\ registry[made[th[c].boot].addr] = i

\* In a network, and not in one that a join which reached nobody has founded.
Placed(i) == made[i].network \notin {None} \cup strays

Wired ==
  /\ \A i, j \in 1 .. Len(made) :
       Living(i) /\ Living(j) /\ Placed(i) /\ Placed(j) => made[i].network = made[j].network
  /\ \A a \in Port : nodes[a] # None => made[nodes[a]].network # None
  /\ \A c \in Client : th[c].pc = "publish" => made[th[c].node].network # None
  /\ \A c \in Client : th[c].pc = "make" /\ th[c].first => Mapped = {} /\ ~Alongside(c)

Net ==
  /\ ~crossed => Uniform
  /\ ~crossed /\ ~firsts /\ ~doubled => Wired

\* A request that does anything runs; unless one is crossed, no other switches.
LEMMA Runs ==
  ASSUME IInv, NEW c \in Client, th[c].pc # "idle"
  PROVE  /\ Running(th[c]) /\ th[c].op # "idle"
         /\ Ledger /\ ~crossed => \A d \in Client \ {c} : th[d].pc \notin {"reset", "config"}
<1>1. Running(th[c]) /\ th[c].op # "idle" BY DEF IInv, Threads, ThreadOK, Running
<1>2. \A d \in Client : th[d].pc \in {"reset", "config"} => Switches(th[d]) BY DEF IInv, Threads, ThreadOK
<1>3. \A d \in Client : Switches(th[d]) => Running(th[d]) BY DEF Switches, Running
<1> QED BY <1>1, <1>2, <1>3 DEF Ledger, Apart

LEMMA UniformKept ==
  ASSUME IInv, Ledger, ~crossed, Uniform, NEW c \in Client, NEW s \in Thread, Goto(c, s),
         th[c].pc # "idle", s.pc # "config",
         s.pc \in HasNode => made'[s.node].protocol = protocol,
         Keeps(made, made'), protocol' = protocol,
         \A a \in Port : nodes'[a] \in {None, nodes[a]} \/ (th[c].pc \in HasNode /\ nodes'[a] = th[c].node)
  PROVE  Uniform'
<1>1. th'[c] = s /\ \A d \in Client : d # c => th'[d] = th[d] BY GoesTo DEF IInv, Types
<1>2. \A d \in Client : th'[d].pc # "config" BY <1>1, Runs
<1>3. \A j \in 1 .. Len(made) : made'[j].protocol = made[j].protocol BY DEF Keeps
<1>4. /\ \A d \in Client : th[d].pc \in HasNode => th[d].node \in 1 .. Len(made)
      /\ \A a \in Port : nodes[a] # None => nodes[a] \in 1 .. Len(made)
  BY InRange
<1>5. \A a \in Port : nodes'[a] # None => made'[nodes'[a]].protocol = protocol
  BY <1>3, <1>4 DEF Uniform
<1>6. \A d \in Client : th'[d].pc \in HasNode => made'[th'[d].node].protocol = protocol
  BY <1>1, <1>3, <1>4 DEF Uniform
<1> QED BY <1>2, <1>5, <1>6 DEF Uniform

\* A reset or a change of configuration that crosses nothing is alone.
LEMMA Alones ==
  ASSUME IInv, Ledger, ~crossed', NEW c \in Client, Reset(c) \/ UpdateConfig(c)
  PROVE  \A d \in Client \ {c} : th[d].pc = "idle"
<1>1. th[c].pc \in {"reset", "config"} /\ ~crossed BY DEF Reset, UpdateConfig, At
<1>2. Switches(th[c]) BY <1>1 DEF IInv, Threads, ThreadOK
<1>3. Running(th[c]) BY <1>2 DEF Switches, Running
<1>4. \A d \in Client \ {c} : ~Running(th[d]) BY <1>1, <1>2, <1>3 DEF Ledger, Apart
<1> QED BY <1>4 DEF IInv, Threads, ThreadOK, Running

LEMMA UniformNext == OrchestratorAssumption /\ IInv /\ Ledger /\ Uniform /\ ~crossed' /\ [Next]_vars => Uniform'
<1> SUFFICES ASSUME OrchestratorAssumption, IInv, Ledger, Uniform, ~crossed', [Next]_vars PROVE Uniform'
  OBVIOUS
<1>1. ASSUME NEW c \in Client, NEW r \in Requests,
             \/ spawnNode(c, r) \/ removeNode(c, r) \/ resetNetwork(c, r) \/ startNetwork(c, r)
             \/ updateConfig(c, r)
             \/ ScenarioBootstrap(c, r) \/ ScenarioBenchmark(c, r) \/ ScenarioChurn(c, r)
      PROVE  Uniform'
  <2>1. PICK s \in Thread : Begins(s) /\ Accept(c, r, s) BY <1>1, Comes DEF IInv
  <2>2. Goto(c, s) /\ UNCHANGED <<made, nodes, protocol>> BY <2>1 DEF Accept, orch
  <2>3. th'[c] = s /\ \A d \in Client : d # c => th'[d] = th[d] BY <2>2, GoesTo DEF IInv, Types
  <2>4. /\ s.pc \notin HasNode
        /\ s.pc = "config" => s.protocol = protocol \/ Mapped = {}
    BY <2>1 DEF Begins, HasNode
  <2>5. Mapped' = Mapped BY <2>2 DEF Mapped
  <2> QED BY <2>2, <2>3, <2>4, <2>5 DEF Uniform
<1>2. CASE HealPartition \/ (\E r \in Requests : SetPartition(r)) \/ UNCHANGED vars
  <2>1. UNCHANGED <<made, nodes, protocol, th>> BY <1>2 DEF HealPartition, SetPartition, orch, vars
  <2> QED BY <2>1 DEF Uniform, Mapped
<1>3. ASSUME NEW c \in Client, Continue(c) \/ TakeAddr(c) \/ JoinFails(c) \/ StopNode(c) \/ Deregister(c)
      PROVE  Uniform'
  <2>1. UNCHANGED <<nodes, protocol, crossed>>
    BY <1>3 DEF Continue, TakeAddr, JoinFails, StopNode, Deregister, orch
  <2>2. th[c].pc # "idle" BY <1>3 DEF Continue, TakeAddr, JoinFails, StopNode, Deregister, At
  <2>3. PICK s \in Thread : Goto(c, s) /\ s.pc # "config" /\ s.pc \notin HasNode
    <3>1. CASE Continue(c) BY <3>1, Continues DEF IInv, GoesOn, HasNode
    <3>2. CASE TakeAddr(c) BY <3>2, TakesAddr DEF IInv, HasNode
    <3>3. CASE JoinFails(c)
      <4>1. th[c].op # "idle" BY <2>2, Runs
      <4>2. Failed(c) \in Thread /\ Failed(c).pc \in {"idle", "next"} BY <4>1, EndsOK DEF IInv
      <4> QED BY <3>3, <4>2 DEF JoinFails, HasNode
    <3>4. CASE StopNode(c) BY <3>4, StopsNode DEF GoesOn, HasNode
    <3>5. CASE Deregister(c)
      <4>1. PICK u \in Thread : u = th[c] BY DEF IInv, Types
      <4>2. [u EXCEPT !.pc = "stop"] \in Thread /\ [u EXCEPT !.pc = "stop"].pc = "stop" BY DEF Thread, Pcs
      <4> QED BY <3>5, <4>1, <4>2 DEF Deregister, HasNode
    <3> QED BY <1>3, <3>1, <3>2, <3>3, <3>4, <3>5
  <2>4. Keeps(made, made')
    <3>1. CASE StopNode(c)
      <4>1. made \in Seq(Made) BY InRange
      <4> QED BY <3>1, <4>1, StopsNode, SetState
    <3>2. CASE ~StopNode(c) BY <1>3, <3>2, KeepsSame DEF Continue, TakeAddr, JoinFails, Deregister
    <3> QED BY <3>1, <3>2
  <2> QED BY <2>1, <2>2, <2>3, <2>4, UniformKept
<1>4. ASSUME NEW c \in Client, Check(c) PROVE Uniform'
  <2>1. PICK s \in Thread : Goto(c, s) /\ Checked(c, s) BY <1>4, Checks DEF IInv
  <2>2. UNCHANGED <<made, nodes, protocol, crossed>> /\ th[c].pc # "idle" BY <1>4 DEF Check, orch, At
  <2>3. s.pc # "config" /\ s.pc \notin HasNode BY <2>1 DEF Checked, HasNode
  <2>4. Keeps(made, made') BY <2>2, KeepsSame
  <2> QED BY <2>1, <2>2, <2>3, <2>4, UniformKept
<1>5. ASSUME NEW c \in Client, Make(c) PROVE Uniform'
  <2>1. PICK e \in Made, s \in Thread :
          /\ made' = Append(made, e) /\ Goto(c, s) /\ e.protocol = protocol
          /\ s.pc = (IF th[c].first THEN "publish" ELSE "bootstrap") /\ s.node = Len(made) + 1
    BY <1>5, Makes DEF IInv
  <2>2. UNCHANGED <<nodes, protocol, crossed>> /\ th[c].pc # "idle" BY <1>5 DEF Make, orch, At
  <2>3. Keeps(made, made') /\ made'[Len(made) + 1] = e BY <2>1, AddNode, InRange
  <2>4. s.pc # "config" BY <2>1
  <2> QED BY <2>1, <2>2, <2>3, <2>4, UniformKept
<1>6. ASSUME NEW c \in Client, Bootstrap(c) \/ Join(c) \/ JoinAlone(c) PROVE Uniform'
  <2>1. UNCHANGED <<nodes, protocol, crossed>> BY <1>6 DEF Bootstrap, Join, JoinAlone, orch
  <2>2. th[c].pc \in {"bootstrap", "join"} /\ th[c].node \in 1 .. Len(made)
    <3>1. CASE Bootstrap(c) BY <3>1, Bootstraps DEF IInv
    <3>2. CASE Join(c) BY <3>2, Joins DEF IInv
    <3>3. CASE JoinAlone(c) BY <3>3, JoinsAlone DEF IInv
    <3> QED BY <1>6, <3>1, <3>2, <3>3
  <2>3. PICK s \in Thread, x \in Nat :
          /\ Goto(c, s) /\ s.pc \in {"publish", "join"} /\ s.node = th[c].node
          /\ made' = WithNetwork(made, th[c].node, x) \/ made' = made
    BY <1>6, Wires
  <2>4. th[c].pc \in HasNode BY <2>2 DEF HasNode
  <2>5. Keeps(made, made')
    <3>1. made \in Seq(Made) BY InRange
    <3> QED BY <2>2, <2>3, <3>1, SetNetwork, KeepsSame
  <2>6. made'[s.node].protocol = protocol
    <3>1. made[s.node].protocol = protocol BY <2>3, <2>4 DEF Uniform
    <3> QED BY <2>2, <2>3, <2>5, <3>1 DEF Keeps
  <2> QED BY <2>1, <2>2, <2>3, <2>5, <2>6, UniformKept
<1>7. ASSUME NEW c \in Client, Publish(c) PROVE Uniform'
  <2>1. PICK i \in 1 .. Len(made), a \in Port : i = th[c].node /\ a = th[c].addr
    BY <1>7, Publishes DEF IInv
  <2>2. /\ th[c].pc = "publish" /\ made' = WithState(made, i, "runs") /\ nodes' = [nodes EXCEPT ![a] = i]
        /\ Goto(c, Done(c)) /\ Done(c) \in Thread /\ GoesOn(c, Done(c))
    BY <1>7, <2>1, Publishes DEF IInv
  <2>3. Keeps(made, made')
    <3>1. made' = WithState(made, i, "runs") /\ made \in Seq(Made) BY <2>2, InRange
    <3> QED BY <3>1, SetState
  <2>4. UNCHANGED <<protocol, crossed>> BY <1>7 DEF Publish
  <2>5. \A b \in Port : nodes'[b] \in {None, nodes[b]} \/ (th[c].pc \in HasNode /\ nodes'[b] = th[c].node)
    BY <2>1, <2>2 DEF IInv, Types, HasNode
  <2>6. Done(c).pc # "config" /\ Done(c).pc \notin HasNode BY <2>2 DEF GoesOn, HasNode
  <2> QED BY <2>2, <2>3, <2>4, <2>5, <2>6, UniformKept
<1>8. ASSUME NEW c \in Client, Unmap(c) PROVE Uniform'
  <2>1. UNCHANGED <<made, protocol, crossed>> /\ th[c].pc # "idle" BY <1>8 DEF Unmap, At
  <2>2. PICK s \in Thread : Goto(c, s) /\ s.pc # "config" /\ s.pc \notin HasNode
    BY <1>8, Unmaps DEF IInv, GoesOn, HasNode
  <2>3. nodes' = nodes \/ nodes' = [nodes EXCEPT ![th[c].addr] = None] BY <1>8, Unmaps DEF IInv
  <2>4. \A b \in Port : nodes'[b] \in {None, nodes[b]} BY <2>3 DEF IInv, Types
  <2>5. Keeps(made, made') BY <2>1, KeepsSame
  <2> QED BY <2>1, <2>2, <2>4, <2>5, UniformKept
<1>9. ASSUME NEW c \in Client, Reset(c) PROVE Uniform'
  <2>1. nodes' = NoNodes /\ th[c].pc = "reset" BY <1>9, Resets DEF IInv
  <2>2. PICK s \in Thread : Goto(c, s) /\ s.pc \in {"next", "config"} BY <1>9, Resets DEF IInv
  <2>3. th'[c] = s /\ \A d \in Client : d # c => th'[d] = th[d] BY <2>2, GoesTo DEF IInv, Types
  <2>4. \A a \in Port : nodes'[a] = None BY <2>1 DEF NoNodes
  <2>5. Mapped' = {} BY <2>4 DEF Mapped
  <2>6. \A d \in Client : th'[d].pc \notin HasNode
    <3>1. \A d \in Client \ {c} : th[d].pc = "idle" BY <1>9, Alones
    <3> QED BY <2>2, <2>3, <3>1 DEF HasNode
  <2> QED BY <2>4, <2>5, <2>6 DEF Uniform
<1>10. ASSUME NEW c \in Client, UpdateConfig(c) PROVE Uniform'
  <2>1. th[c].pc = "config" /\ protocol' = th[c].protocol BY <1>10, Updates DEF IInv
  <2>2. PICK s \in Thread : Goto(c, s) /\ s.pc = "next" BY <1>10, Updates DEF IInv
  <2>3. th'[c] = s /\ \A d \in Client : d # c => th'[d] = th[d] BY <2>2, GoesTo DEF IInv, Types
  <2>4. UNCHANGED <<made, nodes>> BY <1>10 DEF UpdateConfig
  <2>5. \A d \in Client \ {c} : th[d].pc = "idle" BY <1>10, Alones
  <2>6. \A d \in Client : th'[d].pc # "config" /\ th'[d].pc \notin HasNode
    BY <2>2, <2>3, <2>5 DEF HasNode
  <2>7. protocol' = protocol \/ Mapped = {} BY <2>1 DEF Uniform
  <2>8. \A a \in Port : nodes'[a] # None => made'[nodes'[a]].protocol = protocol'
    BY <2>4, <2>7 DEF Uniform, Mapped
  <2> QED BY <2>6, <2>8 DEF Uniform
<1> QED BY <1>1, <1>2, <1>3, <1>4, <1>5, <1>6, <1>7, <1>8, <1>9, <1>10 DEF Next

Spawns(s) == s.pc \in {"make"} \cup HasNode

LEMMA WiredFacts ==
  ASSUME IInv
  PROVE  /\ \A d \in Client : Spawning(d) <=> Spawns(th[d])
         /\ \A d \in Client : Spawning(d)' <=> Spawns(th'[d])
         /\ \A d \in Client : th[d].pc = "join" => th[d].boot \in 1 .. Len(made) /\ made[th[d].boot].addr \in Port
         /\ \A d \in Client : th[d].pc = "join" \/ th[d].pc = "publish" => th[d].pc \in HasNode /\ Spawns(th[d])
<1>1. ASSUME NEW d \in Client, th[d].pc = "join"
      PROVE  th[d].boot \in 1 .. Len(made) /\ made[th[d].boot].addr \in Port
  <2>1. th[d].boot \in 1 .. Len(made) BY <1>1 DEF IInv, Threads, ThreadOK
  <2>2. made[th[d].boot] \in Made BY <2>1, InRange, ElementOfSeq
  <2> QED BY <2>1, <2>2 DEF Made
<1>2. \A d \in Client : Spawning(d) <=> Spawns(th[d]) BY DEF Spawning, Spawns, HasNode
<1>3. \A d \in Client : Spawning(d)' <=> Spawns(th'[d]) BY DEF Spawning, Spawns, HasNode
<1>4. \A d \in Client : th[d].pc = "join" \/ th[d].pc = "publish" => th[d].pc \in HasNode /\ Spawns(th[d])
  BY DEF Spawns, HasNode
<1> QED BY <1>1, <1>2, <1>3, <1>4

\* While one request is about to make the first node, no other is spawning.
LEMMA FirstOnly ==
  ASSUME IInv, Wired, NEW c \in Client, Spawns(th[c]), NEW d \in Client \ {c}
  PROVE  ~(th[d].pc = "make" /\ th[d].first)
<1>1. Spawning(c) BY WiredFacts
<1> QED BY <1>1 DEF Wired, Alongside

\* A step that brings nothing onto the network but lists the node in hand, if any.
LEMMA WiredQuiet ==
  ASSUME IInv, Wired, NEW c \in Client, NEW s \in Thread, Goto(c, s), ~Spawns(s),
         Keeps(made, made'), Len(made') = Len(made),
         \A i \in 1 .. Len(made) : made'[i].network = made[i].network, strays' = strays,
         \A a \in Port : registry'[a] \in {None, registry[a]},
         \A a \in Port : nodes'[a] \in {None, nodes[a]} \/ (th[c].pc = "publish" /\ nodes'[a] = th[c].node)
  PROVE  Wired'
<1>1. th'[c] = s /\ \A d \in Client : d # c => th'[d] = th[d] BY GoesTo DEF IInv, Types
<1>2. /\ s.pc \notin HasNode /\ s.pc # "join" /\ s.pc # "publish" /\ s.pc # "make" BY DEF Spawns, HasNode
<1>3. ASSUME NEW i \in 1 .. Len(made), Living(i)' PROVE Living(i)
  <2>0. i # None BY DEF None
  <2>1. CASE \E a \in Port : nodes'[a] = i BY <2>0, <2>1, WiredFacts DEF Living
  <2>2. CASE \E d \in Client : th'[d].pc \in HasNode /\ th'[d].node = i BY <1>1, <1>2, <2>2 DEF Living
  <2>3. CASE \E d \in Client : th'[d].pc = "join" /\ registry'[made'[th'[d].boot].addr] = i
    <3>1. PICK d \in Client : th'[d].pc = "join" /\ registry'[made'[th'[d].boot].addr] = i BY <2>3
    <3>2. d # c /\ th'[d] = th[d] BY <1>1, <1>2, <3>1
    <3>3. th[d].boot \in 1 .. Len(made) /\ made[th[d].boot].addr \in Port BY <3>1, <3>2, WiredFacts
    <3>4. made'[th[d].boot].addr = made[th[d].boot].addr BY <3>3 DEF Keeps
    <3>5. registry[made[th[d].boot].addr] = i BY <2>0, <3>1, <3>2, <3>3, <3>4
    <3> QED BY <3>1, <3>2, <3>5 DEF Living
  <2> QED BY <1>3, <2>1, <2>2, <2>3 DEF Living
<1>4. /\ \A d \in Client : th[d].pc \in HasNode => th[d].node \in 1 .. Len(made)
      /\ \A a \in Port : nodes[a] # None => nodes[a] \in 1 .. Len(made)
  BY InRange
<1>5. \A i, j \in 1 .. Len(made') :
        Living(i)' /\ Living(j)' /\ Placed(i)' /\ Placed(j)' => made'[i].network = made'[j].network
  BY <1>3 DEF Wired, Placed
<1>6. \A a \in Port : nodes'[a] # None => made'[nodes'[a]].network # None
  <2> SUFFICES ASSUME NEW a \in Port, nodes'[a] # None PROVE made'[nodes'[a]].network # None
    OBVIOUS
  <2>1. CASE nodes'[a] = nodes[a] BY <1>4, <2>1 DEF Wired
  <2>2. CASE th[c].pc = "publish" /\ nodes'[a] = th[c].node
    <3>1. th[c].node \in 1 .. Len(made) BY <1>4, <2>2, WiredFacts
    <3> QED BY <2>2, <3>1 DEF Wired
  <2> QED BY <2>1, <2>2
<1>7. \A d \in Client : th'[d].pc = "publish" => made'[th'[d].node].network # None
  <2> SUFFICES ASSUME NEW d \in Client, th'[d].pc = "publish" PROVE made'[th'[d].node].network # None
    OBVIOUS
  <2>1. th'[d] = th[d] /\ th[d].pc = "publish" BY <1>1, <1>2
  <2>2. th[d].node \in 1 .. Len(made) BY <1>4, <2>1, WiredFacts
  <2> QED BY <2>1, <2>2 DEF Wired
<1>8. ASSUME NEW d \in Client, th'[d].pc = "make", th'[d].first PROVE Mapped' = {} /\ ~Alongside(d)'
  <2>1. d # c /\ th'[d] = th[d] BY <1>1, <1>2, <1>8
  <2>2. Mapped = {} /\ ~Alongside(d) BY <1>8, <2>1 DEF Wired
  <2>3. ~Spawns(th[c]) BY <1>8, <2>1, FirstOnly
  <2>4. \A a \in Port : nodes'[a] = None BY <2>2, <2>3, WiredFacts DEF Mapped
  <2>5. \A e \in Client \ {d} : ~Spawns(th[e]) BY <2>2, WiredFacts DEF Alongside
  <2>6. \A e \in Client \ {d} : ~Spawns(th'[e]) BY <1>1, <2>5
  <2>7. ~Alongside(d)' BY <2>6, WiredFacts DEF Alongside
  <2> QED BY <2>4, <2>7 DEF Mapped
<1> QED BY <1>5, <1>6, <1>7, <1>8 DEF Wired

\* The first node of a network is alone.
LEMMA WiredFirst ==
  ASSUME IInv, NEW c \in Client, NEW s \in Thread, Goto(c, s), s.pc = "publish",
         made'[s.node].network # None,
         \A a \in Port : nodes'[a] = None, \A d \in Client \ {c} : ~Spawning(d)
  PROVE  Wired'
<1>1. th'[c] = s /\ \A d \in Client : d # c => th'[d] = th[d] BY GoesTo DEF IInv, Types
<1>2. \A d \in Client : Spawns(th'[d]) => d = c BY <1>1, WiredFacts
<1>3. \A d \in Client : th'[d].pc \in HasNode \/ th'[d].pc \in {"join", "publish", "make"} => d = c
  BY <1>2 DEF Spawns, HasNode
<1>4. \A i : i # None /\ Living(i)' => i = s.node
  BY <1>1, <1>3 DEF Living
<1>5. \A i \in 1 .. Len(made') : i # None BY DEF None
<1>6. \A d \in Client : th'[d].pc # "make" BY <1>1, <1>3
<1> QED BY <1>1, <1>3, <1>4, <1>5, <1>6 DEF Wired

LEMMA WiredCheck ==
  ASSUME OrchestratorAssumption, IInv, Wired, ~firsts', NEW c \in Client, Check(c)
  PROVE  Wired'
<1>1. PICK s \in Thread : Goto(c, s) /\ Checked(c, s) BY Checks DEF IInv
<1>2. UNCHANGED <<made, nodes, registry, strays>> /\ th[c].pc = "check" BY DEF Check, orch, At
<1>3. th'[c] = s /\ \A d \in Client : d # c => th'[d] = th[d] BY <1>1, GoesTo DEF IInv, Types
<1>4. CASE ~Spawns(s)
  <2>1. Keeps(made, made') BY <1>2, KeepsSame
  <2> QED BY <1>1, <1>2, <1>4, <2>1, WiredQuiet
<1>5. CASE Spawns(s)
  <2>1. s.pc = "make" /\ (s.first <=> NodeCount = 0)
    BY <1>1, <1>5 DEF Checked, GoesOn, Spawns, HasNode
  <2>2. ~(NodeCount = 0 /\ Alongside(c)) BY DEF Check
  <2>3. NodeCount = 0 <=> Mapped = {} BY CountFacts
  <2>4. \A d \in Client : th'[d].pc \in HasNode \cup {"join", "publish"} => d # c /\ th'[d] = th[d]
    BY <1>3, <2>1 DEF HasNode
  <2>5. \A i : Living(i)' => Living(i) BY <1>2, <2>4 DEF Living
  <2>6. ASSUME NEW d \in Client, th'[d].pc = "make", th'[d].first PROVE Mapped' = {} /\ ~Alongside(d)'
    <3>1. CASE d = c
      <4>1. Mapped = {} /\ ~Alongside(c) BY <1>3, <2>1, <2>2, <2>3, <2>6, <3>1
      <4>2. \A e \in Client \ {c} : ~Spawning(e)' BY <1>3, <4>1, WiredFacts DEF Alongside
      <4> QED BY <1>2, <3>1, <4>1, <4>2 DEF Mapped, Alongside
    <3>2. CASE d # c
      <4>1. th[d].pc = "make" /\ th[d].first BY <1>3, <2>6, <3>2
      <4>2. Spawning(d) BY <4>1 DEF Spawning
      <4>3. Alongside(c) BY <3>2, <4>2 DEF Alongside
      <4>4. Mapped = {} BY <4>1 DEF Wired
      <4> QED BY <2>2, <2>3, <4>3, <4>4
    <3> QED BY <3>1, <3>2
  <2> QED BY <1>2, <2>4, <2>5, <2>6 DEF Wired, Placed
<1> QED BY <1>4, <1>5

LEMMA WiredMake ==
  ASSUME IInv, Wired, NEW c \in Client, Make(c)
  PROVE  Wired'
<1>1. PICK a \in Port : a = th[c].addr BY Makes DEF IInv
<1>2. PICK e \in Made, s \in Thread :
        /\ made' = Append(made, e) /\ Goto(c, s)
        /\ e.network = (IF th[c].first THEN Len(made) + 1 ELSE None)
        /\ s.pc = (IF th[c].first THEN "publish" ELSE "bootstrap") /\ s.node = Len(made) + 1
  BY Makes DEF IInv
<1>3. th[c].pc = "make" BY Makes DEF IInv
<1>4. th'[c] = s /\ \A d \in Client : d # c => th'[d] = th[d] BY <1>2, GoesTo DEF IInv, Types
<1>5. /\ made \in Seq(Made) /\ Len(made) \in Nat
      /\ \A d \in Client : th[d].pc \in HasNode => th[d].node \in 1 .. Len(made)
      /\ \A b \in Port : nodes[b] # None => nodes[b] \in 1 .. Len(made)
  BY InRange
<1>6. /\ Len(made') = Len(made) + 1
      /\ \A j \in 1 .. Len(made) : made'[j] = made[j]
      /\ made'[Len(made) + 1] = e
  BY <1>2, <1>5, AddNode
<1>7. nodes' = nodes /\ registry' = [registry EXCEPT ![a] = Len(made) + 1] /\ strays' = strays
  BY <1>1 DEF Make, orch
<1>8. \A b \in Port : registry'[b] = IF b = a THEN Len(made) + 1 ELSE registry[b]
  BY <1>7 DEF IInv, Types
<1>9. Spawns(th[c]) BY <1>3 DEF Spawns
<1>10. CASE th[c].first
  <2>1. Mapped = {} /\ ~Alongside(c) BY <1>3, <1>10 DEF Wired
  <2>2. s.pc = "publish" /\ made'[s.node].network # None BY <1>2, <1>5, <1>6, <1>10 DEF None
  <2>3. \A b \in Port : nodes'[b] = None BY <1>7, <2>1 DEF Mapped
  <2>4. \A d \in Client \ {c} : ~Spawning(d) BY <2>1 DEF Alongside
  <2> QED BY <1>2, <2>2, <2>3, <2>4, WiredFirst
<1>11. CASE ~th[c].first
  <2>1. s.pc = "bootstrap" /\ e.network = None BY <1>2, <1>11
  <2>2. \A j \in 1 .. Len(made') : Placed(j)' => j \in 1 .. Len(made) /\ Placed(j)
    BY <1>5, <1>6, <1>7, <2>1 DEF Placed
  <2>3. ASSUME NEW j \in 1 .. Len(made), Living(j)' PROVE Living(j)
    <3>0. j # Len(made) + 1 BY <1>5
    <3>1. CASE \E b \in Port : nodes'[b] = j BY <1>7, <3>1 DEF Living
    <3>2. CASE \E d \in Client : th'[d].pc \in HasNode /\ th'[d].node = j
      BY <1>2, <1>4, <3>0, <3>2 DEF Living
    <3>3. CASE \E d \in Client : th'[d].pc = "join" /\ registry'[made'[th'[d].boot].addr] = j
      <4>1. PICK d \in Client : th'[d].pc = "join" /\ registry'[made'[th'[d].boot].addr] = j BY <3>3
      <4>2. d # c /\ th'[d] = th[d] BY <1>4, <2>1, <4>1
      <4>3. th[d].boot \in 1 .. Len(made) /\ made[th[d].boot].addr \in Port BY <4>1, <4>2, WiredFacts
      <4>4. registry[made[th[d].boot].addr] = j BY <1>6, <1>8, <3>0, <4>1, <4>2, <4>3
      <4> QED BY <4>1, <4>2, <4>4 DEF Living
    <3> QED BY <2>3, <3>1, <3>2, <3>3 DEF Living
  <2>4. \A i, j \in 1 .. Len(made') :
          Living(i)' /\ Living(j)' /\ Placed(i)' /\ Placed(j)' => made'[i].network = made'[j].network
    BY <1>6, <2>2, <2>3 DEF Wired
  <2>5. \A b \in Port : nodes'[b] # None => made'[nodes'[b]].network # None
    BY <1>5, <1>6, <1>7 DEF Wired
  <2>6. \A d \in Client : th'[d].pc = "publish" => made'[th'[d].node].network # None
    BY <1>4, <1>5, <1>6, <2>1, WiredFacts DEF Wired
  <2>7. \A d \in Client : ~(th'[d].pc = "make" /\ th'[d].first) BY <1>4, <1>9, <2>1, FirstOnly
  <2> QED BY <2>4, <2>5, <2>6, <2>7 DEF Wired
<1> QED BY <1>10, <1>11

\* A node that finds no other founds a network, and then there is no other; the one
\* it finds is the one registered.
LEMMA WiredBootstrap ==
  ASSUME IInv, Uniform, Story, Wired, ~firsts', NEW c \in Client, Bootstrap(c)
  PROVE  Wired'
<1>1. PICK i \in 1 .. Len(made) : i = th[c].node BY Bootstraps DEF IInv
<1>2. th[c].pc = "bootstrap" BY Bootstraps DEF IInv
<1>3. UNCHANGED <<nodes, registry, strays>> BY DEF Bootstrap, orch
<1>4. th[c].pc \in HasNode /\ Spawns(th[c]) BY <1>2 DEF HasNode, Spawns
<1>5. made[i].protocol = protocol BY <1>1, <1>4 DEF Uniform
<1>6. \A a \in Port : nodes[a] # None => typed[protocol][a] = nodes[a] BY DEF IInv, Maps, Uniform
<1>7. CASE \E s \in Thread : /\ Goto(c, s) /\ s.node = i /\ s.pc = "publish"
                             /\ made' = [made EXCEPT ![i].network = i]
                             /\ \A a \in Port : ~Lists(protocol, a)
                             /\ firsts' = (firsts \/ Alongside(c))
  <2>1. PICK s \in Thread : Goto(c, s) /\ s.node = i /\ s.pc = "publish" BY <1>7
  <2>2. \A a \in Port : nodes[a] = None BY <1>6, <1>7 DEF Lists
  <2>3. \A d \in Client \ {c} : ~Spawning(d) BY <1>7 DEF Alongside
  <2>4. made'[i].network = i
    <3>1. made' = WithNetwork(made, i, i) BY <1>7 DEF WithNetwork
    <3>2. made \in Seq(Made) /\ i \in Nat BY InRange
    <3>3. WithNetwork(made, i, i)[i].network = i BY <3>2, SetNetwork
    <3> QED BY <3>1, <3>3
  <2>5. i # None BY DEF None
  <2> QED BY <1>3, <2>1, <2>2, <2>3, <2>4, <2>5, WiredFirst
<1>8. CASE \E s \in Thread : /\ Goto(c, s) /\ s.node = i /\ s.pc = "join" /\ made' = made /\ s.boot # None
                             /\ \E a \in Port : s.boot = typed[protocol][a]
  <2>1. PICK s \in Thread, a \in Port :
          /\ Goto(c, s) /\ s.node = i /\ s.pc = "join" /\ made' = made /\ s.boot # None
          /\ s.boot = typed[protocol][a]
    BY <1>8
  <2>2. th'[c] = s /\ \A d \in Client : d # c => th'[d] = th[d] BY <2>1, GoesTo DEF IInv, Types
  <2>3. protocol \in Protocol BY DEF IInv, Types, Rest
  <2>4. made[s.boot].addr = a /\ nodes[a] # None BY <2>1, <2>3 DEF IInv, Maps, Lists
  <2>5. registry[a] = nodes[a] BY <2>4 DEF Story
  <2>6. ASSUME NEW j, Living(j)' PROVE Living(j)
    <3>1. CASE \E b \in Port : nodes'[b] = j BY <1>3, <3>1 DEF Living
    <3>2. CASE \E d \in Client : th'[d].pc \in HasNode /\ th'[d].node = j
      BY <1>1, <1>4, <2>1, <2>2, <3>2 DEF Living
    <3>3. CASE \E d \in Client : th'[d].pc = "join" /\ registry'[made'[th'[d].boot].addr] = j
      <4>1. PICK d \in Client : th'[d].pc = "join" /\ registry'[made'[th'[d].boot].addr] = j BY <3>3
      <4>2. CASE d = c BY <1>3, <2>1, <2>2, <2>4, <2>5, <4>1, <4>2 DEF Living
      <4>3. CASE d # c BY <1>3, <2>1, <2>2, <4>1, <4>3 DEF Living
      <4> QED BY <4>2, <4>3
    <3> QED BY <2>6, <3>1, <3>2, <3>3 DEF Living
  <2>7. \A d \in Client : ~(th'[d].pc = "make" /\ th'[d].first) BY <1>4, <2>1, <2>2, FirstOnly
  <2>8. \A d \in Client : th'[d].pc = "publish" => th'[d] = th[d] BY <2>1, <2>2
  <2> QED BY <1>3, <2>1, <2>6, <2>7, <2>8 DEF Wired, Placed
<1> QED BY <1>1, <1>5, <1>7, <1>8, Bootstraps DEF IInv

\* A node that joins gets the network of the one it joins through.
LEMMA WiredJoin ==
  ASSUME IInv, Wired, ~firsts', NEW c \in Client, Join(c)
  PROVE  Wired'
<1>1. PICK i \in 1 .. Len(made) : i = th[c].node BY Joins DEF IInv
<1>2. PICK n \in 1 .. Len(made) : n = registry[made[th[c].boot].addr] BY Joins DEF IInv
<1>3. PICK x \in Nat, s \in Thread :
        /\ x # None /\ made' = WithNetwork(made, i, x) /\ x = made[n].network
        /\ Goto(c, s) /\ s.pc = "publish" /\ s.node = i
  BY <1>1, <1>2, Joins DEF IInv
<1>4. th[c].pc = "join" BY Joins DEF IInv
<1>5. UNCHANGED <<nodes, registry, strays>> BY DEF Join, orch
<1>6. th'[c] = s /\ \A d \in Client : d # c => th'[d] = th[d] BY <1>3, GoesTo DEF IInv, Types
<1>7. th[c].pc \in HasNode /\ Spawns(th[c]) /\ s.pc # "join" BY <1>3, <1>4 DEF HasNode, Spawns
<1>8. Len(made') = Len(made) /\ Keeps(made, made')
      /\ \A j \in 1 .. Len(made) : made'[j].network = IF j = i THEN x ELSE made[j].network
  <2>1. made' = WithNetwork(made, i, x) BY <1>3
  <2>2. made \in Seq(Made) BY InRange
  <2> DEFINE m == WithNetwork(made, i, x)
  <2>3. Len(m) = Len(made) /\ Keeps(made, m)
        /\ \A j \in 1 .. Len(made) : m[j].network = IF j = i THEN x ELSE made[j].network
    BY <2>2, SetNetwork
  <2> HIDE DEF m
  <2> QED BY <2>1, <2>3 DEF m
<1>9. Living(i) /\ Living(n) BY <1>1, <1>2, <1>4, <1>7 DEF Living
<1>10. ASSUME NEW j \in 1 .. Len(made), Living(j)' PROVE Living(j)
  <2>1. CASE \E b \in Port : nodes'[b] = j BY <1>5, <2>1 DEF Living
  <2>2. CASE \E d \in Client : th'[d].pc \in HasNode /\ th'[d].node = j
    BY <1>1, <1>3, <1>6, <1>7, <2>2 DEF Living
  <2>3. CASE \E d \in Client : th'[d].pc = "join" /\ registry'[made'[th'[d].boot].addr] = j
    <3>1. PICK d \in Client : th'[d].pc = "join" /\ registry'[made'[th'[d].boot].addr] = j BY <2>3
    <3>2. d # c /\ th'[d] = th[d] BY <1>6, <1>7, <3>1
    <3>3. th[d].boot \in 1 .. Len(made) BY <3>1, <3>2, WiredFacts
    <3>4. made'[th[d].boot].addr = made[th[d].boot].addr BY <1>8, <3>3 DEF Keeps
    <3> QED BY <1>5, <3>1, <3>2, <3>4 DEF Living
  <2> QED BY <1>10, <2>1, <2>2, <2>3 DEF Living
<1>11. ASSUME NEW j \in 1 .. Len(made), Living(j), Placed(j)', x \notin strays PROVE made'[j].network = x
  <2>1. CASE j = i BY <1>8, <2>1
  <2>2. CASE j # i
    <3>1. Placed(j) /\ made'[j].network = made[j].network BY <1>5, <1>8, <1>11, <2>2 DEF Placed
    <3>2. Placed(n) BY <1>3, <1>11 DEF Placed
    <3> QED BY <1>3, <1>9, <1>11, <3>1, <3>2 DEF Wired
  <2> QED BY <2>1, <2>2
<1>12. /\ \A d \in Client : th[d].pc \in HasNode => th[d].node \in 1 .. Len(made)
       /\ \A a \in Port : nodes[a] # None => nodes[a] \in 1 .. Len(made)
  BY InRange
<1>13. \A j, k \in 1 .. Len(made') :
         Living(j)' /\ Living(k)' /\ Placed(j)' /\ Placed(k)' => made'[j].network = made'[k].network
  <2> SUFFICES ASSUME NEW j \in 1 .. Len(made), NEW k \in 1 .. Len(made),
                      Living(j)', Living(k)', Placed(j)', Placed(k)'
               PROVE  made'[j].network = made'[k].network
    BY <1>8
  <2>1. CASE x \notin strays BY <1>10, <1>11, <2>1
  <2>2. CASE x \in strays
    <3>1. j # i /\ k # i BY <1>5, <1>8, <2>2 DEF Placed
    <3>2. Placed(j) /\ Placed(k) BY <1>5, <1>8, <3>1 DEF Placed
    <3> QED BY <1>8, <1>10, <3>1, <3>2 DEF Wired
  <2> QED BY <2>1, <2>2
<1>14. \A a \in Port : nodes'[a] # None => made'[nodes'[a]].network # None
  BY <1>3, <1>5, <1>8, <1>12 DEF Wired
<1>15. \A d \in Client : th'[d].pc = "publish" => made'[th'[d].node].network # None
  BY <1>3, <1>6, <1>8, <1>12, WiredFacts DEF Wired
<1>16. \A d \in Client : ~(th'[d].pc = "make" /\ th'[d].first) BY <1>3, <1>6, <1>7, FirstOnly
<1> QED BY <1>13, <1>14, <1>15, <1>16 DEF Wired

\* A node that joins alone is in none of the networks that must agree.
LEMMA WiredJoinAlone ==
  ASSUME IInv, Wired, NEW c \in Client, JoinAlone(c)
  PROVE  Wired'
<1>1. PICK i \in 1 .. Len(made) : i = th[c].node /\ i \in Nat /\ i # None BY JoinsAlone DEF IInv
<1>2. th[c].pc = "join" /\ made' = WithNetwork(made, i, i) BY <1>1, JoinsAlone DEF IInv
<1>3. PICK s \in Thread : Goto(c, s) /\ s.pc = "publish" /\ s.node = i BY <1>1, JoinsAlone DEF IInv
<1>4. UNCHANGED <<nodes, registry>> /\ strays' = strays \cup {i} BY <1>1 DEF JoinAlone, orch
<1>5. th'[c] = s /\ \A d \in Client : d # c => th'[d] = th[d] BY <1>3, GoesTo DEF IInv, Types
<1>6. th[c].pc \in HasNode /\ Spawns(th[c]) /\ s.pc # "join" BY <1>2, <1>3 DEF HasNode, Spawns
<1>7. Len(made') = Len(made) /\ Keeps(made, made')
      /\ \A j \in 1 .. Len(made) : made'[j].network = IF j = i THEN i ELSE made[j].network
  <2>1. made \in Seq(Made) BY InRange
  <2> DEFINE m == WithNetwork(made, i, i)
  <2>2. Len(m) = Len(made) /\ Keeps(made, m)
        /\ \A j \in 1 .. Len(made) : m[j].network = IF j = i THEN i ELSE made[j].network
    BY <1>1, <2>1, SetNetwork
  <2>3. made' = m BY <1>2
  <2> HIDE DEF m
  <2> QED BY <2>2, <2>3
<1>8. ASSUME NEW j \in 1 .. Len(made), Living(j)' PROVE Living(j)
  <2>1. CASE \E b \in Port : nodes'[b] = j BY <1>4, <2>1 DEF Living
  <2>2. CASE \E d \in Client : th'[d].pc \in HasNode /\ th'[d].node = j
    BY <1>1, <1>3, <1>5, <1>6, <2>2 DEF Living
  <2>3. CASE \E d \in Client : th'[d].pc = "join" /\ registry'[made'[th'[d].boot].addr] = j
    <3>1. PICK d \in Client : th'[d].pc = "join" /\ registry'[made'[th'[d].boot].addr] = j BY <2>3
    <3>2. d # c /\ th'[d] = th[d] BY <1>5, <1>6, <3>1
    <3>3. th[d].boot \in 1 .. Len(made) BY <3>1, <3>2, WiredFacts
    <3>4. made'[th[d].boot].addr = made[th[d].boot].addr BY <1>7, <3>3 DEF Keeps
    <3> QED BY <1>4, <3>1, <3>2, <3>4 DEF Living
  <2> QED BY <1>8, <2>1, <2>2, <2>3 DEF Living
<1>9. \A j \in 1 .. Len(made) : Placed(j)' => made'[j].network = made[j].network /\ Placed(j)
  BY <1>4, <1>7 DEF Placed
<1>10. \A j, k \in 1 .. Len(made') :
         Living(j)' /\ Living(k)' /\ Placed(j)' /\ Placed(k)' => made'[j].network = made'[k].network
  BY <1>7, <1>8, <1>9 DEF Wired
<1>11. /\ \A d \in Client : th[d].pc \in HasNode => th[d].node \in 1 .. Len(made)
       /\ \A a \in Port : nodes[a] # None => nodes[a] \in 1 .. Len(made)
  BY InRange
<1>12. \A a \in Port : nodes'[a] # None => made'[nodes'[a]].network # None
  BY <1>1, <1>4, <1>7, <1>11 DEF Wired
<1>13. \A d \in Client : th'[d].pc = "publish" => made'[th'[d].node].network # None
  BY <1>1, <1>3, <1>5, <1>7, <1>11, WiredFacts DEF Wired
<1>14. \A d \in Client : ~(th'[d].pc = "make" /\ th'[d].first) BY <1>3, <1>5, <1>6, FirstOnly
<1> QED BY <1>10, <1>12, <1>13, <1>14 DEF Wired

LEMMA WiredNext ==
  OrchestratorAssumption /\ IInv /\ Uniform /\ Story /\ Wired /\ ~firsts' /\ [Next]_vars => Wired'
<1> SUFFICES ASSUME OrchestratorAssumption, IInv, Uniform, Story, Wired, ~firsts', [Next]_vars PROVE Wired'
  OBVIOUS
<1> DEFINE Same == \A a \in Port : nodes'[a] \in {None, nodes[a]} /\ registry'[a] \in {None, registry[a]}
<1>1. ASSUME NEW c \in Client, NEW r \in Requests,
             \/ spawnNode(c, r) \/ removeNode(c, r) \/ resetNetwork(c, r) \/ startNetwork(c, r)
             \/ updateConfig(c, r)
             \/ ScenarioBootstrap(c, r) \/ ScenarioBenchmark(c, r) \/ ScenarioChurn(c, r)
      PROVE  Wired'
  <2>1. PICK s \in Thread : Begins(s) /\ Accept(c, r, s) BY <1>1, Comes DEF IInv
  <2>2. Goto(c, s) /\ made' = made /\ strays' = strays /\ Same BY <2>1 DEF Accept, orch
  <2>3. ~Spawns(s) BY <2>1 DEF Begins, Spawns, HasNode
  <2>4. Keeps(made, made') BY <2>2, KeepsSame
  <2> QED BY <2>2, <2>3, <2>4, WiredQuiet
<1>2. CASE HealPartition \/ (\E r \in Requests : SetPartition(r)) \/ UNCHANGED vars
  <2>1. UNCHANGED <<made, nodes, registry, th, strays>> BY <1>2 DEF HealPartition, SetPartition, orch, vars
  <2>2. \A i : Living(i)' => Living(i) BY <2>1 DEF Living
  <2>3. Mapped' = Mapped BY <2>1 DEF Mapped
  <2>4. \A d \in Client : Alongside(d)' <=> Alongside(d) BY <2>1 DEF Alongside, Spawning
  <2> QED BY <2>1, <2>2, <2>3, <2>4 DEF Wired, Placed
<1>3. ASSUME NEW c \in Client, Continue(c) \/ TakeAddr(c) \/ JoinFails(c) \/ Deregister(c) \/ UpdateConfig(c)
      PROVE  Wired'
  <2>1. made' = made /\ nodes' = nodes /\ strays' = strays
        /\ (registry' = registry \/ registry' = [registry EXCEPT ![th[c].addr] = None])
    BY <1>3 DEF Continue, TakeAddr, JoinFails, Deregister, UpdateConfig, orch
  <2>2. PICK s \in Thread : Goto(c, s) /\ ~Spawns(s)
    <3>1. CASE Continue(c) BY <3>1, Continues DEF IInv, GoesOn, Spawns, HasNode
    <3>2. CASE TakeAddr(c) BY <3>2, TakesAddr DEF IInv, Spawns, HasNode
    <3>3. CASE JoinFails(c)
      <4>1. th[c].pc = "join" BY <3>3 DEF JoinFails, At
      <4>2. th[c].op # "idle" BY <4>1, Runs
      <4>3. Failed(c) \in Thread /\ Failed(c).pc \in {"idle", "next"} BY <4>2, EndsOK DEF IInv
      <4> QED BY <3>3, <4>3 DEF JoinFails, Spawns, HasNode
    <3>4. CASE Deregister(c)
      <4>1. PICK u \in Thread : u = th[c] BY DEF IInv, Types
      <4>2. [u EXCEPT !.pc = "stop"] \in Thread /\ [u EXCEPT !.pc = "stop"].pc = "stop" BY DEF Thread, Pcs
      <4> QED BY <3>4, <4>1, <4>2 DEF Deregister, Spawns, HasNode
    <3>5. CASE UpdateConfig(c) BY <3>5, Updates DEF IInv, Spawns, HasNode
    <3> QED BY <1>3, <3>1, <3>2, <3>3, <3>4, <3>5
  <2>3. Same BY <2>1 DEF IInv, Types
  <2>4. Keeps(made, made') BY <2>1, KeepsSame
  <2> QED BY <2>1, <2>2, <2>3, <2>4, WiredQuiet
<1>4. ASSUME NEW c \in Client, Unmap(c) PROVE Wired'
  <2>1. UNCHANGED <<made, registry, strays>> BY <1>4 DEF Unmap
  <2>2. PICK s \in Thread : Goto(c, s) /\ ~Spawns(s)
    BY <1>4, Unmaps DEF IInv, GoesOn, Spawns, HasNode
  <2>3. nodes' = nodes \/ nodes' = [nodes EXCEPT ![th[c].addr] = None] BY <1>4, Unmaps DEF IInv
  <2>4. Same BY <2>1, <2>3 DEF IInv, Types
  <2>5. Keeps(made, made') BY <2>1, KeepsSame
  <2> QED BY <2>1, <2>2, <2>4, <2>5, WiredQuiet
<1>5. ASSUME NEW c \in Client, StopNode(c) PROVE Wired'
  <2>1. /\ th[c].node \in 1 .. Len(made) /\ made' = WithState(made, th[c].node, "stopped")
        /\ Goto(c, Done(c)) /\ Done(c) \in Thread /\ GoesOn(c, Done(c))
    BY <1>5, StopsNode
  <2>2. Same /\ strays' = strays BY <1>5 DEF StopNode, orch
  <2>3. made \in Seq(Made) BY InRange
  <2>4. Keeps(made, made') /\ Len(made') = Len(made)
        /\ \A i \in 1 .. Len(made) : made'[i].network = made[i].network
    <3> DEFINE m == WithState(made, th[c].node, "stopped")
    <3>1. Keeps(made, m) /\ Len(m) = Len(made) /\ \A i \in 1 .. Len(made) : m[i].network = made[i].network
      BY <2>1, <2>3, SetState
    <3>2. made' = m BY <2>1
    <3> HIDE DEF m
    <3> QED BY <3>1, <3>2
  <2>5. ~Spawns(Done(c)) BY <2>1 DEF GoesOn, Spawns, HasNode
  <2> QED BY <2>1, <2>2, <2>4, <2>5, WiredQuiet
<1>6. ASSUME NEW c \in Client, Publish(c) PROVE Wired'
  <2>1. PICK i \in 1 .. Len(made), a \in Port : i = th[c].node /\ a = th[c].addr
    BY <1>6, Publishes DEF IInv
  <2>2. /\ th[c].pc = "publish" /\ made' = WithState(made, i, "runs") /\ nodes' = [nodes EXCEPT ![a] = i]
        /\ Goto(c, Done(c)) /\ Done(c) \in Thread /\ GoesOn(c, Done(c))
    BY <1>6, <2>1, Publishes DEF IInv
  <2>3. Keeps(made, made') /\ Len(made') = Len(made)
        /\ \A j \in 1 .. Len(made) : made'[j].network = made[j].network
    <3>1. made' = WithState(made, i, "runs") BY <2>2
    <3>2. made \in Seq(Made) BY InRange
    <3> DEFINE m == WithState(made, i, "runs")
    <3>3. Keeps(made, m) /\ Len(m) = Len(made) /\ \A j \in 1 .. Len(made) : m[j].network = made[j].network
      BY <3>2, SetState
    <3> HIDE DEF m
    <3> QED BY <3>1, <3>3 DEF m
  <2>4. UNCHANGED <<registry, strays>> BY <1>6 DEF Publish
  <2>5. \A b \in Port : nodes'[b] \in {None, nodes[b]} \/ (th[c].pc = "publish" /\ nodes'[b] = th[c].node)
    BY <2>1, <2>2 DEF IInv, Types
  <2>6. ~Spawns(Done(c)) BY <2>2 DEF GoesOn, Spawns, HasNode
  <2> QED BY <2>2, <2>3, <2>4, <2>5, <2>6, WiredQuiet
<1>7. ASSUME NEW c \in Client, Reset(c) PROVE Wired'
  <2>1. /\ Len(made') = Len(made) /\ Keeps(made, made')
        /\ \A i \in 1 .. Len(made) : made'[i].network = made[i].network
        /\ registry' = [a \in Port |-> IF nodes[a] # None THEN None ELSE registry[a]]
        /\ nodes' = NoNodes /\ strays' = strays
    BY <1>7, Resets DEF IInv, Reset
  <2>2. PICK s \in Thread : Goto(c, s) /\ s.pc \in {"next", "config"} BY <1>7, Resets DEF IInv
  <2>3. ~Spawns(s) BY <2>2 DEF Spawns, HasNode
  <2>4. Same BY <2>1 DEF NoNodes
  <2> QED BY <2>1, <2>2, <2>3, <2>4, WiredQuiet
<1> QED
  BY <1>1, <1>2, <1>3, <1>4, <1>5, <1>6, <1>7, WiredCheck, WiredMake, WiredBootstrap, WiredJoin,
     WiredJoinAlone DEF Next

\* What is noted stays noted.
LEMMA Noted ==
  ASSUME IInv, [Next]_vars
  PROVE  (crossed => crossed') /\ (firsts => firsts') /\ (doubled => doubled')
<1>1. CASE UNCHANGED vars BY <1>1 DEF vars
<1>2. ASSUME NEW c \in Client, NEW r \in Requests,
             \/ spawnNode(c, r) \/ removeNode(c, r) \/ resetNetwork(c, r) \/ startNetwork(c, r)
             \/ updateConfig(c, r)
             \/ ScenarioBootstrap(c, r) \/ ScenarioBenchmark(c, r) \/ ScenarioChurn(c, r)
      PROVE  crossed => crossed'
  BY <1>2 DEF spawnNode, removeNode, resetNetwork, startNetwork, updateConfig, ScenarioBootstrap,
       ScenarioBenchmark, ScenarioChurn, Accept
<1>3. ASSUME NEW c \in Client, NEW r \in Requests,
             \/ spawnNode(c, r) \/ removeNode(c, r) \/ resetNetwork(c, r) \/ startNetwork(c, r)
             \/ updateConfig(c, r)
             \/ ScenarioBootstrap(c, r) \/ ScenarioBenchmark(c, r) \/ ScenarioChurn(c, r)
      PROVE  UNCHANGED <<firsts, doubled>>
  BY <1>3 DEF spawnNode, removeNode, resetNetwork, startNetwork, updateConfig, ScenarioBootstrap,
       ScenarioBenchmark, ScenarioChurn, Accept
<1>4. CASE HealPartition \/ \E r \in Requests : SetPartition(r)
  BY <1>4 DEF HealPartition, SetPartition
<1>5. ASSUME NEW c \in Client, Check(c) \/ Bootstrap(c) \/ Join(c)
      PROVE  (crossed => crossed') /\ (firsts => firsts') /\ (doubled => doubled')
  <2>1. CASE Check(c)
    <3>1. crossed' = crossed BY <2>1 DEF Check
    <3>2. firsts => firsts' BY <2>1 DEF Check
    <3>3. doubled => doubled' BY <2>1 DEF Check
    <3> QED BY <3>1, <3>2, <3>3
  <2>2. CASE Bootstrap(c)
    <3>1. UNCHANGED <<crossed, doubled>> BY <2>2 DEF Bootstrap
    <3>2. firsts => firsts' BY <2>2 DEF Bootstrap
    <3> QED BY <3>1, <3>2
  <2>3. CASE Join(c)
    <3>1. UNCHANGED <<crossed, doubled>> BY <2>3 DEF Join
    <3>2. firsts => firsts' BY <2>3 DEF Join
    <3> QED BY <3>1, <3>2
  <2> QED BY <1>5, <2>1, <2>2, <2>3
<1>6. ASSUME NEW c \in Client,
             \/ Continue(c) \/ TakeAddr(c) \/ Make(c) \/ JoinFails(c) \/ JoinAlone(c) \/ Publish(c)
             \/ Unmap(c) \/ Deregister(c) \/ StopNode(c) \/ Reset(c) \/ UpdateConfig(c)
      PROVE  UNCHANGED <<crossed, firsts, doubled>>
  <2>1. CASE Continue(c) BY <2>1 DEF Continue
  <2>2. CASE TakeAddr(c) BY <2>2 DEF TakeAddr
  <2>3. CASE Make(c) BY <2>3 DEF Make
  <2>4. CASE JoinFails(c) BY <2>4 DEF JoinFails
  <2>5. CASE Publish(c) BY <2>5 DEF Publish
  <2>6. CASE Unmap(c) BY <2>6 DEF Unmap
  <2>7. CASE Deregister(c) BY <2>7 DEF Deregister
  <2>8. CASE StopNode(c) BY <2>8 DEF StopNode
  <2>9. CASE Reset(c) BY <2>9 DEF Reset
  <2>10. CASE UpdateConfig(c) BY <2>10 DEF UpdateConfig
  <2>11. CASE JoinAlone(c) BY <2>11 DEF JoinAlone
  <2> QED BY <1>6, <2>1, <2>2, <2>3, <2>4, <2>5, <2>6, <2>7, <2>8, <2>9, <2>10, <2>11
<1> QED BY <1>1, <1>2, <1>3, <1>4, <1>5, <1>6 DEF Next

LEMMA NetInvariant == Spec => [](IInv /\ Tale /\ Net)
<1>1. Init => IInv /\ Tale /\ Net
  <2> SUFFICES ASSUME Init PROVE IInv /\ Tale /\ Net OBVIOUS
  <2>1. IInv /\ Tale BY OrchestratorAssumption, InitIInv, InitTale
  <2>2. Len(made) = 0 /\ \A a \in Port : nodes[a] = None BY DEF Init, NoNodes
  <2>3. th = [c \in Client |-> Idle] /\ Idle.pc = "idle" BY DEF Init, Idle
  <2>4. \A c \in Client : th[c].pc = "idle" BY <2>3
  <2>5. Uniform BY <2>2, <2>4 DEF Uniform, HasNode
  <2>6. Wired BY <2>2, <2>4 DEF Wired
  <2> QED BY <2>1, <2>5, <2>6 DEF Net
<1>2. (IInv /\ Tale /\ Net) /\ [Next]_vars => (IInv /\ Tale /\ Net)'
  <2> SUFFICES ASSUME IInv, Tale, Net, [Next]_vars PROVE IInv' /\ Tale' /\ Net' OBVIOUS
  <2>1. IInv' /\ Tale' BY OrchestratorAssumption, Inductive, TaleNext
  <2>2. (crossed => crossed') /\ (firsts => firsts') /\ (doubled => doubled') BY Noted
  <2>3. Ledger /\ (~doubled => Story) BY DEF Tale, Told
  <2>4. ~crossed' => Uniform' BY <2>2, <2>3, OrchestratorAssumption, UniformNext DEF Net
  <2>5. ASSUME ~crossed', ~firsts', ~doubled' PROVE Wired'
    BY <2>2, <2>3, <2>5, OrchestratorAssumption, WiredNext DEF Net
  <2> QED BY <2>1, <2>4, <2>5 DEF Net
<1> QED BY <1>1, <1>2, PTL DEF Spec

\* OneNetwork: without resets and reconfigurations across other requests, without a
\* second founder and without an address in two hands, all listed nodes have the
\* protocol in force, and those that are not in a network which a Kademlia join that
\* reached nobody has founded are in one network.
THEOREM NetworkIsOne == Spec => []OneNetwork
<1>1. IInv /\ Tale /\ Net => OneNetwork
  <2> SUFFICES ASSUME IInv, Net, ~crossed, ~firsts, ~doubled, NEW a \in Mapped, NEW b \in Mapped
               PROVE  /\ made[nodes[a]].protocol = protocol
                      /\ {made[nodes[a]].network, made[nodes[b]].network} \cap strays = {}
                           => made[nodes[a]].network = made[nodes[b]].network
    BY DEF OneNetwork
  <2>1. a \in Port /\ b \in Port /\ nodes[a] # None /\ nodes[b] # None BY DEF Mapped
  <2>2. Uniform /\ Wired BY DEF Net
  <2>3. nodes[a] \in 1 .. Len(made) /\ nodes[b] \in 1 .. Len(made) BY <2>1, InRange
  <2>4. Living(nodes[a]) /\ Living(nodes[b]) BY <2>1 DEF Living
  <2>5. made[nodes[a]].protocol = protocol BY <2>1, <2>2 DEF Uniform
  <2>6. ASSUME {made[nodes[a]].network, made[nodes[b]].network} \cap strays = {}
        PROVE  made[nodes[a]].network = made[nodes[b]].network
    <3>1. Placed(nodes[a]) /\ Placed(nodes[b]) BY <2>1, <2>2, <2>6 DEF Wired, Placed
    <3> QED BY <2>2, <2>3, <2>4, <3>1 DEF Wired
  <2> QED BY <2>5, <2>6
<1> QED BY <1>1, NetInvariant, PTL
=============================================================================

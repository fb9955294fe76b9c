---------------------------- MODULE Orchestrator ----------------------------
(***************************************************************************)
(* The orchestrator (internal/simulation), driven by the REST handlers of  *)
(* the gateway and by its scenarios, each in a goroutine of its own.  It   *)
(* holds its lock only for moments: a node is created, registered with the *)
(* transport, joined and started outside it, and removed from the maps     *)
(* before it is deregistered and stopped.                                  *)
(*                                                                         *)
(* What a node does once it is in the network is the subject of Chord and  *)
(* Kademlia; here a node is its address, protocol, network and whether it  *)
(* runs.                                                                   *)
(***************************************************************************)
EXTENDS Integers, Sequences, FiniteSets, FiniteSetsExt, SequencesExt

CONSTANTS
  Client,                         \* goroutines: requests and scenarios under way at a time
  Protocol,                       \* "chord", "kademlia"
  Default,                        \* the protocol at the start
  MaxPort,                        \* bound on the addresses
  Requests,                       \* the requests that are made, see Request
  MaxRequests, MaxJoinFailures    \* bounds on the requests and the joins whose RPC is lost

Port == 1 .. MaxPort
FirstPort == 1                    \* 7000 in the code
None == 0                         \* no node, no port, no network

ASSUME OrchestratorAssumption ==
  /\ Default \in Protocol /\ MaxPort \in Nat \ {0}
  /\ MaxRequests \in Nat /\ MaxJoinFailures \in Nat
  /\ \A r \in Requests : r.addr \in Port \cup {None} /\ r.count \in Nat

VARIABLES
  made,                           \* every node ever created, in order: [addr, protocol, network,
                                  \*   state, given]
  nodes,                          \* addr -> node, Orchestrator.nodes
  typed,                          \* protocol -> addr -> node, chordNodes and kadNodes
  nodeAddrs, portCounter, protocol,
  registry,                       \* addr -> node, InProcessTransport.registry
  partitions,                     \* groups of addresses
  th,                             \* client -> the request it runs and where it is
  requests, failures,             \* made so far
  doubled,                        \* history: a reset or a given address put one address in two hands
  crossed,                        \*   a reset or reconfiguration overlapped another request
  firsts,                         \*   a network was founded, or a node not yet in one was joined
                                  \*   through, while another node was on its way
  strays                          \*   the networks of nodes whose join reached nobody

orch == <<nodes, typed, nodeAddrs, portCounter, protocol>>
vars == <<made, orch, registry, partitions, th, requests, failures, doubled, crossed, firsts, strays>>

Mapped == {a \in Port : nodes[a] # None}
NodeCount == Cardinality(Mapped)
NoNodes == [a \in Port |-> None]

\* A request: its kind, an address or None, a protocol, a number of nodes.
Request(op, a, p, n) == [op |-> op, addr |-> a, protocol |-> p, count |-> n]

\* pc of a request: "next" (choose what is to do), "reset", "config", "remove",
\* "deregister", "stop", and of SpawnNode "addr", "check", "make", "bootstrap",
\* "join", "publish".  node is the node in hand; kills, fill, left and rounds what
\* there is still to do; strict: an error ends the request.
Idle == [op |-> "idle", pc |-> "idle", addr |-> None, protocol |-> Default, node |-> None,
         first |-> FALSE, boot |-> None, kills |-> {}, fill |-> 0, left |-> 0, rounds |-> 0,
         strict |-> TRUE]

Busy(c) == th[c].op # "idle"
Goto(c, s) == th' = [th EXCEPT ![c] = s]
At(c, pc) == th[c].pc = pc

\* The node in hand, from registration to publication or from removal to stop.
Spawning(c) == th[c].pc \in {"make", "bootstrap", "join", "publish"}
Stopping(c) == th[c].pc \in {"deregister", "stop"}
Alongside(c) == \E d \in Client \ {c} : Spawning(d)
InHand(a) == {c \in Client : (Spawning(c) \/ Stopping(c)) /\ th[c].addr = a}

\* A spawn at an address of the caller's choice; the node made keeps a note of it.
Given(c) == th[c].op = "spawnAt"

\* A reset or a change of configuration overlaps another request.
Switches(s) == s.op \in {"start", "config", "reset"}
Clash(c, s) == \E d \in Client \ {c} : Busy(d) /\ (Switches(s) \/ Switches(th[d]))

-----------------------------------------------------------------------------
(* The REST handlers and the scenarios                                       *)

Accept(c, r, s) ==
  /\ r \in Requests /\ requests < MaxRequests /\ ~Busy(c)
  /\ requests' = requests + 1
  /\ Goto(c, s)
  /\ crossed' = (crossed \/ Clash(c, s))
  /\ UNCHANGED <<made, orch, registry, partitions, failures, doubled, firsts, strays>>

\* The protocol asked for, or the one in force: OrchestratorConfig and mergeConfig.
Wanted(r) == IF r.protocol \in Protocol THEN r.protocol ELSE protocol

Fresh(r) == [Idle EXCEPT !.op = r.op, !.pc = "next", !.addr = r.addr, !.protocol = Wanted(r)]

\* spawnNode, with or without an address.
spawnNode(c, r) ==
  /\ r.op = IF r.addr = None THEN "spawn" ELSE "spawnAt"
  /\ Accept(c, r, [Fresh(r) EXCEPT !.left = 1])

\* killNode, crashNode: resolveAddr must know the node.
removeNode(c, r) ==
  r.op = "remove" /\ r.addr \in Mapped /\ Accept(c, r, [Fresh(r) EXCEPT !.kills = {r.addr}])

resetNetwork(c, r) == r.op = "reset" /\ Accept(c, r, [Fresh(r) EXCEPT !.pc = "reset"])

\* startNetwork: the configuration is read here and written back later.
startNetwork(c, r) ==
  /\ r.op = "start" /\ r.count > 0
  /\ Accept(c, r, [Fresh(r) EXCEPT !.pc = IF NodeCount > 0 THEN "reset" ELSE "config", !.left = r.count])

\* updateConfig: a new protocol restarts the nodes there are.
updateConfig(c, r) ==
  /\ r.op = "config"
  /\ Accept(c, r, IF Wanted(r) # protocol /\ NodeCount > 0
                  THEN [Fresh(r) EXCEPT !.pc = "reset", !.left = NodeCount]
                  ELSE [Fresh(r) EXCEPT !.pc = "config"])

\* ScenarioBootstrap and ScenarioBenchmark kill the nodes there are; the one then
\* spawns so many, the other until there are so many.
ScenarioBootstrap(c, r) ==
  r.op = "bootstrap" /\ Accept(c, r, [Fresh(r) EXCEPT !.kills = Mapped, !.left = r.count])
ScenarioBenchmark(c, r) ==
  r.op = "benchmark" /\ Accept(c, r, [Fresh(r) EXCEPT !.kills = Mapped, !.fill = r.count])

\* ScenarioChurn fills up, then kills and spawns in turn.
ScenarioChurn(c, r) ==
  r.op = "churn" /\ Accept(c, r, [Fresh(r) EXCEPT !.fill = r.count, !.rounds = 1])

\* setPartition and ScenarioPartition: two groups of the nodes there are.
SetPartition(r) ==
  /\ r.op = "partition" /\ r \in Requests /\ requests < MaxRequests
  /\ requests' = requests + 1
  /\ \E g \in SUBSET Mapped : g # {} /\ g # Mapped /\ partitions' = {g, Mapped \ g}
  /\ UNCHANGED <<made, orch, registry, th, failures, doubled, crossed, firsts, strays>>

\* healPartition, and the end of ScenarioPartition.
HealPartition ==
  /\ partitions # {}
  /\ partitions' = {}
  /\ UNCHANGED <<made, orch, registry, th, requests, failures, doubled, crossed, firsts, strays>>

\* The next thing a request does.
Continue(c) ==
  LET s == th[c] IN
  /\ At(c, "next")
  /\ \/ \E a \in s.kills : Goto(c, [s EXCEPT !.pc = "remove", !.addr = a, !.kills = @ \ {a}])
     \/ /\ s.kills = {} /\ NodeCount < s.fill
        /\ Goto(c, [s EXCEPT !.pc = "addr", !.addr = None])
     \/ /\ s.kills = {} /\ NodeCount >= s.fill /\ s.left > 0
        /\ Goto(c, [s EXCEPT !.pc = "addr", !.addr = IF Given(c) THEN @ ELSE None, !.left = @ - 1])
     \/ /\ s.kills = {} /\ NodeCount >= s.fill /\ s.left = 0 /\ s.rounds > 0
        /\ \/ /\ NodeCount > 1
              /\ \E a \in Mapped :
                   Goto(c, [s EXCEPT !.kills = {a}, !.fill = 0, !.left = 1, !.rounds = @ - 1, !.strict = FALSE])
           \/ /\ NodeCount <= 1
              /\ Goto(c, [s EXCEPT !.fill = 0, !.left = 1, !.rounds = @ - 1, !.strict = FALSE])
     \/ /\ s.kills = {} /\ NodeCount >= s.fill /\ s.left = 0 /\ s.rounds = 0
        /\ Goto(c, Idle)
  /\ UNCHANGED <<made, orch, registry, partitions, requests, failures, doubled, crossed, firsts, strays>>

\* One thing done.  An error ends the request, or a round of churn.
Done(c) == [th[c] EXCEPT !.pc = "next", !.addr = None, !.node = None, !.boot = None, !.first = FALSE]
Failed(c) == IF th[c].strict THEN Idle ELSE Done(c)

-----------------------------------------------------------------------------
(* SpawnNode                                                                 *)

\* Mutant: the counter stays where it is until the node is in the maps.
TakeAddrLate(c) ==
  /\ At(c, "addr")
  /\ Goto(c, [th[c] EXCEPT !.pc = "check", !.addr = IF @ = None THEN portCounter ELSE @])
  /\ portCounter' = IF nodes[portCounter] # None THEN portCounter + 1 ELSE portCounter
  /\ UNCHANGED <<made, nodes, typed, nodeAddrs, protocol, registry, partitions, requests, failures,
                 doubled, crossed, firsts, strays>>

\* An address from the counter, if none was given.
TakeAddr(c) ==
  /\ At(c, "addr")
  /\ IF th[c].addr # None
     THEN Goto(c, [th[c] EXCEPT !.pc = "check"]) /\ UNCHANGED portCounter
     ELSE /\ portCounter \in Port
          /\ Goto(c, [th[c] EXCEPT !.pc = "check", !.addr = portCounter])
          /\ portCounter' = portCounter + 1
  /\ UNCHANGED <<made, nodes, typed, nodeAddrs, protocol, registry, partitions, requests, failures,
                 doubled, crossed, firsts, strays>>

\* Is the address free, is this the first node?  Both may be outdated when used.
\* o.cfg.Protocol is read next, without the lock.
Check(c) ==
  LET a == th[c].addr IN
  /\ At(c, "check")
  /\ Goto(c, IF nodes[a] # None THEN Failed(c)
             ELSE [th[c] EXCEPT !.pc = "make", !.first = (NodeCount = 0), !.node = None])
  /\ doubled' = \/ doubled
                \/ nodes[a] = None /\ \E d \in InHand(a) :
                     crossed \/ Given(c) \/ Given(d) \/ (Stopping(d) /\ made[th[d].node].given)
  /\ firsts' = (firsts \/ (NodeCount = 0 /\ Alongside(c)))
  /\ UNCHANGED <<made, orch, registry, partitions, requests, failures, crossed, strays>>

\* NewChordNode or NewKademliaNode, registered; the first one makes a network.
Make(c) ==
  LET a == th[c].addr
      i == Len(made) + 1
      first == th[c].first
  IN  /\ At(c, "make")
      /\ made' = Append(made, [addr |-> a, protocol |-> protocol, state |-> "new",
                               network |-> IF first THEN i ELSE None, given |-> Given(c)])
      /\ registry' = [registry EXCEPT ![a] = i]
      /\ Goto(c, [th[c] EXCEPT !.pc = IF first THEN "publish" ELSE "bootstrap", !.node = i])
      /\ UNCHANGED <<orch, partitions, requests, failures, doubled, crossed, firsts, strays>>

\* Mutant: no bootstrap is ever found.
BootstrapNone(c) ==
  LET i == th[c].node IN
  /\ At(c, "bootstrap")
  /\ made' = [made EXCEPT ![i].network = i]
  /\ Goto(c, [th[c] EXCEPT !.pc = "publish"])
  /\ UNCHANGED <<orch, registry, partitions, requests, failures, doubled, crossed, firsts, strays>>

\* getAnyChordBootstrap, getAnyKadBootstrap: some node of the protocol, else the
\* new node makes a network all the same.
Bootstrap(c) ==
  LET i == th[c].node
      p == made[i].protocol
      known == {typed[p][a] : a \in Port} \ {None}
  IN  /\ At(c, "bootstrap")
      /\ \/ /\ known = {}
            /\ made' = [made EXCEPT ![i].network = i]
            /\ firsts' = (firsts \/ Alongside(c))
            /\ Goto(c, [th[c] EXCEPT !.pc = "publish"])
         \/ \E b \in known :
              /\ Goto(c, [th[c] EXCEPT !.pc = "join", !.boot = b])
              /\ UNCHANGED <<made, firsts>>
      /\ UNCHANGED <<orch, registry, partitions, requests, failures, doubled, crossed, strays>>

\* lookupFrom: the callee is registered under its address and no partition has
\* the two in different groups.
Reaches(a, b) ==
  /\ registry[b] # None
  /\ ~ \E g, h \in partitions : g # h /\ a \in g /\ b \in h

\* An RPC between nodes of different protocols is an error.
Answers(a, b, p) == Reaches(a, b) /\ made[registry[b]].protocol = p

\* Join: whoever is registered under the bootstrap's address takes the node in.  One
\* that is itself not in a network yet is alone, and the two make one.
Join(c) ==
  LET i == th[c].node
      b == made[th[c].boot].addr
      n == made[registry[b]].network
  IN  /\ At(c, "join") /\ Answers(th[c].addr, b, made[i].protocol)
      /\ made' = [made EXCEPT ![i].network = IF n = None THEN i ELSE n]
      /\ firsts' = (firsts \/ n = None)
      /\ Goto(c, [th[c] EXCEPT !.pc = "publish"])
      /\ UNCHANGED <<orch, registry, partitions, requests, failures, doubled, crossed, strays>>

\* The bootstrap is out of reach, or the RPC is lost.
Unanswered(c) ==
  LET b == made[th[c].boot].addr IN
  IF Answers(th[c].addr, b, made[th[c].node].protocol)
  THEN failures < MaxJoinFailures /\ failures' = failures + 1
  ELSE failures' = failures

\* A Chord node that gets no answer does not join: the address is taken from the
\* registry, whoever is registered under it.
JoinFails(c) ==
  /\ At(c, "join") /\ made[th[c].node].protocol # "kademlia" /\ Unanswered(c)
  /\ registry' = [registry EXCEPT ![th[c].addr] = None]
  /\ Goto(c, Failed(c))
  /\ UNCHANGED <<made, orch, partitions, requests, doubled, crossed, firsts, strays>>

\* A Kademlia node has joined all the same: its lookup reports no error.  It stays by
\* itself, at least until a later lookup reaches someone.
JoinAlone(c) ==
  LET i == th[c].node IN
  /\ At(c, "join") /\ made[i].protocol = "kademlia" /\ Unanswered(c)
  /\ made' = [made EXCEPT ![i].network = i]
  /\ strays' = strays \cup {i}
  /\ Goto(c, [th[c] EXCEPT !.pc = "publish"])
  /\ UNCHANGED <<orch, registry, partitions, requests, doubled, crossed, firsts>>

\* Mutant: listed under the protocol in force when the node is published.
PublishConfigured(c) ==
  LET i == th[c].node
      a == th[c].addr
  IN  /\ At(c, "publish")
      /\ made' = [made EXCEPT ![i].state = "runs"]
      /\ nodes' = [nodes EXCEPT ![a] = i]
      /\ typed' = [typed EXCEPT ![protocol][a] = i]
      /\ nodeAddrs' = Append(nodeAddrs, a)
      /\ Goto(c, Done(c))
      /\ UNCHANGED <<portCounter, protocol, registry, partitions, requests, failures,
                     doubled, crossed, firsts, strays>>

\* Start, then into the maps under the lock.
Publish(c) ==
  LET i == th[c].node
      a == th[c].addr
  IN  /\ At(c, "publish")
      /\ made' = [made EXCEPT ![i].state = "runs"]
      /\ nodes' = [nodes EXCEPT ![a] = i]
      /\ typed' = [typed EXCEPT ![made[i].protocol][a] = i]
      /\ nodeAddrs' = Append(nodeAddrs, a)
      /\ Goto(c, Done(c))
      /\ UNCHANGED <<portCounter, protocol, registry, partitions, requests, failures,
                     doubled, crossed, firsts, strays>>

-----------------------------------------------------------------------------
(* KillNode, CrashNode, Reset, UpdateConfig                                  *)

removeAddr(a) ==
  IF a \in Range(nodeAddrs)
  THEN RemoveAt(nodeAddrs, CHOOSE k \in DOMAIN nodeAddrs :
                             nodeAddrs[k] = a /\ \A j \in 1 .. k - 1 : nodeAddrs[j] # a)
  ELSE nodeAddrs

\* Mutant: the node stays in the map of its protocol.
UnmapForgetsTyped(c) ==
  LET a == th[c].addr IN
  /\ At(c, "remove")
  /\ IF nodes[a] = None
     THEN Goto(c, Done(c)) /\ UNCHANGED <<nodes, nodeAddrs>>
     ELSE /\ Goto(c, [th[c] EXCEPT !.pc = "deregister", !.node = nodes[a]])
          /\ nodes' = [nodes EXCEPT ![a] = None]
          /\ nodeAddrs' = removeAddr(a)
  /\ UNCHANGED <<made, typed, portCounter, protocol, registry, partitions, requests, failures,
                 doubled, crossed, firsts, strays>>

\* Out of the maps, under the lock; not found is an error.
Unmap(c) ==
  LET a == th[c].addr IN
  /\ At(c, "remove")
  /\ IF nodes[a] = None
     THEN Goto(c, Done(c)) /\ UNCHANGED <<nodes, typed, nodeAddrs>>
     ELSE /\ Goto(c, [th[c] EXCEPT !.pc = "deregister", !.node = nodes[a]])
          /\ nodes' = [nodes EXCEPT ![a] = None]
          /\ typed' = [p \in Protocol |-> [typed[p] EXCEPT ![a] = None]]
          /\ nodeAddrs' = removeAddr(a)
  /\ UNCHANGED <<made, portCounter, protocol, registry, partitions, requests, failures,
                 doubled, crossed, firsts, strays>>

Deregister(c) ==
  /\ At(c, "deregister")
  /\ registry' = [registry EXCEPT ![th[c].addr] = None]
  /\ Goto(c, [th[c] EXCEPT !.pc = "stop"])
  /\ UNCHANGED <<made, orch, partitions, requests, failures, doubled, crossed, firsts, strays>>

\* Leave, SimulateCrash or Stop.
StopNode(c) ==
  /\ At(c, "stop")
  /\ made' = [made EXCEPT ![th[c].node].state = "stopped"]
  /\ Goto(c, Done(c))
  /\ UNCHANGED <<orch, registry, partitions, requests, failures, doubled, crossed, firsts, strays>>

\* Reset, under the lock throughout.
Reset(c) ==
  LET all == {typed[p][a] : p \in Protocol, a \in Port} IN
  /\ At(c, "reset")
  /\ made' = [i \in DOMAIN made |-> IF i \in all THEN [made[i] EXCEPT !.state = "stopped"] ELSE made[i]]
  /\ registry' = [a \in Port |-> IF a \in Mapped THEN None ELSE registry[a]]
  /\ nodes' = NoNodes
  /\ typed' = [p \in Protocol |-> NoNodes]
  /\ nodeAddrs' = <<>>
  /\ portCounter' = FirstPort
  /\ partitions' = {}
  /\ Goto(c, [th[c] EXCEPT !.pc = IF th[c].op = "reset" THEN "next" ELSE "config"])
  /\ UNCHANGED <<protocol, requests, failures, doubled, crossed, firsts, strays>>

UpdateConfig(c) ==
  /\ At(c, "config")
  /\ protocol' = th[c].protocol
  /\ Goto(c, [th[c] EXCEPT !.pc = "next"])
  /\ UNCHANGED <<made, nodes, typed, nodeAddrs, portCounter, registry, partitions, requests, failures,
                 doubled, crossed, firsts, strays>>

-----------------------------------------------------------------------------
Init ==
  /\ made = <<>>
  /\ nodes = NoNodes /\ typed = [p \in Protocol |-> NoNodes] /\ nodeAddrs = <<>>
  /\ portCounter = FirstPort /\ protocol = Default
  /\ registry = NoNodes /\ partitions = {}
  /\ th = [c \in Client |-> Idle]
  /\ requests = 0 /\ failures = 0
  /\ doubled = FALSE /\ crossed = FALSE /\ firsts = FALSE /\ strays = {}

Next ==
  \/ \E c \in Client, r \in Requests :
       \/ spawnNode(c, r) \/ removeNode(c, r) \/ resetNetwork(c, r) \/ startNetwork(c, r)
       \/ updateConfig(c, r)
       \/ ScenarioBootstrap(c, r) \/ ScenarioBenchmark(c, r) \/ ScenarioChurn(c, r)
  \/ \E r \in Requests : SetPartition(r)
  \/ HealPartition
  \/ \E c \in Client :
       \/ Continue(c)
       \/ TakeAddr(c) \/ Check(c) \/ Make(c) \/ Bootstrap(c)
       \/ Join(c) \/ JoinFails(c) \/ JoinAlone(c) \/ Publish(c)
       \/ Unmap(c) \/ Deregister(c) \/ StopNode(c) \/ Reset(c) \/ UpdateConfig(c)

Spec == Init /\ [][Next]_vars

-----------------------------------------------------------------------------
Node == DOMAIN made

\* The maps name nodes that were created, each under its own address and its own
\* protocol, chordNodes and kadNodes agreeing with nodes (orchestrator.go:141).
TypeOK ==
  /\ nodes \in [Port -> Node \cup {None}] /\ registry \in [Port -> Node \cup {None}]
  /\ typed \in [Protocol -> [Port -> Node \cup {None}]]
  /\ protocol \in Protocol
  /\ \A a \in Mapped : made[nodes[a]].addr = a /\ typed[made[nodes[a]].protocol][a] = nodes[a]
  /\ \A p \in Protocol, a \in Port : typed[p][a] # None => made[typed[p][a]].protocol = p

\* Whatever spawns, removals, resets and reconfigurations overlap, a node that the
\* orchestrator lists, and so uses as a bootstrap or replica, has been started and
\* has not been stopped: SpawnNode starts before it publishes, KillNode and
\* CrashNode unmap before they stop.
ListedRun == \A p \in Protocol, a \in Port : typed[p][a] # None => made[typed[p][a]].state = "runs"

\* The maps, the transport's registry and the running nodes tell the same story: a
\* listed node is the one registered, a running or registered node is listed or in
\* the hands of the request that creates or removes it, and nodeAddrs has each
\* address once.  It takes an address chosen by the caller, now or for the node that
\* is being removed, or a reset across another request, for two requests to have one
\* address in hand and break this.
Consistent ==
  ~doubled =>
    /\ \A a \in Mapped : registry[a] = nodes[a]
    /\ \A i \in Node : made[i].state = "runs" =>
         nodes[made[i].addr] = i \/ \E c \in Client : Stopping(c) /\ th[c].node = i
    /\ \A a \in Port : registry[a] # None =>
         nodes[a] = registry[a] \/ \E c \in Client : th[c].node = registry[a]
    /\ Range(nodeAddrs) = Mapped /\ Len(nodeAddrs) = NodeCount

\* All listed nodes are of the configured protocol and of one network, unless a
\* reset or reconfiguration overlapped another request, a node founded a network
\* while another was on its way into one (SpawnNode's check of an empty network is
\* not made under the lock that publishes the node), or two requests had one address
\* in hand, so that a node joins through one that is not the one listed.  A Kademlia
\* node whose bootstrap was gone, cut off or not heard when it joined is published
\* without an error: it and those that join through it are a network apart.
OneNetwork ==
  ~crossed /\ ~firsts /\ ~doubled =>
    \A a, b \in Mapped :
      /\ made[nodes[a]].protocol = protocol
      /\ {made[nodes[a]].network, made[nodes[b]].network} \cap strays = {}
           => made[nodes[a]].network = made[nodes[b]].network
=============================================================================

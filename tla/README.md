# A TLA+ verification of dht-system

dht-system is a Go implementation of two distributed hash tables, Chord and
Kademlia, with a quorum replication layer, a simulation orchestrator and a web
gateway (`dht-system/` in the repository). This directory holds TLA+ models of
its core, the TLC configurations that check them on small instances, and TLAPS
proofs of what holds for every instance.

Paths below are relative to `dht-system/internal/` unless they start elsewhere.
`PROJECT.json` maps every definition to the lines it models and lists runs,
hazards and theorems.

## 1. The system

| part | state | operations | talks to |
| --- | --- | --- | --- |
| identifier circle (`consistent/hash.go`) | none | interval tests, offsets modulo 2^160 | everything Chord decides |
| virtual nodes (`consistent/vnode.go`) | sorted ring of points | AddNode, RemoveNode, FindOwner | nobody yet |
| Chord node (`chord/`) | successor, predecessor, fingers, anti-fingers, successor list, store; one mutex | FindSuccessor, CreateRing, Join, Leave, SimulateCrash, Stabilize, Notify, CheckPredecessor, CheckSuccessor, fix fingers, UpdateFingerTable | other nodes through the transport |
| Kademlia node (`kademlia/`) | 160 k-buckets, each with a mutex; store | Join, iterative FindNode/FindValue, StoreValue, republish, bucket refresh | other nodes through the transport |
| transports (`transport/`) | registry of nodes; partitions, latencies, loss rate | one method per RPC | the nodes' handlers |
| quorum manager (`replication/quorum.go`) | W, R, N | Write, Read, readRepair | the replicas' stores through the transport |
| vector clocks, conflicts (`replication/vclock.go`, `conflict.go`) | a bounded conflict log | Increment, Compare, Merge, Resolve | quorum manager |
| stores (`store/store.go`, `badgerstore/`) | entries by key, expiry | Put, Get, Delete, range operations, eviction | nodes, gossip |
| CRDTs, Merkle tree (`store/crdt.go`, `merkle.go`) | counters, tag sets; leaf hashes | merge; Update, Diff | gossip |
| gossip (`gossip/gossip.go`) | a Merkle tree of the local store | periodic round with a random peer | stores through the transport |
| orchestrator (`simulation/orchestrator.go`) | maps of nodes, configuration | SpawnNode, KillNode, CrashNode, Insert, Read, DeleteKey, Reset, UpdateConfig, partitions | all of the above |
| event bus (`events/bus.go`), hub (`gateway/websocket.go`) | queue, subscribers, history; clients | Publish, dispatch, Subscribe, Unsubscribe | every part publishes |
| gateway (`gateway/`), processes (`cmd/`) | rate limiter; start-up wiring | HTTP and WebSocket requests | orchestrator |

**What is hard.** Every Chord node runs three loops (`runStabilize`,
`runCheckPredecessor`, `runCheckSuccessor`), is called by other nodes at any
moment, and releases its mutex before every RPC: each decision is made with
values that may be stale when it takes effect. Stabilize runs in two threads of
one node. Nodes join, leave and crash while this goes on. `Leave` runs after the
node has been taken off the registry. RPCs are lost. On the replication side, writes, reads
and repairs of one key interleave replica by replica, stores take whatever
arrives, and repairs run after the read has returned. The orchestrator releases
its lock while a node joins. Kademlia pings with a bucket's lock held. Gossip
compares snapshots of stores that go on changing. Events pass four bounded
queues, any of which drops them, and channels are closed under their senders. A
node process keeps its writes in memory and on disk and may crash between the
two. The complete list, line by line, is under `hazards` in `PROJECT.json`.

**What makes each part correct.**

* Circle: an interval test is true of exactly the points between its ends; a
  point inside `(n, id)` is nearer to `id` than `n` is.
* Chord: lookups end; both copies of the successor agree; joins end; after the
  last change stabilization links the nodes in order; departures lose no keys.
* Quorum: W + R > N makes reads fresh; repairs bring the replicas they saw up to date.
* Kademlia: a search ends, and in a settled network ends with the closest nodes;
  a value that was stored is found until it expires.
* Gossip: the trees find what differs, stores come to agree, no round undoes a
  later write, a deleted key stays deleted.
* Orchestrator: it lists running nodes only, its maps and the transport agree,
  and there is one network.
* Event bus and hub: a client gets the events it asked for, in order and at most
  once; nobody sends on a closed channel; clients that are gone leave nothing behind.
* Node process: an acknowledged put survives a crash, and later gets see it.

## 2. Modules

| module | models | kind |
| --- | --- | --- |
| `Ring` | identifier circle | operators |
| `Chord` | Chord node, its lifecycle in the orchestrator, the in-process transport under it | specification; extends `Ring` |
| `ChordProofs` | | theorems about `Ring` and `Chord` |
| `MCChord` | | rings that start in the state stabilization leaves; extends `Chord` |
| `ChainProofs` | | theorems about these rings and about departures; extends `MCChord` and `ChordProofs` |
| `VectorClock` | vector clocks and `Resolve` | operators |
| `QuorumManager` | quorum reads and writes, read-repair | specification; extends `VectorClock` |
| `QuorumProofs` | | theorems about `QuorumManager` |
| `MCQuorum` | | constants and a written key for TLC |
| `Kademlia` | Kademlia node, the in-process transport under it | specification |
| `KademliaProofs` | | theorems about `Kademlia` |
| `MCKademlia` | | the order in which the program spawns and serves; extends `Kademlia` |
| `MerkleTree` | Merkle tree | operators |
| `AntiEntropy` | gossip, the stores it reconciles, `DeleteKey` | specification; extends `MerkleTree` |
| `AntiEntropyProofs` | | theorems about `MerkleTree` and `AntiEntropy` |
| `MCAntiEntropy` | | writes for TLC |
| `Orchestrator` | orchestrator, the REST requests and scenarios that change the network | specification |
| `OrchestratorProofs` | | theorems about `Orchestrator` |
| `MCOrchestrator` | | the menu of requests |
| `EventBus` | event bus | actions |
| `Hub` | WebSocket hub over the event bus | specification; extends `EventBus` |
| `HubProofs` | | theorems about `Hub`, among them that it implements `Feed` |
| `Feed` | what the stream of events promises | abstract specification |
| `MCHub` | | what clients subscribe to |
| `NodeProcess` | stand-alone node: HTTP API, memory, disk, RPC server, start and shutdown | specification |
| `NodeProcessProofs` | | theorems about `NodeProcess` |

### Chord

A node is its identifier. `succ`, `pred`, `finger`, `anti`, `succList`, `store`
are the fields of `ChordNode`; `fingerIdx` and `antiIdx` the rotating indices of
the fix-fingers ticker; `life` says how far the orchestrator has taken the node:

    off -> joining -> member -> leaving -> gone
              \-> refused

*joining* and *member* nodes are registered with the transport. `th[<<n, role>>]`
is the program counter and the locals of a thread of node `n`:

| role | code |
| --- | --- |
| `main` | `SpawnNode`/`Join`, then the loop of `runStabilize` (Stabilize and fix-fingers share one goroutine) |
| `cp` | the loop of `runCheckPredecessor` |
| `cs` | the loop of `runCheckSuccessor`, including its own call of `Stabilize` |
| `ctl` | `KillNode` with `Leave`, or `CrashNode` |

`lst` is the thread's copy of a successor list. A step is what happens between
two acquisitions of a mutex or two RPCs. An RPC reads or writes the target in
the caller's step. It fails if the target is not registered, and otherwise may
fail `MaxLosses` times in all (loss, partition and timeout look the same to the
caller). A lookup is the recursion of `FindSuccessor` unrolled: `FindRead` reads
the successor of the node the lookup has reached, `FindRoute` asks that node's
`ClosestPrecedingNode` where to go next, `FindFail` is a failed forward; the
thread whose lookup has ended goes on from `found` or `failed`.

The actions follow the functions: `JoinFound` ... `PullKeys` are `Join` line by
line (`initFingerTable`, `initAntiFingerTable`, `updateOthers`,
`UpdateFingerTable` with its forwarding along predecessors, `migrateKeys`);
`StabRead` ... `StoreSuccessorList` are `Stabilize`; `FixFinger`,
`FixFingerDone` and the `Anti...` actions the fix-fingers ticker; `CheckPred...`
and `CheckSucc...` the failure detectors; `LeaveRead` ... `Stop` the departures.

A client's write is two steps, `FindHandler` and `PutEntry`: the transport looks the
handler up under its lock and calls it without, and the handler asks nothing of its node.
`puts` are the writes in between; `KillNode`, the whole of `Leave` and `Stop` may pass there. `late`
is history: the entries a write left at a node that had already handed over its own.

Steps of the code that are one step of the model, and why nothing is lost:

* the registry look-up of an RPC between nodes and the handler it calls, for a target
  that stays registered: the look-up only decides that the target is there;
* a failed ping and the write that follows it in CheckPredecessor: no step of
  another thread makes the failure untrue, so whatever happens in between could
  as well happen before the ping. The value the decision is based on is read in
  an earlier step, so the stale clearing of a new predecessor is in the model;
* a successful ping has no effect but time. Pings of nodes that cannot fail
  within a run's bounds are left out (`MayFail`);
* `Store.All` and `TransferKeys` in `Leave`; `GetAllEntries` and the local Puts
  of `pullKeysInRange` together with `Start`: a key a client adds in
  between is left out of the copy, as one added a moment after the step is;
* `Start` and the entry in the orchestrator's map; removal from the map and
  `Deregister`.

A handler other than a write's that has been looked up when its target is taken off the
registry, and runs after it, is left out. What it writes there (a Notify, a finger update) is
lost with the node. What it answers are the pointers of a node that is about to
stop, read a little later than the model reads them. A `TransferKeys` that lands so has a
successor that leaves as well, which loses keys without it (section 4).

Also left out: `MaxHops` (a limit of 480 per node, which no lookup that
makes progress meets), hop tracing, events and logging, a node spawned again
under the same address, colliding identifiers, two nodes spawned at the same
time in an empty network, and a response lost after the handler has run (the
in-process transport decides about a loss before it calls the handler; the TCP
transport is not modelled).

### QuorumManager

One key. `replica[r]` is the entry replica `r` stores, `up` the replicas that can be
reached. A write takes its timestamp, reads the replicas' clocks one after the
other (`readMergedClock`), increments the result for its writer, then stores the
version on all replicas in any order and waits for all of them; it succeeds with W acks. A read
asks all replicas in any order, needs R entries, returns what `Resolve` picks,
and then repairs the replicas that were causally behind, in any order. All of
these are single steps per replica, so operations interleave in every way.

Timestamps are distinct and increase in the order writes start (the code takes
wall-clock nanoseconds of one process). All writes carry one writer identity, as
`Orchestrator.Insert` does. Expiry and the conflict log are left out. `after`,
`acked` and `ended` are history: which writes had returned when an operation
began. `raced` records that a repair hit a replica that had changed since the
repairing read looked at it.

### Kademlia

`known[n]` is the routing table of node `n`, `kv[n]` its store, `th[<<n, g>>]` one
of its goroutines: `api` (Join, then StoreValue and FindValue), `republish`
and `refresh` (the refresh of the buckets that Join starts in the background and
the ticker). A goroutine runs one search at a time in rounds: `pn` are the
closest contacts so far, `queried` those asked, `wait` those of the round that
have not answered, `learnt` what the others sent. `Answer` is an RPC with the
handler at the callee, which takes the caller into its table; `NoAnswer` and
`LoseCall` are calls that fail; `RoundAgain` and `RoundLast` end a round as
`iterativeSearch` does, and `FindHit` ends the search for a value with a copy to
the closest node that did not have it. `Put` stores on one of the contacts found,
`Republish` walks through a snapshot of the store, `Evict` and `Tick` are expiry.

A bucket is a set: its order only decides whom an overflow pings, and
`BucketsFit` says that no bucket overflows. Distances and bucket numbers are
those of the code at a smaller width: `XORDistance` is the set of the bits in which two
identifiers differ, `Less` compares two such sets by the highest bit in which they differ, as
`Cmp` does, and `Closer` tabulates the comparison. The timeout of a round, `AlphaTimeout`, is
0 in the configuration the orchestrator builds and every round then waits for all of its
calls. `Crash` leaves the operations of the node running, as `CrashNode` does.
`clean` is history: every node that exists had joined and refreshed when the
search began, none has begun to join since, and no call was lost;
`acked` is the last store that returned.

### MerkleTree and AntiEntropy

A hash is the tuple it was computed from. The tree is built level by level with
the last hash of an odd level repeated, and compared by descent if both have the
same keys, leaf by leaf otherwise, as in `Diff`. Levels and descent are functions
of the level; `Top`, the number of keys, is a level on which every tree has come down
to its root, and above the root a tree repeats it. `AntiEntropy` tabulates `Diff` over
the trees a round can meet (`DiffOf`).

An entry is the number of the write that made it; writes are numbered in the
order of their timestamps. A round is `gossipRound` (choice of peers, rebuilding
of the tree), then for every peer `Fetch`, the comparison, and one `Reconcile` per
key that decides to push, pull or leave alone, with the `Push` or `Pull` that follows as
a step of its own. `PutEntry` is a client's write at one replica, `DeleteKey`
walks over the nodes, `RpcFails` and `CrashNode` are the faults. `floor` and
`gone` are history: the write a node must not fall behind, since no exchange had
already looked at the entry it replaced, and the keys deleted in quiet.

### Orchestrator

A node is its address, protocol, network (the node that founded it) and state.
Each client of the model is a goroutine with one REST request or scenario; what
it does between two acquisitions of the orchestrator's lock is one step:
`TakeAddr`, `Check`, `Make` (create and register), `Bootstrap`, `Join` or
`JoinFails`, `Publish` are `SpawnNode`; `Unmap`, `Deregister`, `StopNode` are
`KillNode` and `CrashNode`, which differ in what the neighbours are told and not
in the maps; `Reset`, `UpdateConfig`, `SetPartition`, `HealPartition` are the
methods of these names. `Continue` is the loop of a request that does several of these
things (startNetwork, bootstrap, churn, benchmark). The configuration and the
node count a scenario starts from are read in one step. A join is answered only if
the bootstrap node is registered, reachable and of the same protocol; one that is not
in a network yet makes the joiner found one. Without an answer a Chord join fails
(`JoinFails`). A Kademlia join does not: its search drops the errors of its calls and
returns none of its own, and the node is published by itself (`JoinAlone`). It keeps the bootstrap
as a contact, and a later search of its own may still reach somebody; the model
does not follow this and counts its network, in `strays`, as one apart for good.
`doubled`, `crossed`, `firsts` and `strays` are history: what the properties excuse. `doubled`
says that two requests had one address in hand: one chosen by its caller (`given`), now
or for the node that is being removed, or one the counter gave out again after a reset.

### EventBus, Hub and Feed

An event is its number. `Publish` puts it in the bus's queue or drops it; `Take`
is the dispatcher up to the copy of the subscribers under the lock, `Send` what it does
for one of them after it; `Unsubscribe` and `CloseChan` are the two halves of
Unsubscribe. `Run...` and `Cast` are the hub's goroutine and `broadcast`,
`Upgrade`, `Greet`, `StartPumps` are `HandleUpgrade`, `Write` and `WriterLeaves`
are `writePump`, `Ask` and `ReaderLeaves` are `readPump`, `Stop...` is `Stop`.

`Feed` says what all of this is for: published events, what each reader asks for,
and `Give`, which hands a reader an event of a type it asks for and later than
all it has. `Hub` implements it with the events in a client's socket and
queue as its feed; the ring states the hub makes itself are not part of it.

### NodeProcess

One key. `mem` and `disk` are the entry in the store and in Badger, `up` how far
`main` is: down, seeding the memory from disk with the RPC server already up,
joining, serving, draining, leaving, closed. A put goes to memory, then to disk,
then is answered; a get looks in memory, then on disk, then warms the memory.
`Receive` is a write of another node by RPC, with or without a TTL, which is never
written to disk; `Expire` the end of a TTL; `Crash` may come at any moment and leaves
`disk` only. History: the puts acknowledged (`done`), those acknowledged when a
write began (`before`), whether a get was wrong (`stale`), and whether a get
warmed the memory across a put (`raced`).

## 3. What TLC checks

Identifiers have 3 bits in every Chord run: eight positions are enough for
intervals that wrap, for adjacent nodes and for gaps. Nodes `{0, 2, 3}` has two
adjacent members; `{0, 2, 5}` spreads them so that fingers differ. Three nodes are
the smallest ring in which a node has a predecessor, a successor and somebody
else to be repaired with. `chord_late_join` needs five nodes: only then does a
joiner's finger table lead past the founder, so that its updates reach other
nodes' successors, one of them notifies it while it is still joining and
`migrateKeys` has a range to pull.

| run | instance | result |
| --- | --- | --- |
| `chord_join` | two nodes join `{0}`, stabilization and failure detectors running, nothing fails and no fix-fingers tick, fair scheduling; 14 526 states | `TypeOK`, `SuccessorIsFinger0`, `FounderKeepsItself`, `JoinsEnd`, `JoinersConverge` |
| `chord_founder_crash` | node 2 joins 0, which may crash at any point; one RPC may be lost, one fix-fingers tick per node; 90 690 states | `JoinsEnd`; node 2 may be refused, admitted, or found a ring of its own |
| `chord_faults` | stable ring of three, node 5 crashes or any two RPCs are lost; 102 920 states | `PredNotSelf`, `SuccessorIsFinger0`, `JoinersConverge` |
| `chord_leave` | stable ring of three, one key, writes to nodes 2 and 5, node 5 leaves; 798 720 states | `KeysSurvive`, `StableIsFixpoint` |
| `chord_late_join` | node 6 joins a stable ring of four, a key on all of them; 163 300 states | `JoinKeepsOrder`, `LookupProgress` |
| `quorum_fresh` | N = 2, W = 2, R = 1, a finished write, two more writes, two reads, two outages, one return; 3 125 403 states | `TypeOK`, `ReadsFresh`, `RepairConverges` |
| `kad_lookup` | nodes 0, 3, 5 join in turn, then a store and a find from 0 and 3 with one of: node 6 joins, 5 crashes, a call is lost, the clock passes the TTL, a key is republished; K = Alpha = 2; 44 400 states | `TypeOK`, `CopiesAgree`, `LookupExact`, `FindSeesStore`, `SearchNears`, `OpsEnd` |
| `gossip` | two nodes, three keys, four writes, one of an empty value, with a deletion, a crash or a lost call; 83 600 states | `TypeOK`, `DiffExact`, `NoRegress`, `GoneStaysGone`, `Converges` |
| `orchestrator` | any two of twelve requests at once on a network that starts as Kademlia, four addresses, one lost join; 769 000 states | `TypeOK`, `ListedRun`, `Consistent`, `OneNetwork` |
| `hub_feed` | one client, three events, queues of one and two, one tick, one subscription; 160 000 states | `TypeOK`, `GreetedFirst`, `GaugeCounts`, `PanicOnlyAtStop`, `ImplementsFeed`, `ClientsLeave` |
| `node_process` | two clients, four writes, two gets, two starts, one disk error; 980 000 states | `TypeOK`, `Durable`, `GetFresh` |

`MCChord` starts the failure runs from the state stabilization leaves a ring of
three in. `StableIsFixpoint` shows that no loop changes a neighbour or a successor list
while everybody stays, and that nothing but a node's own fix-fingers writes to its
tables; `StabilizationQuiesces` (section 5) proves it for rings of any size. `JoinKeepsOrder`
has two parts: `SuccsKept`, nobody but a joiner comes between a settled node and its
successor, and `PredsKept`, a node gives up its predecessor only for a joiner that lies
between it and all the others. Fingers other than the first play no part in those runs (nobody joins
and no fix-fingers tick happens). In `chord_faults` the action constraint
`OneKindOfFault` keeps crashes and losses apart, for a survivor that also takes the
next node of its list for dead may be left with nobody: behaviours with a crash
start with all losses used up, and the others stay one below `MaxLosses`. It
forbids no step but losses and crashes, which nothing obliges to happen.

What the runs of the other parts show. A Kademlia search that learns of closer
nodes only from those it asks still ends with the closest of all (`LookupExact`);
on the way there, whatever the tables hold, every round but the final one brings it nearer
(`SearchNears`), and however a value is copied its copies expire at the same time
(`CopiesAgree`). A gossip
exchange that is overtaken by a write does replace it (`floor` excuses that), but
nothing else makes a store fall back. `ListedRun` holds without
exception; `Consistent` and `OneNetwork` hold up to the races and, the latter, the
unanswered Kademlia joins their comments name, and each of these does break them (section 4). The two
excuses of the hub, panic and clients upgraded after `Stop`, are states of the
model too.

Deadlock is checked where the loops go on for ever. It is not in
`chord_founder_crash`, where every node may be gone or refused, nor in the runs
of the other parts, whose clients come to an end of their bounded operations or
whose process may stop for good.

**Fairness.** `FairSpec` assumes weak fairness of each goroutine of a started
node and of a departure once begun: the Go scheduler runs every runnable
goroutine, RPCs return, and the tickers keep firing. Nobody is bound to spawn,
kill or crash a node, and nothing is assumed about how fast one goroutine is
compared to another, although the code's tickers are (500 and 750 ms).
`Kademlia` and `AntiEntropy` assume less: as long as some goroutine can go on, some
goroutine does (gossip's ticker included, which starts rounds again and again).
`Hub` assumes the same of HandleUpgrade, the write pumps, the readers of closed
connections and `Stop`; nobody has to publish, to disconnect or to stop the hub.

**Bounds.** `MaxTicks` caps the fix-fingers ticker only: Stabilize and the
failure detectors run without limit in every run. `MaxLosses` caps losses; with
unboundedly many nothing can converge. `CrashSet` and `KillSet` name who may
depart; `PutSet` names the nodes clients write to. `quorum_fresh` takes three writes because reads of two writes are fresh
whatever happens (section 5): the first is there at the start, so that repairs have
an old version to put back, and with R = 1 every single replica can answer a read.
In `kad_lookup` four nodes of three bits make
buckets of one and two contacts, and K = 2 makes every node forget somebody, so
that searches need more than one round; `MaxFaults` allows one disturbance of
any kind. In `gossip` three keys give a tree with an odd level, and the four
writes a key missing on one side, one the same on both, an empty value and an overwritten
key. `orchestrator` needs two requests for a race and four
addresses for two networks of two; what takes three requests or more is left to the
proofs. The queues of `hub_feed` are smaller than the number
of events, so that each of them is full at some point. In `node_process` two starts put a crash
or shutdown between a put and a get, and four writes two puts, an
RPC and a put after the restart. The names of these bounds begin with `Max`. Symmetry among
operations of one kind, and among the orchestrator's clients, is used with
invariants only.

Each property is also run against a mutated model (`mutants` in
`PROJECT.json`): a definition replaced by the version a plausible slip in the
code would give ("Seeded fault" or "Mutant" in the modules). Each of them breaks the property.

## 4. Where the code and its documents disagree

One run states what a document says, and TLC refutes it:

* `doc_stale_read`: SPEC.md guarantees "W + R > N -> no stale read". A repair
  that runs late stores an old version over a newer, acknowledged one
  (`replication/quorum.go:211`), and a later read served by that replica
  returns it. It takes three writes: `FreshReads` (section 5) proves that two do not
  suffice, and which conditions make reads of any number of writes fresh. A slow write
  of an old version can do the same without any repair.

Others are plain from a model or are what a property has to excuse:

* SPEC.md asks that after a join "All successors correct". The node that created
  the ring keeps itself as successor for ever: `Stabilize` returns early for it
  (`chord/stabilize.go:24`), and `UpdateFingerTable` compares a joiner with the
  interval `(n, n)`, which `IsInInterval` takes to be empty. The ring is a chain
  that ends at the founder. Theorem `FounderStaysAlone` proves it.
* SPEC.md says "departing node D transfers all its keys to D.successor", and so does
  `chord/leave.go:11`. A write that has looked its handler up
  (`transport/inprocess.go:159`) before the node is deregistered may store after `Leave` has read
  the store (`leave.go:25`): it is acknowledged, and its key stays on the stopped
  node alone. `KeysSurvive` excuses these entries (`late`) and no others; without the
  exception TLC finds the behaviour in `chord_leave`.
* `Join` promises in its fourth step to "take ownership of keys in (predecessor,
  n]". It has just cleared the predecessor, and `migrateKeys` returns when there
  is none (`chord/join.go:133`). Only a Notify that arrives in the middle of the
  join makes it copy anything.
* A Kademlia store takes whatever arrives (`kademlia/rpc_handler.go:25`): with two
  stores of one key, a republish of the first (`node.go:182`) or the copy
  FindValue leaves on its way (`lookup.go:100`) brings the older value back.
  `FindSeesStore` therefore asks for a value and not for the latest.
* A Kademlia join that reaches nobody succeeds (`kademlia/lookup.go:43`, `join.go:19`), where
  `simulation/orchestrator.go:287` is ready for an error. A bootstrap that is removed between
  its choice and the join leaves the new node in a network of its own, which later nodes may join
  (`OneNetwork` excuses `strays`).
* SPEC.md (6.4) hashes `key + value + clock` into a leaf of the Merkle tree. `leafHash`
  (`store/merkle.go:215`) and the model leave the clock out: two versions of a key with
  equal values are not exchanged and keep their different clocks.
* A full k-bucket is pinged with its lock held (`kademlia/routing.go:76`), and the
  pinged node takes the sender into its own bucket while it answers: two nodes that
  ping each other wait for each other, where `simulation/orchestrator.go:402` says
  of a lookup that it "never blocks indefinitely". The model's buckets do not
  overflow.
* `store/merkle.go:71`: "Keys present in one but not the other are always returned
  as differing". A key with an empty value and one that is absent hash alike
  (`merkle.go:111`) and are not; `DiffExact` excuses this pair.
* SpawnNode's check that the network is empty is not made under the lock that
  publishes the node: two first spawns make two networks (`OneNetwork` excuses
  `firsts`). startNetwork and updateConfig write back a configuration read earlier
  (`gateway/rest.go:78`) and undo each other (`crossed`). A join that fails
  deregisters its address, whoever has it by then (`doubled`).
* "Stop drains the hub by preventing new broadcasts and closing active client
  sockets" (`gateway/websocket.go:88`). A client upgraded after `Stop` has swapped
  the map is never closed. And `Run`, once stopped, unsubscribes, which closes a channel
  the dispatcher may be about to send on (`events/bus.go:61`, `111`): the process
  panics. `PanicOnlyAtStop` shows that this is the only time.
* `events/bus.go:64` announces the history newest first; it is oldest first.
* A get of a node process that found nothing in memory writes what it read from
  disk over a put that came meanwhile (`cmd/node/main.go:130`), which `GetFresh`
  excuses. At the start the seed replaces entries that came by RPC since the server
  went up (`main.go:346`), and what comes by RPC is never on disk.

The models also show, with other constants and without a run of their own:
when the founder crashes, the last node of the chain keeps its dead successor,
because its list holds nobody else (`CrashSet = {0}`); a node that has
adopted a joiner whose own successor list is still empty has the joiner alone in
its list, and is cut off for good if the joiner crashes before the next round; keys are lost when the
founder leaves, which skips the transfer because it is its own successor
(`KillSet = {0}`), and when two neighbours leave at once (`KillSet = {2, 5}`);
the Notify by which `Leave` tells the successor about its new predecessor is
refused, because that candidate does not lie between the departing node and the
successor; a write that failed with one ack can outrank a later acknowledged
one, if the replica that holds it is away while the later one reads clocks
(three writes, three outages).

## 5. What is proved

`ChordProofs`, for identifiers of any width:

* `InsideIsNearer`, `NearerIsInside`: `IsInInterval(x, a, id)` holds exactly when
  `x` is strictly nearer to `id`, clockwise, than `a` is (with the degenerate
  interval empty);
* `IntervalsPartition`: an interval and its complement partition the circle
  without their two ends.

and for every width, set of nodes, list size, and bound on ticks,
losses, crashes and departures:

* `TypeCorrect`: `Spec => []TypeOK`;
* `Finger0Agrees`: `Spec => []SuccessorIsFinger0`;
* `FounderStaysAlone`: `Spec => []FounderKeepsItself`;
* `LookupsProgress`: `Spec => LookupProgress`, a lookup never cycles whatever the tables hold;
* `NeverOwnPredecessor`: `Spec => []PredNotSelf` if `KillSet = {}`. With
  departures it need not hold: `Leave` notifies the predecessor of its
  successor, which in a ring of two is that very node, and a node without a
  predecessor accepts whatever it is told.

Assumptions: `BitsAssumption` and `ChordAssumption`, which TLC evaluates in
every run. `BitsAssumption` includes that powers of two are naturals: the
provers know nothing about exponentiation.

The argument. `TypeOK` is not inductive: a successor or predecessor is copied
from a thread's locals, so those have to be known first. The invariant is

    IInv == TypeOK /\ ThreadsOK /\ BootOK /\ OffIsIdle /\ IndexOK

`ThreadsOK` says for every program counter which locals are node references
rather than nil, which index ranges hold, and that Stabilize never asks or
adopts the node itself; `BootOK` that a joining node has a
bootstrap node; `OffIsIdle` that a node not yet spawned has no thread under way;
`IndexOK` that the rotating finger index never is 0, so that the ticker never
writes finger 0 behind the successor's back. There is one lemma per group of
actions. `SuccessorIsFinger0` then follows by cases over the six places that
write either pointer. `FounderKeepsItself` needs `FounderInv`: the founder's
finger 0 is itself as well, its main thread is outside Join and never gets past
the early return of Stabilize, and its successor check never begins, so that
nobody but a joiner's `UpdateFingerTable` could give it another successor, and
that finds no identifier inside the interval `(First, First)`.
`NeverOwnPredecessor` needs `NoDeparture`: no thread is inside `Leave`.
`LookupProgress` is `InsideIsNearer` applied to what `ClosestPrecedingNode`
returns. `IInv` and `FounderInv` were checked with TLC before they were proved.

`ChainProofs`, for rings of any size (with `StableAssumption`: the founder is no late
node). First, departures:

* `LeaveKeepsKeys`: `Spec => []KeysSurvive` if one node at most leaves, which is not the founder,
  and every RPC to a registered node is answered (`OneDeparture`), whatever joins and
  repairs interleave with the departure;
* `StableLeaveKeepsKeys`: the same of a ring that is stable when the departure begins.

`KeysSurvive` leaves out the entries in `late`, which the code does lose.
The conditions are those the code needs: with two departures at once or with the
founder's, keys are lost (section 4), and `Leave` goes on when its transfer fails. The argument needs to know whom a
reference may lead to. `KnownInv` says that every successor, predecessor, finger, list entry
and local of a thread is a node that has announced itself, and that the successor
is one for every node that has joined. `LeaverInv` says on top of it that nobody but `x`
departs, that `x` has a successor other than itself, and that once `x` is past the transfer each of
its keys, but for the late ones, is at another node.

Second, the stable ring:

* `StableTypeCorrect`, `StableNeverOwnPredecessor`: `TypeOK`, and `PredNotSelf` if
  `KillSet = {}`, for rings that start stable;
* `StabilizationQuiesces`: `StableSpec => StableIsFixpoint` if nobody is late and no RPC
  lost, for any `CrashSet`, `KillSet` and number of ticks. A lost ping would make `CheckPredecessor`
  clear a predecessor that is alive;
* `JoinsKeepSuccessors`: `StableSpec => []SuccsKept` for any number of joiners at once, if
  nobody departs and no RPC is lost (`NoFaults`);
* `OneJoinKeepsOrder`: `StableSpec => []JoinKeepsOrder` for one joiner, under `NoFaults`.

The argument. `StableSucc`, `StablePred` and `StableList` are defined by CHOOSE over
distances; that they are what the loops recompute (the predecessor of the successor
is the node, the list of the successor shifted by one is the node's list) is the geometry of
the chain. `Calm` says that pointers and lists are the stable ones and that no thread is in a
branch that would adopt or repair anything; it holds as long as `Everyone` is a
member. `JoinInv` says that the successor of a settled node is the stable one or a late
node before it (`Near`), and that the successor a thread of it has in hand is such a node too. The
predecessor half needs to know what the joiner does: `AheadInv` says that its successor, and every
answer to the lookup for it, lies ahead of it on the chain that ends at the founder, so
the one it notifies has nobody settled in between (`PredInv`). With several joiners, the
successor of one may be another, and what it notifies depends on how far that one has come:
`PredsKept` is proved, and checked, for one. All of these invariants were checked
with TLC first.

`KademliaProofs`, for any width, nodes, keys, K, Alpha and bounds (`KademliaAssumption`, and
`PowerAssumption`: what the provers must be told about powers of two):

* `XORMetric`: `XORDistance` is symmetric, is empty for equal identifiers only, and no two
  identifiers are equally far from a third, so that sorting by distance is unambiguous;
* `FlippedBit`: for every bucket there is the identifier `refreshBuckets` looks up, and it lies
  in that bucket;
* `TypeCorrect`: `Spec => []TypeOK`, by which a search never holds more than K contacts, never asks
  its own node and waits only for contacts it has asked;
* `CopiesAlike`: `Spec => []CopiesAgree`;
* `RoundsNear`: `Spec => SearchNears`: a search asks nobody twice and each further round comes nearer
  or is the final one, so it has no more rounds than it comes to know contacts, and one.

All are proved for `Spec`, in which nodes and clients begin whenever they like, and so
for the order in which `MCKademlia` lets them. The argument. A search keeps
at most K contacts because `KClosest` picks by rank in a strict total order; that `Less`
is one is shown on the highest differing bit. `IInv` adds to the types that a table never holds its
owner or a contact that does not exist and what each step of an operation has at hand.
`CopyInv` says of every entry stored, under way or in the snapshot of a republish that its
number was given out before and that any two with one number are one.

`NodeProcessProofs`, for any number of clients, writes, gets, starts and disk
errors (`NodeProcessAssumption`: the bounds are naturals):

* `TypeCorrect`: `Spec => []TypeOK`, by which nothing with a TTL and nothing
  received by RPC is ever on disk;
* `PutsAreDurable`: `Spec => []Durable`;
* `GetsAreFresh`: `Spec => []GetFresh`.

The argument. Whether an acknowledged put is overtaken depends on writes still
under way, so `Durable` is proved together with what is known of them:

    IInv == Types /\ Bounds /\ Flights /\ Starting /\ Ledger /\ Durable

`Bounds` keeps every number below the counter of writes, so that a new write is
new; `Flights` says that a put under way has a number of its own, is not yet
acknowledged and has no TTL; `Starting` that a starting process has no requests and
that what is to be seeded is what is on disk; `Ledger` that `before` holds
acknowledged puts only and that no write with a TTL is where the API writes.
`GetFresh` adds `FInv`: as long as no get has raced, what is in memory was not
acknowledged before a put began that is acknowledged by now (`Memory`) or has reached
the memory and may yet be (`Pending`); `Gets` says what a get under way knows. There is
one lemma per action for each of the two invariants.

`QuorumProofs`, for any replicas in any order, writers, writes, reads and outages
(`QuorumAssumption`: every replica is in the order readMergedClock goes through,
W and R are positive, the bounds are naturals):

* `TypeCorrect`: `Spec => []TypeOK`;
* `RepairsConverge`: `Spec => []RepairConverges`;
* `FreshReads`: `Spec => []ReadsFresh` if W + R > N.

The argument. `IInv` says what is known of a write and of a read at each of their
points, and that every entry, stored or answered, is the version of a write whose clock
is fixed (`Sound`). `RepairConverges` is not inductive on top of it, because
it speaks of reads that have repaired everybody; `Repaired` says of a read at any point
that what it was told has only risen since (`Rose`) and that a replica it found lagging
is still to be repaired or no longer lags (`Mended`). Both rest on vector clocks being a partial
order with `Merge` above both its arguments, and on `Resolve` never picking
the causally earlier of two entries. `ReadsFresh` has an invariant of its own,

    Fresh == IsFiniteSet(Started) /\ Alone /\ (\A v, w \in Writes : Pair(v, w)) /\ Rising

`Pair` is the case of two writes: the first, ended before the second began, has read no
clock but zero, so the second is never behind it, the replicas that acknowledged the
second keep it whatever is repaired with the first, and W + R > N puts one of them into every later
read. `Rising` is the case of writes one by one while nothing has returned and nothing
raced: a replica that is up has all finished writes or something later (`Kept`), so a
write has seen those before it (`Seen`, `Later`) and no answer of a read is behind
what was acknowledged before it (`Answers`).

`AntiEntropyProofs`, for any finite set of keys (`KeyAssumption`):

* `DiffFinds`: `Diff` of two trees is the set of the keys in which they differ, except
  those that have an empty value in one and are absent from the other.

The argument. Each level above the leaves is half the one below, rounded up, so level
`Top` has one hash or none (`Heights`); hashes being injective, a pair is no leaf and
two trees whose roots agree agree on every level below (`RootInjective`, `RootsAgree`); and the descent reaches
leaf `i` exactly if the hashes above it differ all the way up, which they do if the leaves do
(`UpDiffers`, `DescentIs`).

and for any nodes, keys, writes, placement of replicas, deletions, crashes
and failed calls (`GossipAssumption`):

* `TypeCorrect`: `Spec => []TypeOK`;
* `ComparisonExact`: `Spec => []DiffExact`, from `DiffFinds`;
* `WritesStay`: `Spec => []NoRegress`;
* `DeletedStaysDeleted`: `Spec => []GoneStaysGone`.

The argument. A store takes whatever a round pushes or pulls, so a round must not hold
anything older than the floor of the store it will write to. The invariant is

    IInv == Types /\ Sanity /\ NoRegress /\ Weighed /\ GoneStaysGone /\ Forgotten /\ CleanDelete

`Weighed` says this of the snapshot and of the entry in hand at each point of a round,
`Sanity` that a round never turns to its own node and keeps nothing of keys it is done with, `Forgotten` that no round under way knows
anything of a key that is gone, and `CleanDelete` that a deletion that began
between rounds has emptied the nodes it has visited.

`OrchestratorProofs`, for any number of clients, requests, addresses, protocols and
failed joins (`OrchestratorAssumption`):

* `TypeCorrect`: `Spec => []TypeOK`;
* `ListedNodesRun`: `Spec => []ListedRun`;
* `OneStory`: `Spec => []Consistent`;
* `NetworkIsOne`: `Spec => []OneNetwork`.

The argument is a chain of three invariants. `IInv` says what a request holds at each of its
points and that the two maps name the same nodes. `Tale` adds, as long as nothing was crossed,
that a reset runs alone (`Apart`) and that the addresses below the counter
are in one hand or in the maps once (`Counter`); that a registered node has the address it
is registered under; and, as long as no address is in two hands, what the maps,
the registry and the nodes have to do with each other (`Alone`, `Listing`, `Story`). `Net` adds that the nodes
listed or on their way are of the protocol in force (`Uniform`) and of one
network, together with whoever is registered where a node is about to join
(`Wired`), but for the networks of nodes whose join reached nobody. The conditions of the three
properties are the races and the unanswered joins of section 4; the proofs
show that nothing else breaks them, for any number of requests at once. Two of these
races take three requests at once and are out of the run's reach: a spawn at a chosen
address while the node that had it is being removed, and a join through an address that is
in two hands.

`HubProofs`, for any number of clients, events, types and any capacities of the
queues (`EventBusAssumption`, `HubAssumption`):

* `TypeCorrect`: `Spec => []TypeOK`;
* `FirstGreeted`: `Spec => []GreetedFirst`;
* `GaugeIsRight`: `Spec => []GaugeCounts`;
* `PanicsOnlyAtStop`: `Spec => []PanicOnlyAtStop`;
* `FeedImplemented`: `Spec => ImplementsFeed`, the refinement.

The argument. The invariant is

    IInv == BusTypes /\ HubTypes /\ Capacities /\ AllSound /\ Counted /\ Stopped /\ Ordered

`AllSound` says what a client may have been sent at each stage of HandleUpgrade, `Counted` that
the gauge is the number of clients whose write pump has not left, `Stopped` that the
channel is closed after the stop only. `Ordered` is what the refinement needs: along
the path queue, dispatcher, channel, `Run`, clients, each event comes after all that
are further along. A step of the hub is then a step of `Feed` or a
stutter: `Cast` for one client is `Give`, for `Run` has an event in hand that is later than
all the client has; the ring states in its queue are filtered out, which takes an
induction over the length of the queue.

TLAPS cannot be given the library's induction theorems, whose parameter is an operator.
Where a proof needs induction (over the levels of a tree, the length of a queue), it takes the least
element of the set of counterexamples instead (`NatMin`).

Only model-checked:

* liveness (`JoinsEnd`, `JoinersConverge`, `OpsEnd`, `Converges`, `ClientsLeave`), which
  is out of the reach of the installed backends together with `ENABLED`;
* `LookupExact` and `FindSeesStore` of Kademlia. They are claims about networks that grew one node
  after the other and are settled (`DrivenSpec`), and rest on how tables fill, which has no
  short invariant: a table may hold anybody, and which nodes it must hold depends on who answered whom.

What a theorem says of the code is bounded by the model: one key and one process's clock in
`QuorumManager` and `NodeProcess`, injective hashes in `MerkleTree`, distinct
timestamps in `AntiEntropy`.

## 6. Not modelled, and what could follow

Proofs that could follow: `PredsKept` for several joiners at once, with an invariant that
orders the joiners between two settled nodes; `LookupExact` for networks that grow in the
order `MCKademlia` spawns them, with one that says of every non-empty bucket that it is known to.
A model of one full k-bucket with its lock and its ping, without the searches around it, would
make the deadlock of section 4 a run.

Left out:

* virtual nodes (`consistent/vnode.go`) and CRDTs (`store/crdt.go`): no other part
  of the program uses them; the same holds of the generated protobuf code;
* the TCP transport's encoding, connection pool and client side. What its server
  does to a node's store is `Receive` in `NodeProcess`;
* the conflict history of `replication/conflict.go`, a bounded log nobody reads back;
* replica placement and the views that only read (lookup traces, network state,
  key replicas), and the hot-key scenario, which only inserts;
* in the gateway: parsing, formatting, authentication, metrics, the rate limiter;
* the frontend; the proof-of-work search of `consistent/hash.go`.

## 7. Running it

    tlc -workers 2 -config chord_join.cfg Chord
    tlc -workers 2 -config chord_faults.cfg MCChord
    tlc -workers 2 -config quorum_fresh.cfg MCQuorum
    tlc -workers 2 -config kad_lookup.cfg MCKademlia
    tlc -workers 2 -config gossip.cfg MCAntiEntropy
    tlc -workers 2 -config orchestrator.cfg MCOrchestrator
    tlc -workers 2 -config hub_feed.cfg MCHub
    tlc -workers 2 -config node_process.cfg NodeProcess
    tlapm ChordProofs.tla
    tlapm ChainProofs.tla
    tlapm KademliaProofs.tla
    tlapm NodeProcessProofs.tla
    tlapm QuorumProofs.tla
    tlapm AntiEntropyProofs.tla
    tlapm OrchestratorProofs.tla
    tlapm HubProofs.tla

`PROJECT.json` names the module and the configuration of every run. Most proofs take a few
minutes from nothing, `ChainProofs` about seven and `OrchestratorProofs` about ten.

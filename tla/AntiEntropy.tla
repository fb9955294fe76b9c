---------------------------- MODULE AntiEntropy ----------------------------
(***************************************************************************)
(* internal/gossip/gossip.go with the stores it reconciles: every node     *)
(* runs rounds in which it rebuilds its Merkle tree, fetches the entries   *)
(* of some peers, and for each key in which the trees differ pushes,       *)
(* pulls or lets the later timestamp win.  Each RPC and each access to a   *)
(* store is a step of its own: the rounds of the nodes, the writes of the  *)
(* quorum manager and DeleteKey interleave between them.                   *)
(***************************************************************************)
EXTENDS Integers, FiniteSets, MerkleTree

CONSTANTS
  Node,
  MaxWrites,                      \* writes of clients, numbered in the order of their timestamps
  keyOf, valueOf, replicasOf,     \* write -> its key, its value, where it goes
  Early,                          \* writes made before the rounds begin
  PeersPerRound,                  \* Config.PeersPerRound
  CrashSet,                       \* nodes that may crash
  MaxFails,                       \* bound on lost RPCs
  MaxDeletes                      \* bound on DeleteKey calls

Write == 1 .. MaxWrites
Entry == 0 .. MaxWrites           \* a ValueEntry is the write that made it
None == 0                         \* no entry; below every timestamp
NoNode == "none"

ASSUME GossipAssumption ==
  /\ MaxWrites \in Nat /\ PeersPerRound \in Nat \ {0}
  /\ MaxFails \in Nat /\ MaxDeletes \in Nat
  /\ keyOf \in [Write -> Key] /\ valueOf \in [Write -> Nat]
  /\ replicasOf \in [Write -> SUBSET Node] /\ Early \subseteq Write
  /\ CrashSet \subseteq Node /\ NoNode \notin Node /\ 0 \notin Key

VARIABLES
  alive,                          \* nodes registered and listed by the orchestrator
  store,                          \* node -> key -> entry
  ae,                             \* node -> where its gossip goroutine is
  sent,                           \* <<node, write>>: PutEntry calls made for clients
  deleting, deletes,              \* the DeleteKey under way, calls so far
  fails,                          \* RPCs lost so far
  floor,                          \* history: node -> key -> the write it must not fall behind
  gone                            \* history: keys deleted while no round was under way

vars == <<alive, store, ae, sent, deleting, deletes, fails, floor, gone>>

\* pc: "idle", "fetch" (GetAllEntries is next), "compare", "key" (todo are the
\* keys of Diff left), "push" or "pull" (entry goes to the peer's or the own store).
\* tree is localMerkle, which nothing reads between rounds; snap keeps what is
\* still to be weighed.
Idle == [pc |-> "idle", peers |-> {}, peer |-> NoNode, snap |-> [k \in Key |-> None],
         tree |-> [k \in Key |-> Absent], todo |-> {}, key |-> 0, entry |-> None]

NoDelete == [key |-> 0, left |-> {}, clean |-> FALSE]

\* What a node holds when its rounds begin: the latest of the writes it got.
Held(n, k) ==
  LET ws == {w \in Early : n \in replicasOf[w] /\ keyOf[w] = k}
  IN  IF ws = {} THEN None ELSE CHOOSE w \in ws : \A v \in ws : v <= w

Init ==
  /\ alive = Node
  /\ store = [n \in Node |-> [k \in Key |-> Held(n, k)]]
  /\ ae = [n \in Node |-> Idle]
  /\ sent = {c \in Node \X Early : c[1] \in replicasOf[c[2]]}
  /\ deleting = NoDelete /\ deletes = 0 /\ fails = 0
  /\ floor = store
  /\ gone = {}

value(e) == IF e = None THEN Absent ELSE valueOf[e]
treeOf(entries) == [k \in Key |-> value(entries[k])]

\* Diff as a function of the two trees; TLC tabulates a function that it compares.
Tree == [Key -> {Absent} \cup {valueOf[w] : w \in Write}]
DiffOf == CHOOSE d \in {[p \in Tree \X Tree |-> Diff(p[1], p[2])]} : d = d

least(S) == CHOOSE k \in S : \A j \in S : k <= j

\* s with the fields of its last key cleared.
Onward(s) == [s EXCEPT !.pc = "key", !.key = 0, !.entry = None]

Quiet == \A n \in Node : ae[n].pc = "idle"

-----------------------------------------------------------------------------
(* A round of n                                                              *)

\* The exchange with one of the peers is next, or the round is over.
Rest(peers, tree) ==
  IF peers = {} THEN {Idle}
  ELSE {[Idle EXCEPT !.pc = "fetch", !.peers = peers \ {p}, !.peer = p, !.tree = tree] : p \in peers}

Goto(n, s) == ae' = [ae EXCEPT ![n] = s]

\* Mutant: getPeers lists the node itself too.
gossipRoundSelf(n) ==
  /\ n \in alive /\ ae[n].pc = "idle"
  /\ \E peers \in SUBSET alive :
       /\ Cardinality(peers) = PeersPerRound
       /\ \E s \in Rest(peers, treeOf(store[n])) : Goto(n, s)
  /\ deleting' = [deleting EXCEPT !.clean = FALSE]
  /\ UNCHANGED <<alive, store, sent, deletes, fails, floor, gone>>

\* gossipRound: a fresh tree and up to PeersPerRound peers at random.
gossipRound(n) ==
  /\ n \in alive /\ ae[n].pc = "idle"
  /\ \E peers \in SUBSET (alive \ {n}) :
       /\ Cardinality(peers) <= PeersPerRound
       /\ Cardinality(peers) < PeersPerRound => peers = alive \ {n}
       /\ \E s \in Rest(peers, treeOf(store[n])) : Goto(n, s)
  /\ deleting' = [deleting EXCEPT !.clean = FALSE]
  /\ UNCHANGED <<alive, store, sent, deletes, fails, floor, gone>>

\* KVStore.Put, and the NotifyPut that follows it, at n.
Stored(n, k, e) == [store EXCEPT ![n][k] = e]
Notified(places, n, k, e) ==
  IF places[n].pc = "idle" THEN places ELSE [places EXCEPT ![n].tree[k] = value(e)]

\* GetAllEntries: a snapshot of the peer's store.
Fetch(n) ==
  /\ ae[n].pc = "fetch" /\ ae[n].peer \in alive
  /\ Goto(n, [ae[n] EXCEPT !.pc = "compare", !.snap = store[ae[n].peer]])
  /\ UNCHANGED <<alive, store, sent, deleting, deletes, fails, floor, gone>>

\* An RPC fails, the peer being gone or the call lost: a fetch ends the exchange,
\* a failed PutEntry is ignored.
RpcFails(n) ==
  /\ ae[n].pc \in {"fetch", "push"}
  /\ IF ae[n].peer \in alive THEN fails < MaxFails /\ fails' = fails + 1 ELSE fails' = fails
  /\ \E s \in IF ae[n].pc = "fetch" THEN Rest(ae[n].peers, ae[n].tree) ELSE {Onward(ae[n])} :
       Goto(n, s)
  /\ UNCHANGED <<alive, store, sent, deleting, deletes, floor, gone>>

\* Roots, then Diff of the own tree and the snapshot's.
Compare(n) ==
  /\ ae[n].pc = "compare"
  /\ \E todo \in {DiffOf[ae[n].tree, treeOf(ae[n].snap)]} :
       Goto(n, [ae[n] EXCEPT !.pc = "key", !.todo = todo,
                             !.snap = [k \in Key |-> IF k \in todo THEN @[k] ELSE None]])
  /\ UNCHANGED <<alive, store, sent, deleting, deletes, fails, floor, gone>>

\* Mutant: the earlier timestamp wins.
PeerWinsEarlier(local, peer) == peer # None /\ (local = None \/ peer < local)

\* pickWinner: the peer's entry if its timestamp is later.  No entry is earlier
\* than any, so this is also the case of one side having the key.
PeerWins(local, peer) == peer > local

\* Mutant: an own entry that wins is kept, not sent.
ReconcileKeeps(n) ==
  LET s == ae[n]
      k == least(s.todo)
      local == store[n][k]
      peer == s.snap[k]
      rest == [s EXCEPT !.todo = @ \ {k}, !.snap[k] = None]
      step == IF PeerWins(local, peer) THEN "pull" ELSE IF peer = None /\ local # None THEN "push" ELSE "key"
  IN  /\ s.pc = "key" /\ s.todo # {}
      /\ Goto(n, IF step = "key" THEN rest
                 ELSE [rest EXCEPT !.pc = step, !.key = k,
                                   !.entry = IF step = "pull" THEN peer ELSE local])
      /\ UNCHANGED <<alive, store, sent, deleting, deletes, fails, floor, gone>>

\* The next key of the diff: the entries now held here and in the snapshot are
\* weighed; the key may be gone on both sides by now.
Reconcile(n) ==
  LET s == ae[n]
      k == least(s.todo)
      local == store[n][k]
      peer == s.snap[k]
      rest == [s EXCEPT !.todo = @ \ {k}, !.snap[k] = None]
      step == IF PeerWins(local, peer) THEN "pull" ELSE IF local # None THEN "push" ELSE "key"
  IN  /\ s.pc = "key" /\ s.todo # {}
      /\ Goto(n, IF step = "key" THEN rest
                 ELSE [rest EXCEPT !.pc = step, !.key = k,
                                   !.entry = IF step = "pull" THEN peer ELSE local])
      /\ UNCHANGED <<alive, store, sent, deleting, deletes, fails, floor, gone>>

\* PutEntry at the peer: it overwrites whatever the peer holds by now.
Push(n) ==
  /\ ae[n].pc = "push" /\ ae[n].peer \in alive
  /\ store' = Stored(ae[n].peer, ae[n].key, ae[n].entry)
  /\ ae' = Notified([ae EXCEPT ![n] = Onward(@)], ae[n].peer, ae[n].key, ae[n].entry)
  /\ UNCHANGED <<alive, sent, deleting, deletes, fails, floor, gone>>

Pull(n) ==
  /\ ae[n].pc = "pull"
  /\ store' = Stored(n, ae[n].key, ae[n].entry)
  /\ ae' = Notified([ae EXCEPT ![n] = Onward(@)], n, ae[n].key, ae[n].entry)
  /\ UNCHANGED <<alive, sent, deleting, deletes, fails, floor, gone>>

\* The exchange has ended.
SyncEnd(n) ==
  /\ ae[n].pc = "key" /\ ae[n].todo = {}
  /\ \E s \in Rest(ae[n].peers, ae[n].tree) : Goto(n, s)
  /\ UNCHANGED <<alive, store, sent, deleting, deletes, fails, floor, gone>>

-----------------------------------------------------------------------------
(* Clients                                                                   *)

\* Some exchange has already looked at n's entry for k and may still act on it.
Raced(n, k) ==
  \/ ae[n].pc = "pull" /\ ae[n].key = k
  \/ \E m \in Node :
       /\ ae[m].peer = n
       /\ \/ ae[m].pc = "compare"
          \/ ae[m].pc \in {"key", "push", "pull"} /\ k \in ae[m].todo
          \/ ae[m].pc = "push" /\ ae[m].key = k

\* HandlePutEntry for the quorum manager, which sends a write to several nodes
\* at its own pace.
PutEntry(n, w) ==
  LET k == keyOf[w] IN
  /\ n \in alive \cap replicasOf[w] /\ <<n, w>> \notin sent
  /\ store' = Stored(n, k, w)
  /\ ae' = Notified(ae, n, k, w)
  /\ sent' = sent \cup {<<n, w>>}
  /\ floor' = [floor EXCEPT ![n][k] = IF Raced(n, k) /\ @ < w THEN @ ELSE w]
  /\ gone' = gone \ {k}
  /\ deleting' = [deleting EXCEPT !.clean = @ /\ deleting.key # k]
  /\ UNCHANGED <<alive, deletes, fails>>

\* DeleteKey begins: it goes over the nodes under the orchestrator's lock.
DeleteKey(k) ==
  /\ deletes < MaxDeletes /\ deleting.left = {}
  /\ deletes' = deletes + 1
  /\ deleting' = [key |-> k, left |-> alive, clean |-> Quiet]
  /\ UNCHANGED <<alive, store, ae, sent, fails, floor, gone>>

\* Mutant: DeleteKey stops deleting at the first node.
DeleteAtFirst(n) ==
  LET k == deleting.key IN
  /\ n \in deleting.left
  /\ store' = IF deleting.left = alive THEN [store EXCEPT ![n][k] = None] ELSE store
  /\ floor' = [floor EXCEPT ![n][k] = None]
  /\ deleting' = [deleting EXCEPT !.left = @ \ {n}]
  /\ gone' = IF deleting.clean /\ deleting.left = {n} THEN gone \cup {k} ELSE gone
  /\ UNCHANGED <<alive, ae, sent, deletes, fails>>

\* KVStore.Delete at the next node; the Merkle tree is not told.
DeleteAt(n) ==
  LET k == deleting.key IN
  /\ n \in deleting.left
  /\ store' = [store EXCEPT ![n][k] = None]
  /\ floor' = [floor EXCEPT ![n][k] = None]
  /\ deleting' = [deleting EXCEPT !.left = @ \ {n}]
  /\ gone' = IF deleting.clean /\ deleting.left = {n} THEN gone \cup {k} ELSE gone
  /\ UNCHANGED <<alive, ae, sent, deletes, fails>>

\* CrashNode (it waits for the orchestrator's lock).  The round the node is in
\* goes on, the next one does not start.
CrashNode(n) ==
  /\ n \in CrashSet \cap alive /\ deleting.left = {}
  /\ alive' = alive \ {n}
  /\ UNCHANGED <<store, ae, sent, deleting, deletes, fails, floor, gone>>

-----------------------------------------------------------------------------
Step(n) == Fetch(n) \/ Reconcile(n) \/ Push(n) \/ Pull(n) \/ SyncEnd(n) \/ RpcFails(n) \/ Compare(n)

Next ==
  \/ \E n \in Node :
       \/ gossipRound(n)
       \/ Fetch(n) \/ RpcFails(n) \/ Compare(n) \/ Reconcile(n) \/ Push(n) \/ Pull(n) \/ SyncEnd(n)
       \/ \E w \in Write : PutEntry(n, w)
       \/ DeleteAt(n) \/ CrashNode(n)
  \/ \E k \in Key : DeleteKey(k)

Spec == Init /\ [][Next]_vars

\* Tickers start rounds again and again and rounds go on: some node's, not
\* necessarily every node's.
Fairness == WF_vars(\E n \in Node : gossipRound(n) \/ Step(n))

FairSpec == Spec /\ Fairness

-----------------------------------------------------------------------------
\* Every place a gossip goroutine can be in; it never exchanges with its own node.
TypeOK ==
  /\ alive \subseteq Node
  /\ store \in [Node -> [Key -> Entry]]
  /\ ae \in [Node -> [pc : {"idle", "fetch", "compare", "key", "push", "pull"},
                      peers : SUBSET Node, peer : Node \cup {NoNode}, snap : [Key -> Entry],
                      tree : [Key -> Nat \cup {Absent}], todo : SUBSET Key, key : Key \cup {0}, entry : Entry]]
  /\ \A n \in Node : n \notin ae[n].peers \cup {ae[n].peer}
  /\ floor \in [Node -> [Key -> Entry]]
  /\ gone \subseteq Key

\* Diff finds every difference between two trees but one: a key with an empty
\* value here and no entry there hashes alike.
DiffExact ==
  \A n \in Node :
    LET t == ae[n].tree  u == treeOf(ae[n].snap) IN
    ae[n].pc = "compare" =>
      DiffOf[t, u] = {k \in Key : t[k] # u[k] /\ {t[k], u[k]} # {Absent, Empty}}

\* Gossip loses no write: a node that took a write of k while no exchange had
\* already looked at its entry holds from then on that write or a later one, until
\* k is deleted, although PutEntry and Put replace whatever is there by then.
NoRegress == \A n \in Node, k \in Key : store[n][k] >= floor[n][k]

\* There are no tombstones, and yet a key deleted while no round was under way
\* does not come back with a later round.
GoneStaysGone == \A k \in gone, n \in alive : store[n][k] = None

Agree == \A n, m \in alive, k \in Key :
  leafHash(k, value(store[n][k])) = leafHash(k, value(store[m][k]))

\* When clients have stopped, gossip brings all stores to the same values for
\* good (an absent key and an empty value are one to it).
Converges == <>[]Agree

=============================================================================

------------------------------ MODULE Kademlia ------------------------------
(***************************************************************************)
(* The Kademlia node of internal/kademlia: XOR metric, routing table,      *)
(* iterative lookups in rounds of Alpha parallel RPCs, join, bucket        *)
(* refresh, store, find with caching at the closest miss, republish and    *)
(* expiry.  An RPC runs its handler at the callee in one step (the         *)
(* in-process transport calls it directly); the rounds of different        *)
(* operations and the answers of one round interleave freely.              *)
(*                                                                         *)
(* A bucket never overflows here (BucketsFit), so its order, which only    *)
(* decides whom an overflow pings, does not matter and a table is the set  *)
(* of its contacts.  The ping of an overflow is not modelled.              *)
(***************************************************************************)
EXTENDS Integers, FiniteSets, FiniteSetsExt

CONSTANTS
  Bits,                           \* identifier width, 160 in the code
  Node,                           \* identifiers of the nodes that may exist
  First,                          \* the node that creates the network
  Key,                            \* identifiers of the keys stored
  K,                              \* bucket size and replication, Config.K
  Alpha,                          \* RPCs per round, Config.Alpha
  TTL,                            \* Config.ExpireTTL, in units of the clock
  Clients,                        \* nodes whose API is called
  CrashSet,                       \* nodes that may crash
  MaxTime, MaxStores, MaxFinds, MaxRepublish, MaxLosses   \* bounds

Id == 0 .. (2 ^ Bits - 1)
Index == 0 .. (Bits - 1)
Nil == -1                         \* no contact, no bucket

\* A store.ValueEntry: which StoreValue made it, and its Timestamp.
Entry == [id : 0 .. MaxStores, at : 0 .. MaxTime]
None == [id |-> 0, at |-> 0]      \* no entry

Bit(a, i) == (a \div (2 ^ i)) % 2

\* a XOR b, as the set of the bits that are set in it.
XORDistance(a, b) == {i \in Index : Bit(a, i) # Bit(b, i)}

\* Cmp(x, y) < 0: the highest bit in which the two differ is set in y.
Less(x, y) ==
  \E i \in y \ x : \A j \in Index : j > i => (j \in x <=> j \in y)

\* BitLen(a XOR b) - 1.
BucketIndex(self, contact) ==
  IF self = contact THEN Nil ELSE Max(XORDistance(self, contact))

ASSUME KademliaAssumption ==
  /\ Bits \in Nat \ {0} /\ K \in Nat \ {0} /\ Alpha \in Nat \ {0} /\ TTL \in Nat
  /\ Node \subseteq Id /\ Key \subseteq Id /\ First \in Node
  /\ Clients \subseteq Node /\ CrashSet \subseteq Node
  /\ MaxTime \in Nat /\ MaxStores \in Nat /\ MaxFinds \in Nat
  /\ MaxRepublish \in Nat /\ MaxLosses \in Nat

\* What a proof needs to know of powers of two.
ASSUME PowerAssumption ==
  2 ^ 0 = 1 /\ \A i \in 0 .. Bits : 2 ^ i \in Nat /\ 2 ^ (i + 1) = 2 * 2 ^ i

ASSUME BucketsFit ==
  \A n \in Node, i \in Index : Cardinality({m \in Node : BucketIndex(n, m) = i}) <= K

VARIABLES
  life,                           \* "off", "joining", "member" or "gone"
  known,                          \* node -> its routing table
  kv,                             \* node -> key -> entry
  th,                             \* goroutine -> the operation it runs
  now,                            \* the clock
  losses,                         \* RPCs lost so far
  stored, finds, republished,     \* operations started so far
  acked                           \* key -> newest entry whose StoreValue returned

vars == <<life, known, kv, th, now, losses, stored, finds, republished, acked>>

\* "api" runs Join, StoreValue and IterativeFindValue, "republish" and "refresh"
\* the two background loops (Join starts the first refresh itself).
Thread == Node \X {"api", "republish", "refresh"}

BucketOf == [a \in Id |-> [b \in Id |-> BucketIndex(a, b)]]

\* The identifiers closer to target than c is.
Closer ==
  [target \in Id |-> [c \in Id |->
     {d \in Id : Less(XORDistance(d, target), XORDistance(c, target))}]]

\* The k members of S closest to target.
KClosest(S, target, k) == {c \in S : Cardinality(S \cap Closer[target][c]) < k}

Nearest(S, target) == CHOOSE c \in S : S \cap Closer[target][c] = {}

Registered == {n \in Node : life[n] \in {"joining", "member"}}
Members == {n \in Node : life[n] = "member"}
IsExpired(e) == now - e.at > TTL

\* KVStore.Get: an expired entry is absent.
Get(n, k) == IF kv[n][k] # None /\ IsExpired(kv[n][k]) THEN None ELSE kv[n][k]

\* n's table after updateRoutingTable has seen every contact of cs.
updateRoutingTable(table, n, cs) == [table EXCEPT ![n] = @ \cup (cs \ {n})]

-----------------------------------------------------------------------------
(* An operation.  "round": RPCs to wait are out, answers collect in learnt,  *)
(* entry and miss.  "put": todo contacts are still to be sent the entry.     *)
(* "cache": the found entry goes to miss.  "next": a loop between two        *)
(* searches.  "done": about to return.  list is what a loop has left.        *)

Idle == [kind |-> "idle", step |-> "idle", target |-> 0, pn |-> {}, queried |-> {},
         closest |-> Nil, wait |-> {}, learnt |-> {}, final |-> FALSE, entry |-> None,
         miss |-> Nil, todo |-> {}, list |-> {}, want |-> None, clean |-> FALSE]

\* History: every node that exists has joined and refreshed, and no RPC was lost.
Settled ==
  /\ \A n \in Node : life[n] # "joining"
  /\ \A n \in Node : th[<<n, "refresh">>].kind = "idle"
  /\ losses = 0

Unsettle(threads) == [t \in Thread |-> [threads[t] EXCEPT !.clean = FALSE]]

\* iterativeSearch up to its first round: seeds from the own table, the first
\* batch of Alpha.
Search(n, kind, target, entry) ==
  LET seeds == KClosest(known[n], target, K)
      batch == KClosest(seeds, target, Alpha)
  IN  [Idle EXCEPT !.kind = kind, !.step = "round", !.target = target, !.pn = seeds,
                   !.queried = {n} \cup batch, !.wait = batch, !.entry = entry,
                   !.closest = IF seeds = {} THEN Nil ELSE Nearest(seeds, target),
                   !.clean = Settled]

\* Mutants: a merge that may bring the searcher itself in; one that drops the
\* contacts there were.
MergedSelf(s, n) == KClosest(s.pn \cup s.learnt, s.target, K)
MergedLearnt(s, n) == KClosest(s.learnt \ {n}, s.target, K)

\* Pn once mergeContacts has added what the round taught.
Merged(s, n) == KClosest(s.pn \cup (s.learnt \ {n}), s.target, K)

\* The batch of the next round: the Alpha closest not yet queried; once the
\* closest contact did not change all the others, as the final round; then none.
NextBatch(s, pn) ==
  IF s.final \/ pn = {} THEN {}
  ELSE IF Nearest(pn, s.target) = s.closest THEN pn \ s.queried
  ELSE KClosest(pn \ s.queried, s.target, Alpha)

\* IterativeFindValue drops out of the search at the first entry.
Hit(s) == s.kind = "find" /\ s.entry # None

RoundOver(t) == th[t].step = "round" /\ th[t].wait = {} /\ ~Hit(th[t])

-----------------------------------------------------------------------------
(* Handlers.  Each first records the sender in the callee's table.           *)

\* Mutant: the first K of the table, unsorted.
ClosestUnsorted(c, n, target) ==
  LET S == known[c] \cup {n} IN {x \in S : Cardinality({y \in S : y < x}) < K}

\* HandleFindNode, and HandleFindValue when the value is not here.
Closest(c, n, target) == KClosest(known[c] \cup {n}, target, K)

\* FindNode or FindValue reaches c, which answers.  The result joins the round in
\* the order of arrival: after a first entry nothing else is looked at.
Answer(t, c) ==
  LET s == th[t]  n == t[1]
      e == IF s.kind = "find" THEN Get(c, s.target) ELSE None
      got == [s EXCEPT !.wait = @ \ {c}]
  IN  /\ s.step = "round" /\ c \in s.wait /\ c \in Registered
      /\ known' = updateRoutingTable(known, c, {n})
      /\ th' = [th EXCEPT ![t] =
           IF Hit(s) THEN got
           ELSE IF e # None THEN [got EXCEPT !.entry = e]
           ELSE [got EXCEPT !.learnt = @ \cup Closest(c, n, s.target),
                            !.miss = IF s.kind # "find" THEN Nil
                                     ELSE IF @ = Nil THEN c ELSE Nearest({@, c}, s.target)]]
      /\ UNCHANGED <<life, kv, now, losses, stored, finds, republished, acked>>

\* The callee is gone.
NoAnswer(t, c) ==
  /\ th[t].step = "round" /\ c \in th[t].wait \ Registered
  /\ th' = [th EXCEPT ![t].wait = @ \ {c}]
  /\ UNCHANGED <<life, known, kv, now, losses, stored, finds, republished, acked>>

\* The call is lost (lossRate).
LoseCall(t, c) ==
  /\ losses < MaxLosses
  /\ losses' = losses + 1
  /\ \/ /\ th[t].step = "round" /\ c \in th[t].wait
        /\ th' = Unsettle([th EXCEPT ![t].wait = @ \ {c}])
     \/ /\ th[t].step = "put" /\ th[t].todo # {} /\ c = Nearest(th[t].todo, th[t].target)
        /\ th' = Unsettle([th EXCEPT ![t].todo = @ \ {c}])
  /\ UNCHANGED <<life, known, kv, now, stored, finds, republished, acked>>

\* Mutant: the callee stamps the entry with its own time.
KStoreRestamped(c, n, k, e) ==
  IF c \in Registered
  THEN /\ known' = updateRoutingTable(known, c, {n})
       /\ kv' = [kv EXCEPT ![c][k] = [e EXCEPT !.at = now]]
  ELSE UNCHANGED <<known, kv>>

\* HandleKStore at c: the entry replaces whatever c holds.
KStore(c, n, k, e) ==
  IF c \in Registered
  THEN /\ known' = updateRoutingTable(known, c, {n})
       /\ kv' = [kv EXCEPT ![c][k] = e]
  ELSE UNCHANGED <<known, kv>>

-----------------------------------------------------------------------------
(* iterativeSearch                                                           *)

\* The round is over and another one follows.
RoundAgain(t) ==
  LET s == th[t]  n == t[1]
      pn == Merged(s, n)
      batch == NextBatch(s, pn)
  IN  /\ RoundOver(t)
      /\ batch # {}
      /\ known' = updateRoutingTable(known, n, s.learnt)
      /\ th' = [th EXCEPT ![t] =
           [s EXCEPT !.pn = pn, !.queried = @ \cup batch, !.wait = batch, !.learnt = {},
                     !.closest = Nearest(pn, s.target),
                     !.final = (Nearest(pn, s.target) = s.closest)]]
      /\ UNCHANGED <<life, kv, now, losses, stored, finds, republished, acked>>

\* Mutants: an error of the lookup taken for success, nothing is sent; the refresh
\* goes back to its first bucket after every search.
FoundLocal(s) ==
  CASE s.kind \in {"store", "republish"} -> [s EXCEPT !.step = "put"]
    [] s.kind = "refresh" -> [s EXCEPT !.step = "next"]
    [] OTHER -> [s EXCEPT !.step = "done"]

FoundFromStart(s) ==
  CASE s.kind \in {"store", "republish"} -> [s EXCEPT !.step = "put", !.todo = s.pn]
    [] s.kind = "refresh" -> [s EXCEPT !.step = "next", !.list = Index]
    [] OTHER -> [s EXCEPT !.step = "done"]

\* The search has ended with s.pn; what its caller does next.
Found(s) ==
  CASE s.kind \in {"store", "republish"} -> [s EXCEPT !.step = "put", !.todo = s.pn]
    [] s.kind = "refresh" -> [s EXCEPT !.step = "next"]
    [] OTHER -> [s EXCEPT !.step = "done"]

\* The last round is over.
RoundLast(t) ==
  LET s == th[t]  n == t[1]
      pn == Merged(s, n)
  IN  /\ RoundOver(t)
      /\ NextBatch(s, pn) = {}
      /\ known' = updateRoutingTable(known, n, s.learnt)
      /\ th' = [th EXCEPT ![t] = Found([s EXCEPT !.pn = pn, !.learnt = {}])]
      /\ UNCHANGED <<life, kv, now, losses, stored, finds, republished, acked>>

\* A value was found: the round's other answers are dropped, and the entry is
\* cached at the closest node that answered before without it.
FindHit(t) ==
  LET s == th[t] IN
  /\ s.step = "round" /\ s.wait = {} /\ Hit(s)
  /\ IF s.miss = Nil THEN UNCHANGED <<known, kv>> ELSE KStore(s.miss, t[1], s.target, s.entry)
  /\ th' = [th EXCEPT ![t] = [s EXCEPT !.step = "done", !.learnt = {}]]
  /\ UNCHANGED <<life, now, losses, stored, finds, republished, acked>>

-----------------------------------------------------------------------------
(* Operations                                                                *)

\* spawnKadNode: registered with the transport, then Join: the bootstrap goes
\* into the table and the node looks itself up.
Join(n, b) ==
  LET t == <<n, "api">> IN
  /\ life[n] = "off" /\ b \in Members
  /\ life' = [life EXCEPT ![n] = "joining"]
  /\ known' = updateRoutingTable(known, n, {b})
  /\ th' = [Unsettle(th) EXCEPT ![t] =
       [Idle EXCEPT !.kind = "join", !.step = "round", !.target = n, !.pn = {b},
                    !.queried = {n, b}, !.wait = {b}, !.closest = b]]
  /\ UNCHANGED <<kv, now, losses, stored, finds, republished, acked>>

\* Join returns and leaves a goroutine that refreshes the empty buckets.
JoinReturn(n) ==
  /\ th[<<n, "api">>].kind = "join" /\ th[<<n, "api">>].step = "done"
  /\ life' = [life EXCEPT ![n] = "member"]
  /\ th' = [th EXCEPT ![<<n, "api">>] = Idle,
                      ![<<n, "refresh">>] = [Idle EXCEPT !.kind = "refresh", !.step = "next",
                                                         !.list = Index]]
  /\ UNCHANGED <<known, kv, now, losses, stored, finds, republished, acked>>

EmptyBuckets(n, is) == {i \in is : \A m \in known[n] : BucketOf[n][m] # i}

\* refreshBuckets: the next empty bucket is searched for an identifier in it, the
\* own one with that bit flipped.
RefreshNext(n) ==
  LET t == <<n, "refresh">>
      left == EmptyBuckets(n, th[t].list)
      i == CHOOSE j \in left : \A k \in left : j <= k
      id == CHOOSE m \in Id : XORDistance(n, m) = {i}
  IN  /\ th[t].kind = "refresh" /\ th[t].step = "next"
      /\ th' = [th EXCEPT ![t] =
           IF left = {} THEN Idle
           ELSE [Search(n, "refresh", id, None) EXCEPT !.list = {j \in th[t].list : j > i}]]
      /\ UNCHANGED <<life, known, kv, now, losses, stored, finds, republished, acked>>

\* StoreValue: into the own store, then to the K closest nodes found.
StoreValue(n, k) ==
  LET t == <<n, "api">>
      e == [id |-> stored + 1, at |-> now]
  IN  /\ n \in Clients \cap Members /\ th[t].kind = "idle" /\ stored < MaxStores
      /\ stored' = stored + 1
      /\ kv' = [kv EXCEPT ![n][k] = e]
      /\ th' = [th EXCEPT ![t] = Search(n, "store", k, e)]
      /\ UNCHANGED <<life, known, now, losses, finds, republished, acked>>

\* The next contact is sent the entry; failures are ignored.
Put(t) ==
  LET s == th[t]  c == Nearest(s.todo, s.target) IN
  /\ s.step = "put" /\ s.todo # {}
  /\ KStore(c, t[1], s.target, s.entry)
  /\ th' = [th EXCEPT ![t].todo = @ \ {c}]
  /\ UNCHANGED <<life, now, losses, stored, finds, republished, acked>>

StoreReturn(t) ==
  LET s == th[t] IN
  /\ s.kind = "store" /\ s.step = "put" /\ s.todo = {}
  /\ acked' = [acked EXCEPT ![s.target] = IF s.entry.id > @.id THEN s.entry ELSE @]
  /\ th' = [th EXCEPT ![t] = Idle]
  /\ UNCHANGED <<life, known, kv, now, losses, stored, finds, republished>>

\* IterativeFindValue: the own store first, then the network.
FindValue(n, k) ==
  LET t == <<n, "api">>
      s == [Search(n, "find", k, None) EXCEPT !.want = acked[k]]
  IN  /\ n \in Clients \cap Members /\ th[t].kind = "idle" /\ finds < MaxFinds
      /\ finds' = finds + 1
      /\ th' = [th EXCEPT ![t] =
           IF Get(n, k) # None THEN [s EXCEPT !.step = "done", !.wait = {}, !.entry = Get(n, k)]
           ELSE s]
      /\ UNCHANGED <<life, known, kv, now, losses, stored, republished, acked>>

FindReturn(t) ==
  /\ th[t].kind = "find" /\ th[t].step = "done"
  /\ th' = [th EXCEPT ![t] = Idle]
  /\ UNCHANGED <<life, known, kv, now, losses, stored, finds, republished, acked>>

\* republishKeys: a snapshot of the unexpired entries, each sent as it is to the
\* K closest nodes.
Republish(n) ==
  LET t == <<n, "republish">>
      all == {<<k, Get(n, k)>> : k \in {j \in Key : Get(n, j) # None}}
  IN  /\ n \in Members /\ th[t].kind = "idle" /\ republished < MaxRepublish /\ all # {}
      /\ republished' = republished + 1
      /\ th' = [th EXCEPT ![t] = [Idle EXCEPT !.kind = "republish", !.step = "next", !.list = all]]
      /\ UNCHANGED <<life, known, kv, now, losses, stored, finds, acked>>

RepublishNext(t) ==
  LET s == th[t] IN
  /\ s.kind = "republish"
  /\ s.step = "next" \/ (s.step = "put" /\ s.todo = {})
  /\ \/ \E x \in s.list :
          th' = [th EXCEPT ![t] = [Search(t[1], "republish", x[1], x[2]) EXCEPT
                                     !.list = s.list \ {x}]]
     \/ s.list = {} /\ th' = [th EXCEPT ![t] = Idle]
  /\ UNCHANGED <<life, known, kv, now, losses, stored, finds, republished, acked>>

\* evictExpired, the ticker of StartTTLEviction.
Evict(n) ==
  /\ n \in Members
  /\ \E k \in Key : kv[n][k] # Get(n, k)
  /\ kv' = [kv EXCEPT ![n] = [k \in Key |-> Get(n, k)]]
  /\ UNCHANGED <<life, known, th, now, losses, stored, finds, republished, acked>>

\* CrashNode: deregistered and stopped.  What the node was doing goes on, as the
\* in-process transport does not look at the cancelled context.
Crash(n) ==
  /\ n \in CrashSet \cap Members
  /\ life' = [life EXCEPT ![n] = "gone"]
  /\ UNCHANGED <<th, known, kv, now, losses, stored, finds, republished, acked>>

Tick ==
  /\ now < MaxTime
  /\ now' = now + 1
  /\ UNCHANGED <<life, known, kv, th, losses, stored, finds, republished, acked>>

-----------------------------------------------------------------------------
Init ==
  /\ life = [n \in Node |-> IF n = First THEN "member" ELSE "off"]
  /\ known = [n \in Node |-> {}]
  /\ kv = [n \in Node |-> [k \in Key |-> None]]
  /\ th = [t \in Thread |-> Idle]
  /\ now = 0 /\ losses = 0 /\ stored = 0 /\ finds = 0 /\ republished = 0
  /\ acked = [k \in Key |-> None]

Step(t) ==
  \/ \E c \in Node : Answer(t, c) \/ NoAnswer(t, c)
  \/ RoundAgain(t) \/ RoundLast(t) \/ FindHit(t)
  \/ Put(t) \/ StoreReturn(t) \/ FindReturn(t) \/ RepublishNext(t)
  \/ JoinReturn(t[1]) \/ RefreshNext(t[1])

Next ==
  \/ \E t \in Thread :
       \/ \E c \in Node : Answer(t, c) \/ NoAnswer(t, c) \/ LoseCall(t, c)
       \/ RoundAgain(t) \/ RoundLast(t) \/ FindHit(t)
       \/ Put(t) \/ StoreReturn(t) \/ FindReturn(t) \/ RepublishNext(t)
  \/ \E n \in Node :
       \/ \E b \in Node : Join(n, b)
       \/ JoinReturn(n) \/ RefreshNext(n) \/ Republish(n) \/ Evict(n) \/ Crash(n)
       \/ \E k \in Key : StoreValue(n, k) \/ FindValue(n, k)
  \/ Tick

Spec == Init /\ [][Next]_vars

\* Some goroutine that can take a step takes one: the Go scheduler runs on.
Fairness == WF_vars(\E t \in Thread : Step(t))

FairSpec == Spec /\ Fairness

-----------------------------------------------------------------------------
\* A search holds at most K contacts, never the searcher itself, and waits only
\* for contacts it has asked (iterativeSearch, mergeContacts).
TypeOK ==
  /\ life \in [Node -> {"off", "joining", "member", "gone"}]
  /\ known \in [Node -> SUBSET Node]
  /\ kv \in [Node -> [Key -> Entry]]
  /\ acked \in [Key -> Entry]
  /\ \A t \in Thread :
       /\ th[t].pn \subseteq Node \ {t[1]} /\ Cardinality(th[t].pn) <= K
       /\ th[t].wait \subseteq th[t].queried /\ th[t].wait \subseteq Node \ {t[1]}
       /\ th[t].miss \in Node \cup {Nil} /\ th[t].entry \in Entry

\* iterativeSearch is exact in a settled network: the contacts that StoreValue
\* and republishKeys send to, and those a failed IterativeFindValue has asked,
\* are the K closest of all nodes, though no node knows all the others and the
\* search stops after the first round that finds nobody closer.
LookupExact ==
  \A t \in Thread :
    LET s == th[t] IN
    (/\ s.clean /\ \A n \in Node : life[n] # "gone"
     /\ \/ s.kind \in {"store", "republish"} /\ s.step = "put"
        \/ s.kind = "find" /\ s.step = "done" /\ s.entry = None)
      => s.pn = KClosest(Registered \ {t[1]}, s.target, K)

\* A stored value is found: once StoreValue has returned, IterativeFindValue at
\* any node that begins in a settled network returns a value until it expires,
\* although fewer than K nodes crash in between, nodes have joined closer to the
\* key than the holders, and republishKeys and caching overwrite entries.
FindSeesStore ==
  \A t \in Thread :
    LET s == th[t] IN
    s.kind = "find" /\ s.step = "done" /\ s.clean /\ s.want # None /\ ~IsExpired(s.want)
     /\ Cardinality({n \in Node : life[n] = "gone"}) < K
      => s.entry # None

\* Copies of one stored value agree wherever they are: republishKeys, caching and
\* the puts of StoreValue never move an entry to another key nor renew its time,
\* so that it expires everywhere TTL after its StoreValue.
CopiesAgree ==
  \A n, m \in Node, j, k \in Key :
    kv[n][j].id # 0 /\ kv[n][j].id = kv[m][k].id => j = k /\ kv[n][j] = kv[m][k]

\* A further round of a search asks nobody it has asked before; the closest
\* contact has come nearer to the target, or has not changed and this is the
\* final round: why iterativeSearch ends.
SearchNears ==
  [][\A t \in Thread :
       LET s == th[t]  r == th'[t] IN
       s.step = "round" /\ s.wait = {} /\ r.step = "round" /\ r.wait # {}
         => /\ ~s.final /\ r.wait \cap s.queried = {}
            /\ IF r.final THEN r.closest = s.closest
                          ELSE r.closest \in Closer[s.target][s.closest]]_vars

\* Every Join, StoreValue, IterativeFindValue, refresh and republish comes to
\* its end: a search asks no contact twice and has one final round.
OpsEnd == []<>(\A t \in Thread : th[t].kind = "idle")

=============================================================================

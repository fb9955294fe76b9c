------------------------------- MODULE Chord --------------------------------
(***************************************************************************)
(* A Chord ring as internal/chord runs it: every node keeps a successor, a *)
(* predecessor, a finger and an anti-finger table and a successor list,    *)
(* and has up to four threads of control that interleave with everyone     *)
(* else's:                                                                 *)
(*   main  Join (run by the spawner), then the loop of runStabilize;       *)
(*   cp    the loop of runCheckPredecessor;                                *)
(*   cs    the loop of runCheckSuccessor;                                  *)
(*   ctl   KillNode / CrashNode, which run Leave / SimulateCrash.          *)
(* A step is what happens between two acquisitions of a node's mutex or    *)
(* two RPCs.  An RPC reads or writes the target in the caller's step; it   *)
(* fails if the target is not in the transport's registry, and may fail    *)
(* otherwise (simulated loss, partition, timeout) MaxLosses times in all.  *)
(*                                                                         *)
(* A node is its identifier (addresses hash to distinct identifiers) and   *)
(* is spawned at most once.  A store is the set of keys it holds; what     *)
(* overwriting a value does is the subject of module QuorumManager.       *)
(***************************************************************************)
EXTENDS Ring, Sequences

CONSTANTS
  Nodes,               \* the nodes that may take part, a subset of ID
  First,               \* the node that founded the ring
  Keys,                \* identifiers of the keys clients store
  SuccessorListSize,   \* Config.SuccessorListSize
  CrashSet,            \* bound: nodes CrashNode may be called for
  KillSet,             \* bound: nodes KillNode may be called for
  MaxTicks,            \* bound: firings of a node's fix-fingers ticker
  MaxLosses,           \* bound: RPCs to a registered node that fail
  PutSet               \* bound: nodes clients write to

ASSUME ChordAssumption ==
  /\ Nodes \subseteq ID
  /\ First \in Nodes
  /\ Keys \subseteq ID
  /\ SuccessorListSize \in Nat \ {0}
  /\ CrashSet \subseteq Nodes
  /\ KillSet \subseteq Nodes
  /\ MaxTicks \in Nat
  /\ MaxLosses \in Nat
  /\ PutSet \subseteq Nodes

Nil == -1                          \* a nil *NodeRef
Refs == Nodes \cup {Nil}

VARIABLES
  life,         \* off, joining, member, leaving, gone (stopped), refused
  boot,         \* the bootstrap node a joiner was given
  succ, pred,   \* ChordNode.successor, ChordNode.predecessor
  finger, anti, \* ChordNode.fingers, ChordNode.antiFingers
  fingerIdx,    \* fingerIdx of runStabilize
  antiIdx,      \* ChordNode.antiFingerIdx
  succList,     \* ChordNode.succList
  store,        \* keys in ChordNode.Store
  ticks,        \* fix-fingers ticks so far
  losses,       \* RPCs lost so far
  th,           \* program counter and locals of each thread
  lst,          \* the thread's copy of a successor list
  puts,         \* clients' writes that have found their handler: <<node, key>>
  late          \* history: the entries a write left at a node that had handed over its own

client == <<puts, late>>
vars == <<life, boot, succ, pred, finger, anti, fingerIdx, antiIdx, succList,
          store, ticks, losses, th, lst, client>>

Roles == {"main", "cp", "cs", "ctl"}
Threads == Nodes \X Roles

LookupPCs == {"joinSucc", "initFinger", "initAnti", "others", "fixFinger", "fixAnti"}
PCs == LookupPCs \cup
       {"idle", "fingerNext", "fingerCopy", "antiPred", "antiStore", "update",
        "migrate", "pull",
        "stabRead", "stabAlone", "stabAsk", "stabAdopt", "stabNotify", "stabList",
        "stabStore", "ping", "csPing", "csWalk", "csTake",
        "leaveRead", "leaveTransfer", "leaveSucc", "leavePred", "stop"}

\* The progress of a FindSuccessor call: about to read the successor of node
\* at, about to route past at, answered with sv, or failed.
Stages == {"run", "read", "route", "found", "failed"}

Record == [pc : PCs, st : Stages, at : Refs, sv : Refs, ix : 0 .. Bits]

Frame(p, a, v, i) == [pc |-> p, st |-> "run", at |-> a, sv |-> v, ix |-> i]
Call(p, host, i) == [pc |-> p, st |-> "read", at |-> host, sv |-> Nil, ix |-> i]
Idle == Frame("idle", Nil, Nil, 0)

Become(t, r) == th' = [th EXCEPT ![t] = r]

Main(n) == <<n, "main">>

Registered == {n \in Nodes : life[n] \in {"joining", "member"}}
Members == {n \in Nodes : life[n] = "member"}

\* An RPC to m succeeds (ok) or fails; only a registered node can answer.
Rpc(m, ok) ==
  /\ ok => m \in Registered
  /\ ~ok /\ m \in Registered => losses < MaxLosses
  /\ losses' = IF ~ok /\ m \in Registered THEN losses + 1 ELSE losses

\* Between Start and Stop: the background loops take a new iteration.
Running(n) == life[n] \in {"member", "leaving"}

-----------------------------------------------------------------------------
Init ==
  /\ life = [n \in Nodes |-> IF n = First THEN "member" ELSE "off"]
  /\ boot = [n \in Nodes |-> Nil]
  /\ succ = [n \in Nodes |-> n]
  /\ pred = [n \in Nodes |-> Nil]
  /\ finger = [n \in Nodes |-> [i \in Index |-> IF n = First THEN n ELSE Nil]]
  /\ anti = [n \in Nodes |-> [i \in Index |-> Nil]]
  /\ fingerIdx = [n \in Nodes |-> 1]
  /\ antiIdx = [n \in Nodes |-> 0]
  /\ succList = [n \in Nodes |-> <<>>]
  /\ store = [n \in Nodes |-> {}]
  /\ ticks = [n \in Nodes |-> 0]
  /\ losses = 0
  /\ th = [t \in Threads |-> Idle]
  /\ lst = [t \in Threads |-> <<>>]
  /\ puts = {} /\ late = {}

-----------------------------------------------------------------------------
(* FindSuccessor, one frame of the recursion at a time.                    *)

LookupID(t) ==
  CASE th[t].pc = "joinSucc" -> t[1]
    [] th[t].pc \in {"initFinger", "fixFinger"} -> fingerStart(t[1], th[t].ix)
    [] OTHER -> antiFingerStart(t[1], th[t].ix)

\* Seeded fault: the highest finger taken, wherever it lies.
ClosestPrecedingAny(n, id) ==
  LET Fwd == {i \in Index : finger[n][i] \notin {Nil, n}}
  IN  IF Fwd # {} THEN finger[n][Max(Fwd)] ELSE n

\* The highest finger in (n, id); an anti-finger only when the key lies behind
\* n and only if it is nearer to id; n itself when no entry qualifies.
ClosestPrecedingNode(n, id) ==
  LET Fwd == {i \in Index : finger[n][i] # Nil /\ IsInInterval(finger[n][i], n, id)}
      Bwd == {i \in Index : /\ pred[n] # Nil
                            /\ IsInInterval(id, pred[n], n)
                            /\ anti[n][i] # Nil
                            /\ IsInInterval(anti[n][i], n, id)}
      f == finger[n][Max(Fwd)]
      a == anti[n][Max(Bwd)]
  IN  IF Fwd = {} THEN IF Bwd = {} THEN n ELSE a
      ELSE IF Bwd # {} /\ IsInInterval(f, n, a) THEN a ELSE f

\* A lookup that begins at the thread's own node reads its successor directly;
\* every other frame is an RPC, those through the bootstrap node from the first.
Local(t) == th[t].pc \in {"others", "fixFinger", "fixAnti"} /\ th[t].at = t[1]

FindRead(t) ==
  /\ th[t].st = "read"
  /\ IF Local(t) THEN UNCHANGED losses ELSE Rpc(th[t].at, TRUE)
  /\ LET s == succ[th[t].at]
     IN  Become(t, [th[t] EXCEPT !.sv = s,
                                 !.st = IF IsInIntervalRightClosed(LookupID(t), th[t].at, s)
                                        THEN "found" ELSE "route"])
  /\ UNCHANGED <<life, boot, succ, pred, finger, anti, fingerIdx, antiIdx, succList,
                 store, ticks, lst>>

\* Seeded fault: a node that knows nobody nearer forwards to itself.
FindRouteSelf(t) ==
  /\ th[t].st = "route"
  /\ Become(t, [th[t] EXCEPT !.st = "read", !.sv = Nil,
                             !.at = ClosestPrecedingNode(@, LookupID(t))])
  /\ UNCHANGED <<life, boot, succ, pred, finger, anti, fingerIdx, antiIdx, succList,
                 store, ticks, losses, lst>>

FindRoute(t) ==
  /\ th[t].st = "route"
  /\ LET c == ClosestPrecedingNode(th[t].at, LookupID(t))
     IN  Become(t, IF c = th[t].at THEN [th[t] EXCEPT !.st = "found"]
                   ELSE [th[t] EXCEPT !.st = "read", !.at = c, !.sv = Nil])
  /\ UNCHANGED <<life, boot, succ, pred, finger, anti, fingerIdx, antiIdx, succList,
                 store, ticks, losses, lst>>

FindFail(t) ==
  /\ th[t].st = "read"
  /\ ~Local(t)
  /\ Rpc(th[t].at, FALSE)
  /\ Become(t, [th[t] EXCEPT !.st = "failed"])
  /\ UNCHANGED <<life, boot, succ, pred, finger, anti, fingerIdx, antiIdx, succList,
                 store, ticks, lst>>

\* The lookup of thread t for purpose p has ended with stage s.
Ended(t, p, s) == th[t].pc = p /\ th[t].st = s

-----------------------------------------------------------------------------
(* Join.                                                                   *)

\* A node spawned while the network has no member founds a new ring.
CreateRing(n) ==
  /\ life[n] = "off"
  /\ Members = {}
  /\ life' = [life EXCEPT ![n] = "member"]
  /\ succ' = [succ EXCEPT ![n] = n]
  /\ pred' = [pred EXCEPT ![n] = Nil]
  /\ finger' = [finger EXCEPT ![n] = [i \in Index |-> n]]
  /\ UNCHANGED <<boot, anti, fingerIdx, antiIdx, succList, store, ticks, losses, th,
                 lst, client>>

\* SpawnNode registers the node, then joins it through any current member.
Spawn(n) ==
  /\ life[n] = "off"
  /\ \E b \in Members :
       /\ boot' = [boot EXCEPT ![n] = b]
       /\ Become(Main(n), Call("joinSucc", b, 0))
  /\ life' = [life EXCEPT ![n] = "joining"]
  /\ UNCHANGED <<succ, pred, finger, anti, fingerIdx, antiIdx, succList, store, ticks,
                 losses, lst, client>>

JoinFound(n) ==
  LET t == Main(n) IN
  /\ Ended(t, "joinSucc", "found")
  /\ succ' = [succ EXCEPT ![n] = th[t].sv]
  /\ finger' = [finger EXCEPT ![n][0] = th[t].sv]
  /\ pred' = [pred EXCEPT ![n] = Nil]
  /\ Become(t, Call("initFinger", boot[n], 0))
  /\ UNCHANGED <<life, boot, anti, fingerIdx, antiIdx, succList, store, ticks, losses,
                 lst>>

\* Join returns the error; the spawner takes the node out of the registry.
JoinFailed(n) ==
  LET t == Main(n) IN
  /\ Ended(t, "joinSucc", "failed")
  /\ life' = [life EXCEPT ![n] = "refused"]
  /\ Become(t, Idle)
  /\ UNCHANGED <<boot, succ, pred, finger, anti, fingerIdx, antiIdx, succList, store,
                 ticks, losses, lst>>

\* The rest of initFingerTable after entry i, and what Join does after it.
AfterFinger(n, i) ==
  IF i + 1 < Bits THEN Frame("fingerNext", Nil, Nil, i + 1)
                  ELSE Call("initAnti", boot[n], 0)

InitFingerFound(n) ==
  LET t == Main(n)
      i == th[t].ix
  IN
  /\ Ended(t, "initFinger", "found")
  /\ finger' = [finger EXCEPT ![n][i] = th[t].sv]
  /\ succ' = IF i = 0 THEN [succ EXCEPT ![n] = th[t].sv] ELSE succ
  /\ Become(t, AfterFinger(n, i))
  /\ UNCHANGED <<life, boot, pred, anti, fingerIdx, antiIdx, succList, store, ticks,
                 losses, lst>>

\* Seeded fault: the bootstrap node asked again until it answers.
InitFingerRetry(n) ==
  LET t == Main(n) IN
  /\ Ended(t, "initFinger", "failed")
  /\ Become(t, Call("initFinger", boot[n], th[t].ix))
  /\ UNCHANGED <<life, boot, succ, pred, finger, anti, fingerIdx, antiIdx, succList,
                 store, ticks, losses, lst>>

\* An error on entry 0 ends initFingerTable, on a later one only that entry.
InitFingerFailed(n) ==
  LET t == Main(n)
      i == th[t].ix
  IN
  /\ Ended(t, "initFinger", "failed")
  /\ Become(t, IF i = 0 THEN Call("initAnti", boot[n], 0) ELSE AfterFinger(n, i))
  /\ UNCHANGED <<life, boot, succ, pred, finger, anti, fingerIdx, antiIdx, succList,
                 store, ticks, losses, lst>>

\* Entry i is entry i-1 again if that covers its start, else a new lookup.
InitFingerNext(n) ==
  LET t == Main(n)
      i == th[t].ix
      prev == finger[n][i - 1]
  IN
  /\ th[t].pc = "fingerNext"
  /\ Become(t, IF prev # Nil /\ IsInIntervalRightClosed(fingerStart(n, i), n, prev)
               THEN Frame("fingerCopy", Nil, prev, i) ELSE Call("initFinger", boot[n], i))
  /\ UNCHANGED <<life, boot, succ, pred, finger, anti, fingerIdx, antiIdx, succList,
                 store, ticks, losses, lst>>

InitFingerCopy(n) ==
  LET t == Main(n) IN
  /\ th[t].pc = "fingerCopy"
  /\ finger' = [finger EXCEPT ![n][th[t].ix] = th[t].sv]
  /\ Become(t, AfterFinger(n, th[t].ix))
  /\ UNCHANGED <<life, boot, succ, pred, anti, fingerIdx, antiIdx, succList, store,
                 ticks, losses, lst>>

\* The next entry of updateOthers, or the end of its loop.
OthersFrom(n, i) == IF i < Bits THEN Call("others", n, i) ELSE Frame("migrate", Nil, Nil, 0)
AfterAnti(n, i) == IF i + 1 < Bits THEN Call("initAnti", boot[n], i + 1) ELSE OthersFrom(n, 0)

\* Both initAntiFingerTable and fixAntiFingers ask the node found for its
\* predecessor next; an error there or on the lookup is not fatal.
AntiFound(n) ==
  LET t == Main(n) IN
  /\ Ended(t, "initAnti", "found") \/ Ended(t, "fixAnti", "found")
  /\ Become(t, Frame("antiPred", Nil, th[t].sv, th[t].ix))
  /\ UNCHANGED <<life, boot, succ, pred, finger, anti, fingerIdx, antiIdx, succList,
                 store, ticks, losses, lst>>

AntiFailed(n) ==
  LET t == Main(n) IN
  /\ Ended(t, "initAnti", "failed") \/ Ended(t, "fixAnti", "failed")
  /\ Become(t, IF th[t].pc = "initAnti" THEN AfterAnti(n, th[t].ix) ELSE Idle)
  /\ UNCHANGED <<life, boot, succ, pred, finger, anti, fingerIdx, antiIdx, succList,
                 store, ticks, losses, lst>>

AntiAsk(n) ==
  LET t == Main(n)
      s == th[t].sv
  IN
  /\ th[t].pc = "antiPred"
  /\ \E ok \in BOOLEAN :
       /\ Rpc(s, ok)
       /\ Become(t, Frame("antiStore", Nil, IF ok /\ pred[s] # Nil THEN pred[s] ELSE s,
                          th[t].ix))
  /\ UNCHANGED <<life, boot, succ, pred, finger, anti, fingerIdx, antiIdx, succList,
                 store, ticks, lst>>

AntiStore(n) ==
  LET t == Main(n) IN
  /\ th[t].pc = "antiStore"
  /\ anti' = [anti EXCEPT ![n][th[t].ix] = th[t].sv]
  /\ Become(t, IF life[n] = "joining" THEN AfterAnti(n, th[t].ix) ELSE Idle)
  /\ UNCHANGED <<life, boot, succ, pred, finger, fingerIdx, antiIdx, succList, store,
                 ticks, losses, lst>>

\* updateOthers: the node found is told to update its entry, unless it is n.
OthersFound(n) ==
  LET t == Main(n)
      i == th[t].ix
  IN
  /\ Ended(t, "others", "found")
  /\ Become(t, IF th[t].sv = n THEN OthersFrom(n, i + 1)
               ELSE Frame("update", th[t].sv, Nil, i))
  /\ UNCHANGED <<life, boot, succ, pred, finger, anti, fingerIdx, antiIdx, succList,
                 store, ticks, losses, lst>>

OthersFailed(n) ==
  LET t == Main(n) IN
  /\ Ended(t, "others", "failed")
  /\ Become(t, OthersFrom(n, th[t].ix + 1))
  /\ UNCHANGED <<life, boot, succ, pred, finger, anti, fingerIdx, antiIdx, succList,
                 store, ticks, losses, lst>>

\* Seeded fault: any other node taken.
ShouldUpdateUnequal(p, s, i) == finger[p][i] # s

\* p takes s for its i-th finger if it has none or s lies before it.
ShouldUpdate(p, s, i) == finger[p][i] = Nil \/ IsInInterval(s, p, finger[p][i])

\* UpdateFingerTable at node p: on an update p forwards to its predecessor.
UpdateFingerTable(n) ==
  LET t == Main(n)
      p == th[t].at
      i == th[t].ix
      q == pred[p]
  IN
  /\ th[t].pc = "update"
  /\ \E ok \in BOOLEAN :
       LET should == ok /\ ShouldUpdate(p, n, i) IN
       /\ Rpc(p, ok)
       /\ finger' = IF should THEN [finger EXCEPT ![p][i] = n] ELSE finger
       /\ succ' = IF should /\ i = 0 THEN [succ EXCEPT ![p] = n] ELSE succ
       /\ Become(t, IF should /\ q \notin {Nil, p, n} THEN Frame("update", q, Nil, i)
                    ELSE OthersFrom(n, i + 1))
  /\ UNCHANGED <<life, boot, pred, anti, fingerIdx, antiIdx, succList, store, ticks,
                 lst>>

\* migrateKeys returns at once without a predecessor or another successor.
MigrateKeys(n) ==
  LET t == Main(n) IN
  /\ th[t].pc = "migrate"
  /\ Become(t, IF succ[n] = n \/ pred[n] = Nil THEN Idle
               ELSE Frame("pull", succ[n], pred[n], 0))
  /\ life' = IF succ[n] = n \/ pred[n] = Nil THEN [life EXCEPT ![n] = "member"] ELSE life
  /\ UNCHANGED <<boot, succ, pred, finger, anti, fingerIdx, antiIdx, succList, store,
                 ticks, losses, lst>>

\* The TransferKeys call without entries stores nothing at the successor.
\* pullKeysInRange copies (pred, n] from the successor, which keeps its copy;
\* then Join returns and the spawner starts the background loops.
PullKeys(n) ==
  LET t == Main(n)
      s == th[t].at
      range == {k \in store[s] : IsInIntervalRightClosed(k, th[t].sv, n)}
  IN
  /\ th[t].pc = "pull"
  /\ \E ok \in BOOLEAN :
       /\ Rpc(s, ok)
       /\ store' = IF ok THEN [store EXCEPT ![n] = @ \cup range] ELSE store
  /\ life' = [life EXCEPT ![n] = "member"]
  /\ Become(t, Idle)
  /\ UNCHANGED <<boot, succ, pred, finger, anti, fingerIdx, antiIdx, succList, ticks,
                 lst>>

-----------------------------------------------------------------------------
(* Stabilize: called by runStabilize and, after a repair, CheckSuccessor.  *)

\* Seeded fault: the early return of Stabilize dropped.
NeverAlone(n) == FALSE

\* A node that is its own successor returns early and asks nobody.
Alone(n) == succ[n] = n

StabRead(t) ==
  LET n == t[1] IN
  /\ \/ t[2] = "main" /\ th[t].pc = "idle" /\ Running(n)
     \/ th[t].pc = "stabRead"
  /\ Become(t, IF Alone(n) THEN Frame("stabAlone", Nil, Nil, 0)
               ELSE Frame("stabAsk", Nil, succ[n], 0))
  /\ UNCHANGED <<life, boot, succ, pred, finger, anti, fingerIdx, antiIdx, succList,
                 store, ticks, losses, lst>>

StabAlone(t) ==
  LET n == t[1] IN
  /\ th[t].pc = "stabAlone"
  /\ succ' = [succ EXCEPT ![n] = n]
  /\ finger' = [finger EXCEPT ![n][0] = n]
  /\ Become(t, Idle)
  /\ UNCHANGED <<life, boot, pred, anti, fingerIdx, antiIdx, succList, store, ticks,
                 losses, lst>>

\* Seeded fault: x used without the test for nil.
BetterUnchecked(x, n, s) == IsInInterval(x, n, s)

\* x, the successor's predecessor, lies between n and its successor s.
Better(x, n, s) == x # Nil /\ IsInInterval(x, n, s)

\* GetPredecessor at the successor read before; a failure is ignored.
StabAsk(t) ==
  LET n == t[1]
      s == th[t].sv
  IN
  /\ th[t].pc = "stabAsk"
  /\ \E ok \in BOOLEAN :
       /\ Rpc(s, ok)
       /\ Become(t, IF ok /\ Better(pred[s], n, s) THEN Frame("stabAdopt", Nil, pred[s], 0)
                    ELSE Frame("stabNotify", Nil, s, 0))
  /\ UNCHANGED <<life, boot, succ, pred, finger, anti, fingerIdx, antiIdx, succList,
                 store, ticks, lst>>

\* Seeded fault: finger 0 forgotten.
StabAdoptSuccOnly(t) ==
  /\ th[t].pc = "stabAdopt"
  /\ succ' = [succ EXCEPT ![t[1]] = th[t].sv]
  /\ Become(t, Frame("stabNotify", Nil, th[t].sv, 0))
  /\ UNCHANGED <<life, boot, pred, finger, anti, fingerIdx, antiIdx, succList, store,
                 ticks, losses, lst>>

StabAdopt(t) ==
  LET n == t[1]
      x == th[t].sv
  IN
  /\ th[t].pc = "stabAdopt"
  /\ succ' = [succ EXCEPT ![n] = x]
  /\ finger' = [finger EXCEPT ![n][0] = x]
  /\ Become(t, Frame("stabNotify", Nil, x, 0))
  /\ UNCHANGED <<life, boot, pred, anti, fingerIdx, antiIdx, succList, store, ticks,
                 losses, lst>>

\* Seeded faults: only a first candidate accepted; none accepted after a reset.
NotifyFirstOnly(m, c) == pred[m] = Nil
NotifyNotNil(m, c) == pred[m] # Nil /\ IsInInterval(c, pred[m], m)

\* The RPC Notify(candidate) to node m, which may not reach it.
NotifyAccepts(m, c) == pred[m] = Nil \/ IsInInterval(c, pred[m], m)
Notify(m, c) ==
  \E ok \in BOOLEAN :
    /\ Rpc(m, ok)
    /\ pred' = IF ok /\ NotifyAccepts(m, c) THEN [pred EXCEPT ![m] = c] ELSE pred

StabNotify(t) ==
  /\ th[t].pc = "stabNotify"
  /\ Notify(th[t].sv, t[1])
  /\ Become(t, [th[t] EXCEPT !.pc = "stabList"])
  /\ UNCHANGED <<life, boot, succ, finger, anti, fingerIdx, antiIdx, succList, store,
                 ticks, lst>>

\* updateSuccessorList: GetSuccessorList at s; on a failure the old list stays.
FetchSuccessorList(t) ==
  LET s == th[t].sv IN
  /\ th[t].pc = "stabList"
  /\ \E ok \in BOOLEAN :
       /\ Rpc(s, ok)
       /\ lst' = IF ok THEN [lst EXCEPT ![t] = succList[s]] ELSE lst
       /\ Become(t, IF ok THEN Frame("stabStore", Nil, s, 0) ELSE Idle)
  /\ UNCHANGED <<life, boot, succ, pred, finger, anti, fingerIdx, antiIdx, succList,
                 store, ticks>>

\* Seeded fault: the successor's own list not appended.
ExtendedHeadOnly(s, list) == <<s>>

\* [s, s.succList...] cut to SuccessorListSize.
Extended(s, list) ==
  LET l == <<s>> \o list
  IN  SubSeq(l, 1, IF Len(l) < SuccessorListSize THEN Len(l) ELSE SuccessorListSize)

StoreSuccessorList(t) ==
  /\ th[t].pc = "stabStore"
  /\ succList' = [succList EXCEPT ![t[1]] = Extended(th[t].sv, lst[t])]
  /\ lst' = [lst EXCEPT ![t] = <<>>]
  /\ Become(t, Idle)
  /\ UNCHANGED <<life, boot, succ, pred, finger, anti, fingerIdx, antiIdx, store, ticks,
                 losses>>

-----------------------------------------------------------------------------
(* The fix-fingers ticker of runStabilize: one finger, one anti-finger.    *)

FixFinger(n) ==
  /\ th[Main(n)].pc = "idle"
  /\ Running(n)
  /\ ticks[n] < MaxTicks
  /\ ticks' = [ticks EXCEPT ![n] = @ + 1]
  /\ Become(Main(n), Call("fixFinger", n, fingerIdx[n]))
  /\ UNCHANGED <<life, boot, succ, pred, finger, anti, fingerIdx, antiIdx, succList,
                 store, losses, lst>>

\* Stores the finger unless the lookup failed, then turns to the anti-finger.
\* With the rotating indices advanced: fingers 1 .. Bits-1, anti-fingers all.
FixFingerDone(n) ==
  LET t == Main(n)
      i == th[t].ix
  IN
  /\ Ended(t, "fixFinger", "found") \/ Ended(t, "fixFinger", "failed")
  /\ finger' = IF th[t].st = "found" THEN [finger EXCEPT ![n][i] = th[t].sv] ELSE finger
  /\ fingerIdx' = [fingerIdx EXCEPT ![n] = IF i + 1 >= Bits THEN 1 ELSE i + 1]
  /\ antiIdx' = [antiIdx EXCEPT ![n] = (@ + 1) % Bits]
  /\ Become(t, Call("fixAnti", n, antiIdx[n]))
  /\ UNCHANGED <<life, boot, succ, pred, anti, succList, store, ticks, losses, lst>>

-----------------------------------------------------------------------------
(* The failure detectors.  A ping that cannot fail changes nothing, so     *)
(* only pings that may are steps.  A failed ping and the write it causes   *)
(* are one step: what the failure says of the target no later step of      *)
(* another thread makes untrue.                                            *)

MayFail(m) == m \in CrashSet \cup KillSet \/ losses < MaxLosses

CheckPredRead(n) ==
  LET t == <<n, "cp">> IN
  /\ Running(n)
  /\ th[t].pc = "idle"
  /\ pred[n] # Nil /\ MayFail(pred[n])
  /\ Become(t, Frame("ping", Nil, pred[n], 0))
  /\ UNCHANGED <<life, boot, succ, pred, finger, anti, fingerIdx, antiIdx, succList,
                 store, ticks, losses, lst>>

\* The predecessor is cleared even if Notify has replaced it since it was read.
CheckPredPing(n) ==
  LET t == <<n, "cp">> IN
  /\ th[t].pc = "ping"
  /\ \E ok \in BOOLEAN :
       /\ Rpc(th[t].sv, ok)
       /\ pred' = IF ok THEN pred ELSE [pred EXCEPT ![n] = Nil]
  /\ Become(t, Idle)
  /\ UNCHANGED <<life, boot, succ, finger, anti, fingerIdx, antiIdx, succList, store,
                 ticks, lst>>

CheckSuccRead(n) ==
  LET t == <<n, "cs">> IN
  /\ Running(n)
  /\ th[t].pc = "idle"
  /\ succ[n] # n /\ MayFail(succ[n])
  /\ Become(t, Frame("csPing", Nil, succ[n], 0))
  /\ lst' = [lst EXCEPT ![t] = succList[n]]
  /\ UNCHANGED <<life, boot, succ, pred, finger, anti, fingerIdx, antiIdx, succList,
                 store, ticks, losses>>

CheckSuccPing(n) ==
  LET t == <<n, "cs">> IN
  /\ th[t].pc = "csPing"
  /\ \E ok \in BOOLEAN :
       /\ Rpc(th[t].sv, ok)
       /\ Become(t, IF ok THEN Idle ELSE Frame("csWalk", Nil, th[t].sv, 0))
       /\ lst' = IF ok THEN [lst EXCEPT ![t] = <<>>] ELSE lst
  /\ UNCHANGED <<life, boot, succ, pred, finger, anti, fingerIdx, antiIdx, succList,
                 store, ticks>>

\* One entry of the copied list: the first that answers, other than the dead
\* successor, is taken; at the end of the list CheckSuccessor gives up.
CheckSuccWalk(n) ==
  LET t == <<n, "cs">>
      s == Head(lst[t])
  IN
  /\ th[t].pc = "csWalk"
  /\ lst[t] # <<>>
  /\ IF s = th[t].sv
     THEN /\ lst' = [lst EXCEPT ![t] = Tail(@)]
          /\ UNCHANGED <<losses, th>>
     ELSE \E ok \in BOOLEAN :
            /\ Rpc(s, ok)
            /\ lst' = [lst EXCEPT ![t] = IF ok THEN <<>> ELSE Tail(@)]
            /\ Become(t, IF ok THEN Frame("csTake", Nil, s, 0) ELSE th[t])
  /\ UNCHANGED <<life, boot, succ, pred, finger, anti, fingerIdx, antiIdx, succList,
                 store, ticks>>

CheckSuccGiveUp(n) ==
  LET t == <<n, "cs">> IN
  /\ th[t].pc = "csWalk"
  /\ lst[t] = <<>>
  /\ Become(t, Idle)
  /\ UNCHANGED <<life, boot, succ, pred, finger, anti, fingerIdx, antiIdx, succList,
                 store, ticks, losses, lst>>

\* Seeded fault: finger 0 forgotten.
CheckSuccTakeSuccOnly(n) ==
  LET t == <<n, "cs">> IN
  /\ th[t].pc = "csTake"
  /\ succ' = [succ EXCEPT ![n] = th[t].sv]
  /\ Become(t, Frame("stabRead", Nil, Nil, 0))
  /\ UNCHANGED <<life, boot, pred, finger, anti, fingerIdx, antiIdx, succList, store,
                 ticks, losses, lst>>

\* The entry becomes the successor and Stabilize runs at once.
CheckSuccTake(n) ==
  LET t == <<n, "cs">> IN
  /\ th[t].pc = "csTake"
  /\ succ' = [succ EXCEPT ![n] = th[t].sv]
  /\ finger' = [finger EXCEPT ![n][0] = th[t].sv]
  /\ Become(t, Frame("stabRead", Nil, Nil, 0))
  /\ UNCHANGED <<life, boot, pred, anti, fingerIdx, antiIdx, succList, store, ticks,
                 losses, lst>>

-----------------------------------------------------------------------------
(* Departures.  KillNode and CrashNode take the node off the registry      *)
(* first; its threads finish what they are doing and, until Stop, may even *)
(* begin another iteration.                                                *)

CrashNode(n) ==
  /\ n \in CrashSet
  /\ life[n] = "member"
  /\ life' = [life EXCEPT ![n] = "leaving"]
  /\ Become(<<n, "ctl">>, Frame("stop", Nil, Nil, 0))
  /\ UNCHANGED <<boot, succ, pred, finger, anti, fingerIdx, antiIdx, succList, store,
                 ticks, losses, lst, client>>

KillNode(n) ==
  /\ n \in KillSet
  /\ life[n] = "member"
  /\ life' = [life EXCEPT ![n] = "leaving"]
  /\ Become(<<n, "ctl">>, Frame("leaveRead", Nil, Nil, 0))
  /\ UNCHANGED <<boot, succ, pred, finger, anti, fingerIdx, antiIdx, succList, store,
                 ticks, losses, lst, client>>

LeaveRead(n) ==
  LET t == <<n, "ctl">> IN
  /\ th[t].pc = "leaveRead"
  /\ Become(t, Frame(IF succ[n] # n THEN "leaveTransfer" ELSE "leavePred", pred[n], succ[n], 0))
  /\ UNCHANGED <<life, boot, succ, pred, finger, anti, fingerIdx, antiIdx, succList,
                 store, ticks, losses, lst>>

\* Seeded fault: the entries received dropped.
TransferDropped(s, entries) == store[s]

\* HandleTransferKeys at s.
HandleTransferKeys(s, entries) == store[s] \cup entries

\* Nothing is sent when the store is empty; a failed transfer is logged and the
\* departure goes on.
LeaveTransfer(n) ==
  LET t == <<n, "ctl">>
      s == th[t].sv
  IN
  /\ th[t].pc = "leaveTransfer"
  /\ IF store[n] = {} THEN UNCHANGED <<store, losses>>
     ELSE \E ok \in BOOLEAN :
            /\ Rpc(s, ok)
            /\ store' = IF ok THEN [store EXCEPT ![s] = HandleTransferKeys(s, store[n])]
                        ELSE store
  /\ Become(t, [th[t] EXCEPT !.pc = "leaveSucc"])
  /\ UNCHANGED <<life, boot, succ, pred, finger, anti, fingerIdx, antiIdx, succList,
                 ticks, lst>>

\* Notify(successor, predecessor).
LeaveNotifySucc(n) ==
  LET t == <<n, "ctl">> IN
  /\ th[t].pc = "leaveSucc"
  /\ IF th[t].at # Nil THEN Notify(th[t].sv, th[t].at) ELSE UNCHANGED <<pred, losses>>
  /\ Become(t, [th[t] EXCEPT !.pc = "leavePred"])
  /\ UNCHANGED <<life, boot, succ, finger, anti, fingerIdx, antiIdx, succList, store,
                 ticks, lst>>

\* Notify(predecessor, successor).
LeaveNotifyPred(n) ==
  LET t == <<n, "ctl">> IN
  /\ th[t].pc = "leavePred"
  /\ IF th[t].at \notin {Nil, n} THEN Notify(th[t].at, th[t].sv)
     ELSE UNCHANGED <<pred, losses>>
  /\ Become(t, [th[t] EXCEPT !.pc = "stop"])
  /\ UNCHANGED <<life, boot, succ, finger, anti, fingerIdx, antiIdx, succList, store,
                 ticks, lst>>

Stop(n) ==
  LET t == <<n, "ctl">> IN
  /\ th[t].pc = "stop"
  /\ life' = [life EXCEPT ![n] = "gone"]
  /\ Become(t, Idle)
  /\ UNCHANGED <<boot, succ, pred, finger, anti, fingerIdx, antiIdx, succList, store,
                 ticks, losses, lst>>

-----------------------------------------------------------------------------
(* Clients' writes.  The transport looks the handler up under its lock and *)
(* calls it without: the node may leave in between.                        *)

\* lookup in InProcessTransport.PutEntry.  A key the node holds would change nothing.
FindHandler(n, k) ==
  /\ n \in PutSet
  /\ n \in Members /\ k \notin store[n]
  /\ puts' = puts \cup {<<n, k>>}
  /\ UNCHANGED <<life, boot, succ, pred, finger, anti, fingerIdx, antiIdx, succList,
                 store, ticks, losses, th, lst, late>>

\* Leave has read the entries it hands over, or the node departs without.
HandedOver(n) ==
  th[<<n, "ctl">>].pc \in {"leaveSucc", "leavePred", "stop"} \/ life[n] = "gone"

\* HandlePutEntry, which asks nothing of the node.
PutEntry(n, k) ==
  /\ <<n, k>> \in puts
  /\ puts' = puts \ {<<n, k>>}
  /\ store' = [store EXCEPT ![n] = @ \cup {k}]
  /\ late' = IF k \notin store[n] /\ HandedOver(n) THEN late \cup {<<n, k>>} ELSE late
  /\ UNCHANGED <<life, boot, succ, pred, finger, anti, fingerIdx, antiIdx, succList,
                 ticks, losses, th, lst>>

-----------------------------------------------------------------------------
Stabilize(t) ==
  \/ StabRead(t) \/ StabAlone(t) \/ StabAsk(t) \/ StabAdopt(t) \/ StabNotify(t)
  \/ FetchSuccessorList(t) \/ StoreSuccessorList(t)

FindSuccessor(t) == FindRead(t) \/ FindRoute(t) \/ FindFail(t)

Join(n) ==
  \/ JoinFound(n) \/ JoinFailed(n)
  \/ InitFingerFound(n) \/ InitFingerFailed(n)
  \/ InitFingerNext(n) \/ InitFingerCopy(n)
  \/ AntiFound(n) \/ AntiFailed(n) \/ AntiAsk(n) \/ AntiStore(n)
  \/ OthersFound(n) \/ OthersFailed(n) \/ UpdateFingerTable(n)
  \/ MigrateKeys(n) \/ PullKeys(n)

MainStep(n) ==
  /\ FindSuccessor(Main(n)) \/ Join(n) \/ Stabilize(Main(n)) \/ FixFinger(n) \/ FixFingerDone(n)
  /\ UNCHANGED client

CheckPredecessor(n) == (CheckPredRead(n) \/ CheckPredPing(n)) /\ UNCHANGED client

CheckSuccessor(n) ==
  /\ \/ CheckSuccRead(n) \/ CheckSuccPing(n)
     \/ CheckSuccWalk(n) \/ CheckSuccGiveUp(n) \/ CheckSuccTake(n)
     \/ Stabilize(<<n, "cs">>)
  /\ UNCHANGED client

Leave(n) ==
  /\ LeaveRead(n) \/ LeaveTransfer(n) \/ LeaveNotifySucc(n) \/ LeaveNotifyPred(n) \/ Stop(n)
  /\ UNCHANGED client

Put(n) == \E k \in Keys : FindHandler(n, k) \/ PutEntry(n, k)

Next ==
  \E n \in Nodes :
    \/ CreateRing(n) \/ Spawn(n) \/ CrashNode(n) \/ KillNode(n)
    \/ Put(n)
    \/ MainStep(n) \/ CheckPredecessor(n) \/ CheckSuccessor(n) \/ Leave(n)

Spec == Init /\ [][Next]_vars

\* A started goroutine keeps being scheduled and its tickers keep firing; a
\* departure once begun runs to its end.  Nobody is bound to spawn or depart.
Fairness ==
  \A n \in Nodes : /\ WF_vars(MainStep(n))
                   /\ WF_vars(CheckPredecessor(n))
                   /\ WF_vars(CheckSuccessor(n))
                   /\ WF_vars(Leave(n))

FairSpec == Spec /\ Fairness

-----------------------------------------------------------------------------
(* What must hold.                                                         *)

NodeTypes ==
  /\ life \in [Nodes -> {"off", "joining", "member", "leaving", "gone", "refused"}]
  /\ boot \in [Nodes -> Refs]
  /\ succ \in [Nodes -> Nodes]
  /\ pred \in [Nodes -> Refs]
  /\ finger \in [Nodes -> [Index -> Refs]]
  /\ anti \in [Nodes -> [Index -> Refs]]
  /\ fingerIdx \in [Nodes -> Index]
  /\ antiIdx \in [Nodes -> Index]
  /\ succList \in [Nodes -> Seq(Nodes)]
  /\ store \in [Nodes -> SUBSET Keys]
  /\ ticks \in [Nodes -> 0 .. MaxTicks]
  /\ losses \in 0 .. MaxLosses
  /\ th \in [Threads -> Record]
  /\ lst \in [Threads -> Seq(Nodes)]

\* Type invariant.  successor is never nil once NewChordNode has run.
TypeOK == NodeTypes /\ puts \subseteq Nodes \X Keys /\ late \subseteq Nodes \X Keys

\* Whoever writes the successor or finger 0 (Join, initFingerTable, a joiner's
\* UpdateFingerTable, both callers of Stabilize, CheckSuccessor) writes both:
\* routing and stabilization never work from two different successors.
SuccessorIsFinger0 ==
  \A n \in Nodes : finger[n][0] # Nil => finger[n][0] = succ[n]

\* Each time FindSuccessor forwards a lookup, the node it forwards to is
\* strictly nearer to the identifier, whatever the tables hold and however they
\* change under the lookup: no lookup can cycle, although MaxHops only counts
\* the forwards of a single node.
LookupProgress ==
  [][\A t \in Threads :
       th[t].st = "route" /\ th'[t].st = "read" =>
         Dist(th'[t].at, LookupID(t)) < Dist(th[t].at, LookupID(t))]_vars

\* The node that founded the ring stays its own successor whoever joins: the
\* early return of Stabilize and CheckSuccessor, UpdateFingerTable's comparison
\* with the empty interval (First, First) and the lookups of fixFingersAtIndex,
\* which First answers with itself, each leave it so.  The ring is therefore a
\* chain that ends at First.
FounderKeepsItself == succ[First] = First

\* Every join ends: the lookups it makes, the finger updates it forwards along
\* predecessors and the departure of the nodes it talks to cannot hold it up.
JoinsEnd ==
  \A n \in Nodes : life[n] = "joining" ~> life[n] \in {"member", "refused"}

\* No node ever takes itself for its predecessor: from then on Notify would
\* refuse every candidate, the interval (n, n) being empty for IsInInterval.
PredNotSelf == \A n \in Nodes : pred[n] # n

\* A key that was stored is still held by a node that has not stopped, but for a
\* write that found its handler while the node was registered and ran it after Leave
\* had read the store: that entry stays behind.
KeysSurvive ==
  \A k \in Keys :
    (\E n \in Nodes : k \in store[n] /\ <<n, k>> \notin late)
      => \E n \in Nodes : k \in store[n] /\ life[n] \in {"joining", "member", "leaving"}

\* The first member met clockwise from n.
NextMember(n) ==
  LET Others == Members \ {n}
  IN  IF Others = {} THEN n
      ELSE CHOOSE m \in Others : \A k \in Others : Dist(n, m) <= Dist(n, k)

Linked(n) == succ[n] = NextMember(n) /\ pred[NextMember(n)] = n

\* Stabilization converges: every member that joined the ring (First, which
\* created it, is a separate matter) comes to point to the next member, which
\* knows it as its predecessor, for good; after any joins, and from a stable
\* ring after a crash or lost RPCs.  (A crash before the successor lists have
\* caught up with a join can cut a node off for good.)
JoinersConverge == <>[](\A n \in Members \ {First} : Linked(n))

=============================================================================

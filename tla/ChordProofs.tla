---------------------------- MODULE ChordProofs -----------------------------
(***************************************************************************)
(* Theorems about Ring and Chord, for every width of identifiers, set of   *)
(* nodes, bound on losses, crashes and departures.                         *)
(***************************************************************************)
EXTENDS Chord, SequenceTheorems, NaturalsInduction, WellFoundedInduction, TLAPS

-----------------------------------------------------------------------------
(* What the interval arithmetic of internal/consistent guarantees.         *)

\* Identifiers are integers, and nil (-1) is not one of them.
LEMMA IDFacts == ID \subseteq Int /\ -1 \notin ID /\ Index \subseteq Nat /\ 0 \in Index
  BY BitsAssumption DEF ID, Index

\* fingerStart and antiFingerStart stay on the circle.
LEMMA StartInID ==
  ASSUME NEW n \in ID, NEW i \in Index
  PROVE  fingerStart(n, i) \in ID /\ antiFingerStart(n, i) \in ID
  <1>1. Size \in Nat \ {0} /\ 2^i \in Nat
    BY BitsAssumption DEF Index
  <1>2. ASSUME NEW x \in Int PROVE x % Size \in ID
    BY <1>1 DEF ID
  <1> QED
    BY <1>1, <1>2, IDFacts DEF fingerStart, antiFingerStart

\* The scan of ClosestPrecedingNode from the highest index downwards finds an
\* entry whenever one qualifies.
LEMMA MaxInIndex ==
  ASSUME NEW S \in SUBSET Index, S # {}
  PROVE  Max(S) \in S
  <1> DEFINE T == {k \in Nat : Bits - 1 - k \in S}
  <1>1. T # {}
    <2>1. PICK i \in S : TRUE
      OBVIOUS
    <2>2. i \in 0 .. Bits - 1 /\ Bits \in Nat
      BY BitsAssumption DEF Index
    <2>3. Bits - 1 - i \in Nat /\ Bits - 1 - (Bits - 1 - i) = i
      BY <2>2
    <2> QED
      BY <2>3
  <1>2. PICK m \in T : \A y \in T : ~(<<y, m>> \in OpToRel(<, Nat))
    BY <1>1, WFMin, NatLessThanWellFounded
  <1>3. \A y \in T : ~(y < m)
    BY <1>2 DEF OpToRel
  <1> DEFINE x == Bits - 1 - m
  <1>4. x \in S
    OBVIOUS
  <1>5. ASSUME NEW y \in S PROVE x >= y
    <2>1. y \in 0 .. Bits - 1 /\ Bits \in Nat /\ m \in Nat
      BY BitsAssumption DEF Index
    <2>2. Bits - 1 - y \in Nat /\ Bits - 1 - (Bits - 1 - y) = y
      BY <2>1
    <2>3. ~(Bits - 1 - y < m)
      BY <1>3, <2>2
    <2> QED
      BY <2>1, <2>3
  <1> HIDE DEF x
  <1> QED
    BY <1>4, <1>5 DEF Max

\* IsInInterval against the reference: a point strictly inside (a, id) is
\* strictly nearer to id than a is, the wrap around zero included.
THEOREM InsideIsNearer ==
  ASSUME NEW a \in ID, NEW b \in ID, NEW id \in ID, IsInInterval(b, a, id)
  PROVE  Dist(b, id) < Dist(a, id)
  BY BitsAssumption DEF ID, IsInInterval, Dist

\* The converse: the test accepts exactly the points nearer to id than a,
\* other than id itself, unless the interval is degenerate.
THEOREM NearerIsInside ==
  ASSUME NEW a \in ID, NEW b \in ID, NEW id \in ID, a # id, b # id
  PROVE  IsInInterval(b, a, id) <=> Dist(b, id) < Dist(a, id)
  BY BitsAssumption DEF ID, IsInInterval, Dist

\* An interval and its complement cover the circle once: every identifier but
\* the two ends lies on exactly one side.
THEOREM IntervalsPartition ==
  ASSUME NEW a \in ID, NEW b \in ID, NEW id \in ID, a # b, id # a, id # b
  PROVE  IsInInterval(id, a, b) <=> ~IsInInterval(id, b, a)
  BY DEF ID, IsInInterval

-----------------------------------------------------------------------------
(* The inductive invariant: NodeTypes, and what each program point knows of  *)
(* the locals of its thread.                                               *)

\* Program points that hold a node in sv, in at, an index in ix.
HasNode == {"fingerCopy", "antiPred", "antiStore", "stabAsk", "stabAdopt", "stabNotify",
            "stabList", "stabStore", "ping", "csPing", "csTake",
            "leaveTransfer", "leaveSucc", "leavePred"}
HasTarget == {"update", "pull"}
HasIndex == {"fingerNext", "fingerCopy", "antiPred", "antiStore", "update"}
UpperFinger == {"fingerNext", "fingerCopy", "fixFinger"}
JoinPCs == {"joinSucc", "initFinger", "initAnti", "fingerNext", "fingerCopy",
            "others", "update", "migrate", "pull"}

ThreadOK(t, r) ==
  /\ r.st # "run" <=> r.pc \in LookupPCs
  /\ r.pc \in LookupPCs => t[2] = "main" /\ r.ix \in Index
  /\ r.st \in {"read", "route"} => r.at \in Nodes
  /\ r.st \in {"route", "found"} => r.sv \in Nodes
  /\ r.pc \in HasNode => r.sv \in Nodes
  /\ r.pc \in HasTarget => r.at \in Nodes
  /\ r.pc \in HasIndex => r.ix \in Index
  /\ r.pc \in UpperFinger => r.ix # 0
  /\ r.pc \in {"stabAsk", "stabAdopt", "stabNotify"} => r.sv # t[1]

ThreadsOK == \A t \in Threads : ThreadOK(t, th[t])

BootOK ==
  \A n \in Nodes : life[n] = "joining" \/ th[Main(n)].pc \in JoinPCs => boot[n] \in Nodes

OffIsIdle == \A n \in Nodes : life[n] = "off" => th[Main(n)] = Idle

IndexOK == \A n \in Nodes : fingerIdx[n] # 0

IInv == NodeTypes /\ ThreadsOK /\ BootOK /\ OffIsIdle /\ IndexOK

-----------------------------------------------------------------------------
(* Lemmas about the operators of Chord.                                    *)

\* Nodes are identifiers, and nil is not a node.
LEMMA NodeFacts ==
  /\ Nodes \subseteq ID /\ Nodes \subseteq Int
  /\ Nil \notin Nodes /\ Nodes \subseteq Refs /\ Refs \ {Nil} = Nodes /\ Nil \in Refs
  /\ First \in Nodes
  BY ChordAssumption, IDFacts DEF Nil, Refs

\* A node qualifies as a bootstrap node or an RPC's target only if it exists.
LEMMA SetFacts ==
  /\ Registered \subseteq Nodes /\ Members \subseteq Nodes
  /\ \A n \in Nodes, role \in Roles : <<n, role>> \in Threads
  /\ \A t \in Threads : t[1] \in Nodes /\ t[2] \in Roles
  /\ \A n \in Nodes : Main(n) \in Threads
  BY DEF Registered, Members, Threads, Main, Roles

\* The locals a thread starts a local step or a lookup with.
LEMMA FrameRecord ==
  ASSUME NEW p \in PCs, NEW a \in Refs, NEW v \in Refs, NEW i \in 0 .. Bits
  PROVE  /\ Frame(p, a, v, i) \in Record
         /\ Call(p, a, i) \in Record
         /\ Frame(p, a, v, i).pc = p /\ Frame(p, a, v, i).st = "run"
         /\ Frame(p, a, v, i).at = a /\ Frame(p, a, v, i).sv = v
         /\ Frame(p, a, v, i).ix = i
         /\ Call(p, a, i).pc = p /\ Call(p, a, i).st = "read"
         /\ Call(p, a, i).at = a /\ Call(p, a, i).sv = Nil
         /\ Call(p, a, i).ix = i
  BY NodeFacts DEF Frame, Call, Record, Stages

\* A thread that starts a lookup at node h, or goes to a local step.
LEMMA CallOK ==
  ASSUME NEW n \in Nodes, NEW p \in LookupPCs, NEW h \in Nodes, NEW i \in Index,
         p = "fixFinger" => i # 0
  PROVE  Call(p, h, i) \in Record /\ ThreadOK(Main(n), Call(p, h, i))
  <1>1. i \in 0 .. Bits /\ p \in PCs /\ h \in Refs
    BY BitsAssumption, NodeFacts DEF Index, PCs
  <1>2. p \notin HasNode \cup HasTarget \cup HasIndex
    BY DEF LookupPCs, HasNode, HasTarget, HasIndex
  <1>3. p \in UpperFinger => p = "fixFinger"
    BY DEF LookupPCs, UpperFinger
  <1>4. p \notin {"stabAsk", "stabAdopt", "stabNotify"}
    BY DEF LookupPCs
  <1> QED
    BY <1>1, <1>2, <1>3, <1>4, FrameRecord DEF ThreadOK, Main

\* A thread may go to a local step once it holds what the step reads.
LEMMA FrameOK ==
  ASSUME NEW t \in Threads, NEW p \in PCs \ LookupPCs, NEW a \in Refs, NEW v \in Refs,
         NEW i \in 0 .. Bits,
         p \in HasNode => v \in Nodes,
         p \in HasTarget => a \in Nodes,
         p \in HasIndex => i \in Index,
         p \in UpperFinger => i # 0,
         p \in {"stabAsk", "stabAdopt", "stabNotify"} => v # t[1]
  PROVE  Frame(p, a, v, i) \in Record /\ ThreadOK(t, Frame(p, a, v, i))
  BY FrameRecord DEF ThreadOK

\* A thread may always finish.
LEMMA IdleOK ==
  ASSUME NEW t \in Threads
  PROVE  Idle \in Record /\ ThreadOK(t, Idle) /\ Idle.pc = "idle" /\ Idle.st = "run"
  <1>1. "idle" \in PCs \ LookupPCs /\ Nil \in Refs /\ 0 \in 0 .. Bits
    BY NodeFacts, BitsAssumption DEF PCs, LookupPCs
  <1>2. "idle" \notin HasNode \cup HasTarget \cup HasIndex \cup UpperFinger
    BY DEF HasNode, HasTarget, HasIndex, UpperFinger
  <1> QED
    BY <1>1, <1>2, FrameOK, FrameRecord DEF Idle

\* One thread moves, the others stay as they are.
LEMMA BecomeOK ==
  ASSUME th \in [Threads -> Record], ThreadsOK,
         NEW t \in Threads, NEW r \in Record, ThreadOK(t, r), Become(t, r)
  PROVE  /\ th' \in [Threads -> Record] /\ ThreadsOK'
         /\ th'[t] = r /\ \A u \in Threads \ {t} : th'[u] = th[u]
  BY DEF Become, ThreadsOK, ThreadOK

\* An RPC keeps the count of losses within its bound and is only ever answered
\* by a registered node.
LEMMA RpcOK ==
  ASSUME losses \in 0 .. MaxLosses, NEW m, NEW ok \in BOOLEAN, Rpc(m, ok)
  PROVE  losses' \in 0 .. MaxLosses /\ (ok => m \in Registered)
  BY ChordAssumption DEF Rpc

\* What ClosestPrecedingNode answers: n, or a node strictly inside (n, id).
LEMMA ClosestOK ==
  ASSUME NodeTypes, NEW n \in Nodes, NEW id
  PROVE  LET c == ClosestPrecedingNode(n, id)
         IN  c \in Nodes /\ (c # n => IsInInterval(c, n, id))
  <1> DEFINE Fwd == {i \in Index : finger[n][i] # Nil /\ IsInInterval(finger[n][i], n, id)}
             Bwd == {i \in Index : /\ pred[n] # Nil
                                   /\ IsInInterval(id, pred[n], n)
                                   /\ anti[n][i] # Nil
                                   /\ IsInInterval(anti[n][i], n, id)}
             f == finger[n][Max(Fwd)]
             a == anti[n][Max(Bwd)]
  <1>1. Fwd # {} => Max(Fwd) \in Fwd
    BY MaxInIndex
  <1>2. Bwd # {} => Max(Bwd) \in Bwd
    BY MaxInIndex
  <1>3. Fwd # {} => f \in Nodes /\ IsInInterval(f, n, id)
    BY <1>1, NodeFacts DEF NodeTypes
  <1>4. Bwd # {} => a \in Nodes /\ IsInInterval(a, n, id)
    BY <1>2, NodeFacts DEF NodeTypes
  <1>5. ClosestPrecedingNode(n, id) =
          IF Fwd = {} THEN IF Bwd = {} THEN n ELSE a
          ELSE IF Bwd # {} /\ IsInInterval(f, n, a) THEN a ELSE f
    BY DEF ClosestPrecedingNode
  <1> HIDE DEF Fwd, Bwd, f, a
  <1> QED
    BY <1>3, <1>4, <1>5

\* The successor list stays a list of nodes.
LEMMA ExtendedOK ==
  ASSUME NEW s \in Nodes, NEW list \in Seq(Nodes)
  PROVE  Extended(s, list) \in Seq(Nodes)
  <1> DEFINE l == <<s>> \o list
             k == IF Len(l) < SuccessorListSize THEN Len(l) ELSE SuccessorListSize
  <1>1. l \in Seq(Nodes)
    OBVIOUS
  <1>2. k \in 0 .. Len(l)
    BY <1>1, ChordAssumption
  <1>3. SubSeq(l, 1, k) \in Seq(Nodes)
    <2> HIDE DEF l, k
    <2> QED
      BY <1>1, <1>2, SubSeqProperties
  <1> QED
    BY <1>3 DEF Extended

-----------------------------------------------------------------------------
(* The invariant is inductive.                                             *)

\* The founder alone, every thread idle, satisfies the invariant.
LEMMA InitOK == Init => IInv
  <1> SUFFICES ASSUME Init PROVE IInv
    OBVIOUS
  <1> USE DEF Init
  <1>1. \A t \in Threads : Idle \in Record /\ ThreadOK(t, Idle) /\ Idle.pc = "idle"
    BY IdleOK
  <1>2. NodeTypes
    <2>1. 1 \in Index /\ 0 \in Index /\ 0 \in 0 .. MaxTicks /\ 0 \in 0 .. MaxLosses
      BY BitsAssumption, ChordAssumption DEF Index
    <2>2. <<>> \in Seq(Nodes) /\ {} \in SUBSET Keys
      OBVIOUS
    <2> QED
      BY <1>1, <2>1, <2>2, NodeFacts DEF NodeTypes
  <1>3. ThreadsOK
    BY <1>1 DEF ThreadsOK
  <1>4. BootOK
    BY <1>1, SetFacts DEF BootOK, JoinPCs
  <1>5. OffIsIdle /\ IndexOK
    BY SetFacts DEF OffIsIdle, IndexOK
  <1> QED
    BY <1>2, <1>3, <1>4, <1>5 DEF IInv

\* A thread moves on while nobody arrives or departs.
LEMMA MoveOK ==
  ASSUME IInv, NEW t \in Threads, NEW r \in Record, ThreadOK(t, r), Become(t, r),
         UNCHANGED <<life, boot>>,
         r.pc \in JoinPCs => boot[t[1]] \in Nodes,
         t[2] = "main" => life[t[1]] # "off"
  PROVE  th' \in [Threads -> Record] /\ ThreadsOK' /\ BootOK' /\ OffIsIdle'
  <1>1. /\ th' \in [Threads -> Record] /\ ThreadsOK'
        /\ th'[t] = r /\ \A u \in Threads \ {t} : th'[u] = th[u]
    BY BecomeOK DEF IInv, NodeTypes
  <1>2. \A n \in Nodes : Main(n) \in Threads /\ Main(n)[1] = n /\ Main(n)[2] = "main"
    BY SetFacts DEF Main
  <1>3. BootOK'
    BY <1>1, <1>2 DEF IInv, BootOK
  <1>4. OffIsIdle'
    BY <1>1, <1>2 DEF IInv, OffIsIdle
  <1> QED
    BY <1>1, <1>3, <1>4

\* The main thread of a node that is not idle belongs to a spawned node.
LEMMA BusyIsSpawned ==
  ASSUME IInv, NEW n \in Nodes, th[Main(n)].pc # "idle" \/ th[Main(n)].st # "run"
  PROVE  life[n] # "off"
  BY IdleOK, SetFacts DEF IInv, OffIsIdle

\* FindSuccessor.
LEMMA FindSuccessorOK ==
  ASSUME IInv, NEW n \in Nodes, FindSuccessor(Main(n))
  PROVE  IInv'
  <1> DEFINE t == Main(n)
  <1>1. t \in Threads /\ t[1] = n /\ t[2] = "main" /\ th[t] \in Record /\ ThreadOK(t, th[t])
    BY SetFacts DEF IInv, NodeTypes, ThreadsOK, Main
  <1>2. th[t].pc \in JoinPCs => boot[n] \in Nodes
    BY DEF IInv, BootOK
  <1> HIDE DEF t
  <1>3. CASE FindRead(t)
    <2> DEFINE s == succ[th[t].at]
               r == [th[t] EXCEPT !.sv = s,
                                  !.st = IF IsInIntervalRightClosed(LookupID(t), th[t].at, s)
                                         THEN "found" ELSE "route"]
    <2>1. s \in Nodes /\ th[t].st = "read"
      BY <1>1, <1>3 DEF FindRead, ThreadOK, IInv, NodeTypes
    <2>2. r \in Record /\ ThreadOK(t, r) /\ r.pc = th[t].pc
      BY <1>1, <2>1, NodeFacts DEF Record, Stages, ThreadOK, LookupPCs
    <2>3. Become(t, r) /\ losses' \in 0 .. MaxLosses
      BY <1>3, RpcOK DEF FindRead, IInv, NodeTypes
    <2>4. th' \in [Threads -> Record] /\ ThreadsOK' /\ BootOK' /\ OffIsIdle'
      <3>1. life[n] # "off"
        BY <2>1, BusyIsSpawned DEF t
      <3> QED
        BY <1>1, <1>2, <1>3, <2>2, <2>3, <3>1, MoveOK DEF FindRead
    <2> QED
      BY <1>3, <2>3, <2>4 DEF FindRead, IInv, NodeTypes, IndexOK
  <1>4. CASE FindRoute(t)
    <2> DEFINE c == ClosestPrecedingNode(th[t].at, LookupID(t))
               r == IF c = th[t].at THEN [th[t] EXCEPT !.st = "found"]
                    ELSE [th[t] EXCEPT !.st = "read", !.at = c, !.sv = Nil]
    <2>1. th[t].st = "route" /\ c \in Nodes
      BY <1>1, <1>4, ClosestOK DEF FindRoute, ThreadOK, IInv
    <2>2. r \in Record /\ ThreadOK(t, r) /\ r.pc = th[t].pc
      <3> HIDE DEF c
      <3>1. th[t].pc \notin HasNode /\ th[t].pc \notin HasTarget
        BY <1>1, <2>1 DEF ThreadOK, LookupPCs, HasNode, HasTarget
      <3> QED
        BY <1>1, <2>1, <3>1, NodeFacts DEF Record, Stages, ThreadOK, LookupPCs
    <2>3. Become(t, r)
      BY <1>4 DEF FindRoute
    <2>4. th' \in [Threads -> Record] /\ ThreadsOK' /\ BootOK' /\ OffIsIdle'
      <3>1. life[n] # "off"
        BY <2>1, BusyIsSpawned DEF t
      <3> HIDE DEF r
      <3> QED
        BY <1>1, <1>2, <1>4, <2>2, <2>3, <3>1, MoveOK DEF FindRoute
    <2> QED
      BY <1>4, <2>4 DEF FindRoute, IInv, NodeTypes, IndexOK
  <1>5. CASE FindFail(t)
    <2> DEFINE r == [th[t] EXCEPT !.st = "failed"]
    <2>1. th[t].st = "read"
      BY <1>5 DEF FindFail
    <2>2. r \in Record /\ ThreadOK(t, r) /\ r.pc = th[t].pc
      BY <1>1, <2>1 DEF Record, Stages, ThreadOK
    <2>3. Become(t, r) /\ losses' \in 0 .. MaxLosses
      BY <1>5, RpcOK DEF FindFail, IInv, NodeTypes
    <2>4. th' \in [Threads -> Record] /\ ThreadsOK' /\ BootOK' /\ OffIsIdle'
      <3>1. life[n] # "off"
        BY <2>1, BusyIsSpawned DEF t
      <3> QED
        BY <1>1, <1>2, <1>5, <2>2, <2>3, <3>1, MoveOK DEF FindFail
    <2> QED
      BY <1>5, <2>3, <2>4 DEF FindFail, IInv, NodeTypes, IndexOK
  <1> QED
    BY <1>3, <1>4, <1>5 DEF FindSuccessor, t

\* The steps of Join: what they turn the main thread into is well formed.
LEMMA JoinFrames ==
  ASSUME NEW n \in Nodes, NEW i \in Index, NEW b \in Nodes, boot[n] = b
  PROVE  \A r \in {AfterFinger(n, i), AfterAnti(n, i), OthersFrom(n, i + 1)} :
           r \in Record /\ ThreadOK(Main(n), r) /\ r.pc \in JoinPCs
  <1>1. i \in Nat /\ Bits \in Nat /\ 0 \in Index /\ 0 \in 0 .. Bits /\ 0 < Bits
        /\ (i + 1 < Bits => i + 1 \in Index /\ i + 1 # 0 /\ i + 1 \in 0 .. Bits)
    BY BitsAssumption DEF Index
  <1>2. Main(n) \in Threads /\ n \in Refs /\ Nil \in Refs
    BY SetFacts, NodeFacts
  <1>3. \A p \in {"others", "initAnti"}, h \in {n, b}, j \in Index :
          Call(p, h, j) \in Record /\ ThreadOK(Main(n), Call(p, h, j)) /\ Call(p, h, j).pc = p
    <2> TAKE p \in {"others", "initAnti"}, h \in {n, b}, j \in Index
    <2>1. p \in LookupPCs /\ p # "fixFinger" /\ h \in Nodes
      BY DEF LookupPCs
    <2> QED
      BY <2>1, CallOK DEF Call
  <1>4. LET f == Frame("migrate", Nil, Nil, 0)
        IN  f \in Record /\ ThreadOK(Main(n), f) /\ f.pc = "migrate"
    <2>1. "migrate" \in PCs \ LookupPCs
      BY DEF PCs, LookupPCs
    <2>2. "migrate" \notin HasNode \cup HasTarget \cup HasIndex \cup UpperFinger
      BY DEF HasNode, HasTarget, HasIndex, UpperFinger
    <2> QED
      BY <1>1, <1>2, <2>1, <2>2, FrameOK DEF Frame
  <1>5. ASSUME i + 1 < Bits
        PROVE  LET f == Frame("fingerNext", Nil, Nil, i + 1)
               IN  f \in Record /\ ThreadOK(Main(n), f) /\ f.pc = "fingerNext"
    <2>1. "fingerNext" \in PCs \ LookupPCs
      BY DEF PCs, LookupPCs
    <2>2. "fingerNext" \notin HasNode \cup HasTarget
      BY DEF HasNode, HasTarget
    <2> QED
      BY <1>1, <1>2, <1>5, <2>1, <2>2, FrameOK DEF Frame
  <1>6. AfterFinger(n, i) \in Record /\ ThreadOK(Main(n), AfterFinger(n, i))
        /\ AfterFinger(n, i).pc \in JoinPCs
    BY <1>1, <1>3, <1>5 DEF AfterFinger, JoinPCs
  <1>7. \A j \in Nat : (j < Bits => j \in Index) =>
          /\ OthersFrom(n, j) \in Record /\ ThreadOK(Main(n), OthersFrom(n, j))
          /\ OthersFrom(n, j).pc \in JoinPCs
    BY <1>3, <1>4 DEF OthersFrom, JoinPCs
  <1>8. AfterAnti(n, i) \in Record /\ ThreadOK(Main(n), AfterAnti(n, i))
        /\ AfterAnti(n, i).pc \in JoinPCs
    BY <1>1, <1>3, <1>7 DEF AfterAnti, JoinPCs
  <1>9. OthersFrom(n, i + 1) \in Record /\ ThreadOK(Main(n), OthersFrom(n, i + 1))
        /\ OthersFrom(n, i + 1).pc \in JoinPCs
    BY <1>1, <1>7
  <1> QED
    BY <1>6, <1>8, <1>9

\* The steps of Join between its lookups: what each takes from a lookup is a
\* node, and the index of every loop stays within the tables.
LEMMA JoinOK ==
  ASSUME IInv, NEW n \in Nodes, Join(n)
  PROVE  IInv'
  <1> DEFINE t == Main(n)
             i == th[t].ix
             v == th[t].sv
  <1>1. t \in Threads /\ t[1] = n /\ t[2] = "main" /\ th[t] \in Record /\ ThreadOK(t, th[t])
    BY SetFacts DEF IInv, NodeTypes, ThreadsOK, Main
  <1>2. /\ th[t].pc \in JoinPCs => boot[n] \in Nodes
        /\ life[n] = "joining" => boot[n] \in Nodes
    BY DEF IInv, BootOK
  <1>3. th[t].pc # "idle" => life[n] # "off"
    BY BusyIsSpawned
  <1>4. v \in Refs /\ i \in 0 .. Bits /\ Nil \in Refs /\ 0 \in 0 .. Bits /\ 0 \in Index
    BY <1>1, NodeFacts, IDFacts, BitsAssumption DEF Record
  <1>5. ASSUME boot[n] \in Nodes, i \in Index
        PROVE  \A r \in {AfterFinger(n, i), AfterAnti(n, i), OthersFrom(n, i + 1)} :
                 r \in Record /\ ThreadOK(t, r) /\ r.pc \in JoinPCs
    BY <1>5, JoinFrames
  <1> HIDE DEF t, i, v
  <1> USE DEF Ended
  <1>6. CASE JoinFound(n)
    <2>1. v \in Nodes /\ boot[n] \in Nodes /\ th[t].pc # "idle"
      BY <1>1, <1>2, <1>6 DEF JoinFound, ThreadOK, JoinPCs, t, v
    <2> DEFINE r == Call("initFinger", boot[n], 0)
    <2>2. r \in Record /\ ThreadOK(t, r)
      BY <1>4, <2>1, CallOK DEF LookupPCs, t
    <2>3. th' \in [Threads -> Record] /\ ThreadsOK' /\ BootOK' /\ OffIsIdle'
      <3> HIDE DEF r
      <3>1. Become(t, r) /\ UNCHANGED <<life, boot>>
        BY <1>6 DEF JoinFound, r, t
      <3> QED
        BY <1>1, <1>3, <2>1, <2>2, <3>1, MoveOK
    <2> QED
      BY <1>4, <1>6, <2>1, <2>3, NodeFacts DEF JoinFound, IInv, NodeTypes, IndexOK, v, t
  <1>7. CASE JoinFailed(n)
    <2>1. Become(t, Idle)
      BY <1>7 DEF JoinFailed, t
    <2>2. /\ th' \in [Threads -> Record] /\ ThreadsOK'
          /\ th'[t] = Idle /\ \A u \in Threads \ {t} : th'[u] = th[u]
      BY <1>1, <2>1, IdleOK, BecomeOK DEF IInv, NodeTypes
    <2>3. life' \in [Nodes -> {"off", "joining", "member", "leaving", "gone", "refused"}]
          /\ life'[n] = "refused" /\ \A m \in Nodes \ {n} : life'[m] = life[m]
      BY <1>7 DEF JoinFailed, IInv, NodeTypes
    <2>4. \A m \in Nodes \ {n} : Main(m) \in Threads \ {t}
      BY SetFacts DEF t, Main
    <2>5. BootOK'
      <3>1. boot' = boot
        BY <1>7 DEF JoinFailed
      <3> QED
        BY <1>1, <2>2, <2>3, <2>4, <3>1, IdleOK DEF IInv, BootOK, JoinPCs, t
    <2>6. OffIsIdle'
      BY <2>2, <2>3, <2>4 DEF IInv, OffIsIdle, t
    <2> QED
      BY <1>7, <2>2, <2>3, <2>5, <2>6 DEF JoinFailed, IInv, NodeTypes, IndexOK
  <1>8. CASE InitFingerFound(n)
    <2>1. v \in Nodes /\ boot[n] \in Nodes /\ th[t].pc # "idle" /\ i \in Index
      BY <1>1, <1>2, <1>8 DEF InitFingerFound, ThreadOK, JoinPCs, LookupPCs, t, v, i
    <2>2. th' \in [Threads -> Record] /\ ThreadsOK' /\ BootOK' /\ OffIsIdle'
      <3> DEFINE r == AfterFinger(n, i)
      <3>1. Become(t, r) /\ UNCHANGED <<life, boot>>
        BY <1>8 DEF InitFingerFound, t, i
      <3>2. r \in Record /\ ThreadOK(t, r)
        BY <1>5, <2>1
      <3> HIDE DEF r
      <3> QED
        BY <1>1, <1>3, <2>1, <3>1, <3>2, MoveOK
    <2> QED
      BY <1>8, <2>1, <2>2, NodeFacts DEF InitFingerFound, IInv, NodeTypes, IndexOK, v, t, i
  <1>9. CASE InitFingerFailed(n)
    <2>1. boot[n] \in Nodes /\ th[t].pc # "idle" /\ i \in Index
      BY <1>1, <1>2, <1>9 DEF InitFingerFailed, ThreadOK, JoinPCs, LookupPCs, t, i
    <2>2. th' \in [Threads -> Record] /\ ThreadsOK' /\ BootOK' /\ OffIsIdle'
      <3> DEFINE r == IF i = 0 THEN Call("initAnti", boot[n], 0) ELSE AfterFinger(n, i)
      <3>1. Become(t, r) /\ UNCHANGED <<life, boot>>
        BY <1>9 DEF InitFingerFailed, t, i
      <3>2. r \in Record /\ ThreadOK(t, r)
        BY <1>4, <1>5, <2>1, CallOK DEF LookupPCs, t
      <3> HIDE DEF r
      <3> QED
        BY <1>1, <1>3, <2>1, <3>1, <3>2, MoveOK
    <2> QED
      BY <1>9, <2>2 DEF InitFingerFailed, IInv, NodeTypes, IndexOK
  <1>10. CASE InitFingerNext(n)
    <2> DEFINE prev == finger[n][i - 1]
    <2>1. boot[n] \in Nodes /\ th[t].pc = "fingerNext" /\ i \in Index /\ i # 0
      BY <1>1, <1>2, <1>10 DEF InitFingerNext, ThreadOK, JoinPCs, HasIndex, UpperFinger, t, i
    <2>2. prev \in Refs
      <3>1. i - 1 \in Index
        BY <2>1, BitsAssumption DEF Index
      <3> QED
        BY <3>1 DEF IInv, NodeTypes
    <2>3. th' \in [Threads -> Record] /\ ThreadsOK' /\ BootOK' /\ OffIsIdle'
      <3> DEFINE reuse == prev # Nil /\ IsInIntervalRightClosed(fingerStart(n, i), n, prev)
                 r == IF reuse THEN Frame("fingerCopy", Nil, prev, i)
                      ELSE Call("initFinger", boot[n], i)
      <3>1. Become(t, r) /\ UNCHANGED <<life, boot>>
        BY <1>10 DEF InitFingerNext, t, i
      <3>2. r \in Record /\ ThreadOK(t, r)
        <4>1. reuse => prev \in Nodes
          BY <2>2, NodeFacts
        <4>2. CASE reuse
          <5>1. "fingerCopy" \in PCs \ LookupPCs /\ "fingerCopy" \notin HasTarget
            BY DEF PCs, LookupPCs, HasTarget
          <5> QED
            BY <1>1, <1>4, <2>1, <2>2, <4>1, <4>2, <5>1, FrameOK
        <4>3. CASE ~reuse
          BY <2>1, <4>3, CallOK DEF LookupPCs, t
        <4> QED
          BY <4>2, <4>3
      <3> HIDE DEF r
      <3> QED
        BY <1>1, <1>3, <2>1, <3>1, <3>2, MoveOK
    <2> QED
      BY <1>10, <2>3 DEF InitFingerNext, IInv, NodeTypes, IndexOK
  <1>11. CASE InitFingerCopy(n)
    <2>1. v \in Nodes /\ boot[n] \in Nodes /\ th[t].pc = "fingerCopy" /\ i \in Index
      BY <1>1, <1>2, <1>11 DEF InitFingerCopy, ThreadOK, JoinPCs, HasNode, HasIndex, t, v, i
    <2>2. th' \in [Threads -> Record] /\ ThreadsOK' /\ BootOK' /\ OffIsIdle'
      <3> DEFINE r == AfterFinger(n, i)
      <3>1. Become(t, r) /\ UNCHANGED <<life, boot>>
        BY <1>11 DEF InitFingerCopy, t, i
      <3>2. r \in Record /\ ThreadOK(t, r)
        BY <1>5, <2>1
      <3> HIDE DEF r
      <3> QED
        BY <1>1, <1>3, <2>1, <3>1, <3>2, MoveOK
    <2> QED
      BY <1>11, <2>1, <2>2, NodeFacts DEF InitFingerCopy, IInv, NodeTypes, IndexOK, v, t, i
  <1>12. CASE AntiFound(n)
    <2>1. v \in Nodes /\ th[t].pc # "idle" /\ i \in Index
      BY <1>1, <1>12 DEF AntiFound, ThreadOK, LookupPCs, t, v, i
    <2>2. th' \in [Threads -> Record] /\ ThreadsOK' /\ BootOK' /\ OffIsIdle'
      <3> DEFINE r == Frame("antiPred", Nil, v, i)
      <3>1. Become(t, r) /\ UNCHANGED <<life, boot>>
        BY <1>12 DEF AntiFound, t, i, v
      <3>2. r \in Record /\ ThreadOK(t, r) /\ r.pc \notin JoinPCs
        <4>1. "antiPred" \in PCs \ LookupPCs /\ "antiPred" \notin HasTarget \cup UpperFinger
              /\ "antiPred" \notin JoinPCs
          BY DEF PCs, LookupPCs, HasTarget, UpperFinger, JoinPCs
        <4> QED
          BY <1>1, <1>4, <2>1, <4>1, FrameOK DEF Frame
      <3> HIDE DEF r
      <3> QED
        BY <1>1, <1>3, <2>1, <3>1, <3>2, MoveOK
    <2> QED
      BY <1>12, <2>2 DEF AntiFound, IInv, NodeTypes, IndexOK
  <1>13. CASE AntiFailed(n)
    <2>1. th[t].pc # "idle" /\ i \in Index /\ (th[t].pc = "initAnti" => boot[n] \in Nodes)
      BY <1>1, <1>2, <1>13 DEF AntiFailed, ThreadOK, JoinPCs, LookupPCs, t, i
    <2>2. th' \in [Threads -> Record] /\ ThreadsOK' /\ BootOK' /\ OffIsIdle'
      <3> DEFINE r == IF th[t].pc = "initAnti" THEN AfterAnti(n, i) ELSE Idle
      <3>1. Become(t, r) /\ UNCHANGED <<life, boot>>
        BY <1>13 DEF AntiFailed, t, i
      <3>2. r \in Record /\ ThreadOK(t, r) /\ (r.pc \in JoinPCs => boot[n] \in Nodes)
        BY <1>1, <1>5, <2>1, IdleOK DEF JoinPCs
      <3> HIDE DEF r
      <3> QED
        BY <1>1, <1>3, <2>1, <3>1, <3>2, MoveOK
    <2> QED
      BY <1>13, <2>2 DEF AntiFailed, IInv, NodeTypes, IndexOK
  <1>14. CASE AntiAsk(n)
    <2>1. v \in Nodes /\ th[t].pc = "antiPred" /\ i \in Index
      BY <1>1, <1>14 DEF AntiAsk, ThreadOK, HasNode, HasIndex, t, v, i
    <2>2. PICK ok \in BOOLEAN :
            /\ Rpc(v, ok)
            /\ Become(t, Frame("antiStore", Nil, IF ok /\ pred[v] # Nil THEN pred[v] ELSE v, i))
      BY <1>14 DEF AntiAsk, t, v, i
    <2>3. losses' \in 0 .. MaxLosses
      BY <2>2, RpcOK DEF IInv, NodeTypes
    <2>4. th' \in [Threads -> Record] /\ ThreadsOK' /\ BootOK' /\ OffIsIdle'
      <3> DEFINE x == IF ok /\ pred[v] # Nil THEN pred[v] ELSE v
                 r == Frame("antiStore", Nil, x, i)
      <3>1. Become(t, r) /\ UNCHANGED <<life, boot>>
        BY <1>14, <2>2 DEF AntiAsk
      <3>2. r \in Record /\ ThreadOK(t, r) /\ r.pc \notin JoinPCs
        <4>1. "antiStore" \in PCs \ LookupPCs /\ "antiStore" \notin HasTarget \cup UpperFinger
              /\ "antiStore" \notin JoinPCs
          BY DEF PCs, LookupPCs, HasTarget, UpperFinger, JoinPCs
        <4>2. x \in Nodes /\ x \in Refs
          BY <2>1, NodeFacts DEF IInv, NodeTypes
        <4> HIDE DEF x
        <4> QED
          BY <1>1, <1>4, <2>1, <4>1, <4>2, FrameOK DEF Frame
      <3> HIDE DEF r
      <3> QED
        BY <1>1, <1>3, <2>1, <3>1, <3>2, MoveOK
    <2> QED
      BY <1>14, <2>3, <2>4 DEF AntiAsk, IInv, NodeTypes, IndexOK
  <1>15. CASE AntiStore(n)
    <2>1. v \in Nodes /\ th[t].pc = "antiStore" /\ i \in Index
      BY <1>1, <1>15 DEF AntiStore, ThreadOK, HasNode, HasIndex, t, v, i
    <2>2. th' \in [Threads -> Record] /\ ThreadsOK' /\ BootOK' /\ OffIsIdle'
      <3> DEFINE r == IF life[n] = "joining" THEN AfterAnti(n, i) ELSE Idle
      <3>1. Become(t, r) /\ UNCHANGED <<life, boot>>
        BY <1>15 DEF AntiStore, t, i
      <3>2. r \in Record /\ ThreadOK(t, r) /\ (r.pc \in JoinPCs => boot[n] \in Nodes)
        BY <1>1, <1>2, <1>5, <2>1, IdleOK DEF JoinPCs
      <3> HIDE DEF r
      <3> QED
        BY <1>1, <1>3, <2>1, <3>1, <3>2, MoveOK
    <2> QED
      BY <1>15, <2>1, <2>2, NodeFacts DEF AntiStore, IInv, NodeTypes, IndexOK, v, t, i
  <1>16. CASE OthersFound(n)
    <2>1. v \in Nodes /\ boot[n] \in Nodes /\ th[t].pc # "idle" /\ i \in Index
      BY <1>1, <1>2, <1>16 DEF OthersFound, ThreadOK, JoinPCs, LookupPCs, t, v, i
    <2>2. th' \in [Threads -> Record] /\ ThreadsOK' /\ BootOK' /\ OffIsIdle'
      <3> DEFINE r == IF v = n THEN OthersFrom(n, i + 1) ELSE Frame("update", v, Nil, i)
      <3>1. Become(t, r) /\ UNCHANGED <<life, boot>>
        BY <1>16 DEF OthersFound, t, i, v
      <3>2. r \in Record /\ ThreadOK(t, r)
        <4>1. "update" \in PCs \ LookupPCs /\ "update" \notin HasNode \cup UpperFinger
          BY DEF PCs, LookupPCs, HasNode, UpperFinger
        <4> QED
          BY <1>1, <1>4, <1>5, <2>1, <4>1, FrameOK
      <3> HIDE DEF r
      <3> QED
        BY <1>1, <1>3, <2>1, <3>1, <3>2, MoveOK
    <2> QED
      BY <1>16, <2>2 DEF OthersFound, IInv, NodeTypes, IndexOK
  <1>17. CASE OthersFailed(n)
    <2>1. boot[n] \in Nodes /\ th[t].pc # "idle" /\ i \in Index
      BY <1>1, <1>2, <1>17 DEF OthersFailed, ThreadOK, JoinPCs, LookupPCs, t, i
    <2>2. th' \in [Threads -> Record] /\ ThreadsOK' /\ BootOK' /\ OffIsIdle'
      <3> DEFINE r == OthersFrom(n, i + 1)
      <3>1. Become(t, r) /\ UNCHANGED <<life, boot>>
        BY <1>17 DEF OthersFailed, t, i
      <3>2. r \in Record /\ ThreadOK(t, r)
        BY <1>5, <2>1
      <3> HIDE DEF r
      <3> QED
        BY <1>1, <1>3, <2>1, <3>1, <3>2, MoveOK
    <2> QED
      BY <1>17, <2>2 DEF OthersFailed, IInv, NodeTypes, IndexOK
  <1>18. CASE UpdateFingerTable(n)
    <2> DEFINE p == th[t].at
               q == pred[p]
    <2>1. p \in Nodes /\ boot[n] \in Nodes /\ th[t].pc = "update" /\ i \in Index
      BY <1>1, <1>2, <1>18 DEF UpdateFingerTable, ThreadOK, JoinPCs, HasTarget, HasIndex, t, i
    <2> HIDE DEF p
    <2>2. PICK ok \in BOOLEAN :
            LET should == ok /\ ShouldUpdate(p, n, i) IN
            /\ Rpc(p, ok)
            /\ finger' = IF should THEN [finger EXCEPT ![p][i] = n] ELSE finger
            /\ succ' = IF should /\ i = 0 THEN [succ EXCEPT ![p] = n] ELSE succ
            /\ Become(t, IF should /\ q \notin {Nil, p, n} THEN Frame("update", q, Nil, i)
                         ELSE OthersFrom(n, i + 1))
      BY <1>18 DEF UpdateFingerTable, t, i, p
    <2>3. losses' \in 0 .. MaxLosses
      BY <2>2, RpcOK DEF IInv, NodeTypes
    <2>4. finger' \in [Nodes -> [Index -> Refs]] /\ succ' \in [Nodes -> Nodes]
      BY <2>1, <2>2, NodeFacts DEF IInv, NodeTypes
    <2>5. th' \in [Threads -> Record] /\ ThreadsOK' /\ BootOK' /\ OffIsIdle'
      <3> DEFINE go == ok /\ ShouldUpdate(p, n, i) /\ q \notin {Nil, p, n}
                 r == IF go THEN Frame("update", q, Nil, i) ELSE OthersFrom(n, i + 1)
      <3>1. Become(t, r) /\ UNCHANGED <<life, boot>>
        BY <1>18, <2>2 DEF UpdateFingerTable
      <3>2. r \in Record /\ ThreadOK(t, r)
        <4>1. "update" \in PCs \ LookupPCs /\ "update" \notin HasNode \cup UpperFinger
          BY DEF PCs, LookupPCs, HasNode, UpperFinger
        <4>2. go => q \in Nodes
          BY <2>1, NodeFacts DEF IInv, NodeTypes
        <4> HIDE DEF go, q
        <4> QED
          BY <1>1, <1>4, <1>5, <2>1, <4>1, <4>2, NodeFacts, FrameOK
      <3> HIDE DEF r
      <3> QED
        BY <1>1, <1>3, <2>1, <3>1, <3>2, MoveOK
    <2> QED
      BY <1>18, <2>3, <2>4, <2>5 DEF UpdateFingerTable, IInv, NodeTypes, IndexOK
  <1>19. CASE MigrateKeys(n)
    <2> DEFINE none == succ[n] = n \/ pred[n] = Nil
               r == IF none THEN Idle ELSE Frame("pull", succ[n], pred[n], 0)
    <2>1. boot[n] \in Nodes /\ th[t].pc = "migrate"
      BY <1>2, <1>19 DEF MigrateKeys, JoinPCs, t
    <2>2. r \in Record /\ ThreadOK(t, r)
      <3>1. "pull" \in PCs \ LookupPCs /\ "pull" \notin HasNode \cup HasIndex \cup UpperFinger
        BY DEF PCs, LookupPCs, HasNode, HasIndex, UpperFinger
      <3>2. succ[n] \in Nodes /\ succ[n] \in Refs /\ pred[n] \in Refs
        BY NodeFacts DEF IInv, NodeTypes
      <3> QED
        BY <1>1, <1>4, <3>1, <3>2, IdleOK, FrameOK
    <2>3. Become(t, r)
      BY <1>19 DEF MigrateKeys, t
    <2> HIDE DEF r, none
    <2>4. /\ th' \in [Threads -> Record] /\ ThreadsOK'
          /\ th'[t] = r /\ \A u \in Threads \ {t} : th'[u] = th[u]
      BY <1>1, <2>2, <2>3, BecomeOK DEF IInv, NodeTypes
    <2>5. /\ life' \in [Nodes -> {"off", "joining", "member", "leaving", "gone", "refused"}]
          /\ life'[n] # "off" /\ \A m \in Nodes \ {n} : life'[m] = life[m]
      BY <1>3, <1>19, <2>1 DEF MigrateKeys, IInv, NodeTypes
    <2>6. \A m \in Nodes \ {n} : Main(m) \in Threads \ {t}
      BY SetFacts DEF t, Main
    <2>7. BootOK'
      <3>1. boot' = boot
        BY <1>19 DEF MigrateKeys
      <3> QED
        BY <2>1, <2>4, <2>5, <2>6, <3>1 DEF IInv, BootOK
    <2>8. OffIsIdle'
      BY <2>4, <2>5, <2>6 DEF IInv, OffIsIdle
    <2> QED
      BY <1>19, <2>4, <2>5, <2>7, <2>8 DEF MigrateKeys, IInv, NodeTypes, IndexOK
  <1>20. CASE PullKeys(n)
    <2> DEFINE s == th[t].at
               range == {k \in store[s] : IsInIntervalRightClosed(k, th[t].sv, n)}
    <2>1. s \in Nodes /\ boot[n] \in Nodes /\ th[t].pc = "pull"
      BY <1>1, <1>2, <1>20 DEF PullKeys, ThreadOK, HasTarget, JoinPCs, t
    <2>2. losses' \in 0 .. MaxLosses
      BY <1>20, RpcOK DEF PullKeys, IInv, NodeTypes
    <2>3. store' \in [Nodes -> SUBSET Keys]
      <3>1. range \in SUBSET Keys
        BY <2>1 DEF IInv, NodeTypes
      <3>2. store' = store \/ store' = [store EXCEPT ![n] = @ \cup range]
        BY <1>20 DEF PullKeys, t
      <3>3. store \in [Nodes -> SUBSET Keys]
        BY DEF IInv, NodeTypes
      <3> HIDE DEF range
      <3>4. store[n] \cup range \in SUBSET Keys
        BY <3>1, <3>3
      <3> QED
        BY <3>2, <3>3, <3>4
    <2>4. Become(t, Idle)
      BY <1>20 DEF PullKeys, t
    <2>5. /\ th' \in [Threads -> Record] /\ ThreadsOK'
          /\ th'[t] = Idle /\ \A u \in Threads \ {t} : th'[u] = th[u]
      BY <1>1, <2>4, IdleOK, BecomeOK DEF IInv, NodeTypes
    <2>6. /\ life' \in [Nodes -> {"off", "joining", "member", "leaving", "gone", "refused"}]
          /\ life'[n] = "member" /\ \A m \in Nodes \ {n} : life'[m] = life[m]
      BY <1>20 DEF PullKeys, IInv, NodeTypes
    <2>7. \A m \in Nodes \ {n} : Main(m) \in Threads \ {t}
      BY SetFacts DEF t, Main
    <2>8. BootOK'
      <3>1. boot' = boot
        BY <1>20 DEF PullKeys
      <3> QED
        BY <2>1, <2>5, <2>6, <2>7, <3>1 DEF IInv, BootOK
    <2>9. OffIsIdle'
      BY <2>5, <2>6, <2>7 DEF IInv, OffIsIdle
    <2> QED
      BY <1>20, <2>2, <2>3, <2>5, <2>6, <2>8, <2>9 DEF PullKeys, IInv, NodeTypes, IndexOK
  <1> QED
    BY <1>6, <1>7, <1>8, <1>9, <1>10, <1>11, <1>12, <1>13, <1>14, <1>15, <1>16, <1>17,
       <1>18, <1>19, <1>20 DEF Join

\* Stabilize, run by the main thread or by CheckSuccessor.
LEMMA StabilizeOK ==
  ASSUME IInv, NEW t \in Threads, Stabilize(t)
  PROVE  IInv'
  <1> DEFINE n == t[1]
             v == th[t].sv
  <1>1. n \in Nodes /\ th[t] \in Record /\ ThreadOK(t, th[t]) /\ succ[n] \in Nodes
    BY SetFacts DEF IInv, NodeTypes, ThreadsOK
  <1>2. ASSUME th[t].pc # "idle", t[2] = "main" PROVE life[n] # "off"
    <2>1. t = Main(n)
      BY <1>2 DEF Threads, Main
    <2> QED
      BY <1>1, <1>2, <2>1, BusyIsSpawned
  <1>3. v \in Refs /\ Nil \in Refs /\ 0 \in 0 .. Bits /\ 0 \in Index
    BY <1>1, NodeFacts, IDFacts, BitsAssumption DEF Record
  <1>4. ASSUME NEW p \in {"stabAlone", "stabAsk", "stabAdopt", "stabNotify", "stabList",
                          "stabStore"},
               NEW x \in Refs,
               p # "stabAlone" => x \in Nodes,
               p \in {"stabAsk", "stabAdopt", "stabNotify"} => x # n
        PROVE  /\ Frame(p, Nil, x, 0) \in Record /\ ThreadOK(t, Frame(p, Nil, x, 0))
               /\ Frame(p, Nil, x, 0).pc \notin JoinPCs
    <2>1. p \in PCs \ LookupPCs
      BY DEF PCs, LookupPCs
    <2>2. p \notin HasTarget \cup HasIndex \cup UpperFinger \cup JoinPCs
      BY DEF HasTarget, HasIndex, UpperFinger, JoinPCs
    <2>3. p \in HasNode => p # "stabAlone"
      BY DEF HasNode
    <2> QED
      BY <1>3, <1>4, <2>1, <2>2, <2>3, FrameOK DEF Frame
  <1>5. Idle \in Record /\ ThreadOK(t, Idle) /\ Idle.pc \notin JoinPCs
    BY IdleOK DEF JoinPCs
  <1>6. ASSUME NEW r \in Record, ThreadOK(t, r), Become(t, r), UNCHANGED <<life, boot>>,
               r.pc \notin JoinPCs, t[2] = "main" => life[n] # "off"
        PROVE  th' \in [Threads -> Record] /\ ThreadsOK' /\ BootOK' /\ OffIsIdle'
    BY <1>6, MoveOK
  <1> HIDE DEF n, v
  <1>7. CASE StabRead(t)
    <2> DEFINE r == IF Alone(n) THEN Frame("stabAlone", Nil, Nil, 0)
                    ELSE Frame("stabAsk", Nil, succ[n], 0)
    <2>1. r \in Record /\ ThreadOK(t, r) /\ r.pc \notin JoinPCs
      BY <1>1, <1>3, <1>4, NodeFacts DEF Alone
    <2>2. Become(t, r) /\ UNCHANGED <<life, boot>>
      BY <1>7 DEF StabRead, n
    <2>3. t[2] = "main" => life[n] # "off"
      BY <1>2, <1>7 DEF StabRead, Running, n
    <2> HIDE DEF r
    <2>4. th' \in [Threads -> Record] /\ ThreadsOK' /\ BootOK' /\ OffIsIdle'
      BY <1>6, <2>1, <2>2, <2>3
    <2> QED
      BY <1>7, <2>4 DEF StabRead, IInv, NodeTypes, IndexOK
  <1>8. CASE StabAlone(t)
    <2>1. th' \in [Threads -> Record] /\ ThreadsOK' /\ BootOK' /\ OffIsIdle'
      BY <1>2, <1>5, <1>6, <1>8 DEF StabAlone
    <2> QED
      BY <1>1, <1>3, <1>8, <2>1, NodeFacts DEF StabAlone, IInv, NodeTypes, IndexOK, n
  <1>9. CASE StabAsk(t)
    <2>1. v \in Nodes /\ v # n /\ th[t].pc = "stabAsk"
      BY <1>1, <1>9 DEF StabAsk, ThreadOK, HasNode, v, n
    <2>2. PICK ok \in BOOLEAN :
            /\ Rpc(v, ok)
            /\ Become(t, IF ok /\ Better(pred[v], n, v) THEN Frame("stabAdopt", Nil, pred[v], 0)
                         ELSE Frame("stabNotify", Nil, v, 0))
      BY <1>9 DEF StabAsk, v, n
    <2>3. losses' \in 0 .. MaxLosses
      BY <2>2, RpcOK DEF IInv, NodeTypes
    <2> DEFINE better == ok /\ Better(pred[v], n, v)
               r == IF better THEN Frame("stabAdopt", Nil, pred[v], 0)
                    ELSE Frame("stabNotify", Nil, v, 0)
    <2>4. better => pred[v] \in Nodes /\ pred[v] # n
      <3>1. pred[v] \in Refs
        BY <2>1 DEF IInv, NodeTypes
      <3>2. Better(pred[v], n, v) => pred[v] # Nil /\ pred[v] # n
        BY <1>1, <2>1, NodeFacts DEF Better, IsInInterval
      <3> QED
        BY <3>1, <3>2, NodeFacts
    <2>5. r \in Record /\ ThreadOK(t, r) /\ r.pc \notin JoinPCs
      <3> HIDE DEF better
      <3> QED
        BY <1>4, <2>1, <2>4, NodeFacts
    <2>6. Become(t, r) /\ UNCHANGED <<life, boot>>
      BY <1>9, <2>2 DEF StabAsk
    <2> HIDE DEF r
    <2>7. th' \in [Threads -> Record] /\ ThreadsOK' /\ BootOK' /\ OffIsIdle'
      BY <1>2, <1>6, <2>1, <2>5, <2>6
    <2> QED
      BY <1>9, <2>3, <2>7 DEF StabAsk, IInv, NodeTypes, IndexOK
  <1>10. CASE StabAdopt(t)
    <2>1. v \in Nodes /\ v # n /\ th[t].pc = "stabAdopt"
      BY <1>1, <1>10 DEF StabAdopt, ThreadOK, HasNode, v, n
    <2> DEFINE r == Frame("stabNotify", Nil, v, 0)
    <2>2. r \in Record /\ ThreadOK(t, r) /\ r.pc \notin JoinPCs
      BY <1>4, <2>1, NodeFacts
    <2>3. Become(t, r) /\ UNCHANGED <<life, boot>>
      BY <1>10 DEF StabAdopt, v
    <2> HIDE DEF r
    <2>4. th' \in [Threads -> Record] /\ ThreadsOK' /\ BootOK' /\ OffIsIdle'
      BY <1>2, <1>6, <2>1, <2>2, <2>3
    <2> QED
      BY <1>1, <1>3, <1>10, <2>1, <2>4, NodeFacts DEF StabAdopt, IInv, NodeTypes, IndexOK, n, v
  <1>11. CASE StabNotify(t)
    <2>1. v \in Nodes /\ v # n /\ th[t].pc = "stabNotify"
      BY <1>1, <1>11 DEF StabNotify, ThreadOK, HasNode, v, n
    <2>2. losses' \in 0 .. MaxLosses /\ pred' \in [Nodes -> Refs]
      <3>1. Notify(v, n)
        BY <1>11 DEF StabNotify, v, n
      <3> QED
        BY <1>1, <2>1, <3>1, RpcOK, NodeFacts DEF Notify, IInv, NodeTypes
    <2> DEFINE r == [th[t] EXCEPT !.pc = "stabList"]
    <2>3. r \in Record /\ ThreadOK(t, r) /\ r.pc \notin JoinPCs
      <3>1. "stabList" \in PCs \ LookupPCs
        BY DEF PCs, LookupPCs
      <3>2. "stabList" \notin HasTarget \cup HasIndex \cup UpperFinger \cup JoinPCs
        BY DEF HasTarget, HasIndex, UpperFinger, JoinPCs
      <3>3. th[t].st = "run"
        BY <1>1, <2>1 DEF ThreadOK, LookupPCs
      <3> QED
        BY <1>1, <2>1, <3>1, <3>2, <3>3 DEF ThreadOK, Record, v
    <2>4. Become(t, r) /\ UNCHANGED <<life, boot>>
      BY <1>11 DEF StabNotify
    <2> HIDE DEF r
    <2>5. th' \in [Threads -> Record] /\ ThreadsOK' /\ BootOK' /\ OffIsIdle'
      BY <1>2, <1>6, <2>1, <2>3, <2>4
    <2> QED
      BY <1>11, <2>2, <2>5 DEF StabNotify, IInv, NodeTypes, IndexOK
  <1>12. CASE FetchSuccessorList(t)
    <2>1. v \in Nodes /\ th[t].pc = "stabList"
      BY <1>1, <1>12 DEF FetchSuccessorList, ThreadOK, HasNode, v
    <2>2. PICK ok \in BOOLEAN :
            /\ Rpc(v, ok)
            /\ lst' = IF ok THEN [lst EXCEPT ![t] = succList[v]] ELSE lst
            /\ Become(t, IF ok THEN Frame("stabStore", Nil, v, 0) ELSE Idle)
      BY <1>12 DEF FetchSuccessorList, v
    <2>3. losses' \in 0 .. MaxLosses /\ lst' \in [Threads -> Seq(Nodes)]
      BY <2>1, <2>2, RpcOK DEF IInv, NodeTypes
    <2> DEFINE r == IF ok THEN Frame("stabStore", Nil, v, 0) ELSE Idle
    <2>4. r \in Record /\ ThreadOK(t, r) /\ r.pc \notin JoinPCs
      BY <1>4, <1>5, <2>1, NodeFacts
    <2>5. Become(t, r) /\ UNCHANGED <<life, boot>>
      BY <1>12, <2>2 DEF FetchSuccessorList
    <2> HIDE DEF r
    <2>6. th' \in [Threads -> Record] /\ ThreadsOK' /\ BootOK' /\ OffIsIdle'
      BY <1>2, <1>6, <2>1, <2>4, <2>5
    <2> QED
      BY <1>12, <2>3, <2>6 DEF FetchSuccessorList, IInv, NodeTypes, IndexOK
  <1>13. CASE StoreSuccessorList(t)
    <2>1. v \in Nodes /\ th[t].pc = "stabStore"
      BY <1>1, <1>13 DEF StoreSuccessorList, ThreadOK, HasNode, v
    <2>2. succList' \in [Nodes -> Seq(Nodes)] /\ lst' \in [Threads -> Seq(Nodes)]
      <3>1. lst \in [Threads -> Seq(Nodes)] /\ succList \in [Nodes -> Seq(Nodes)]
        BY DEF IInv, NodeTypes
      <3>2. Extended(v, lst[t]) \in Seq(Nodes)
        BY <2>1, <3>1, ExtendedOK
      <3> QED
        BY <1>1, <1>13, <3>1, <3>2 DEF StoreSuccessorList, v, n
    <2>3. th' \in [Threads -> Record] /\ ThreadsOK' /\ BootOK' /\ OffIsIdle'
      BY <1>2, <1>5, <1>6, <1>13 DEF StoreSuccessorList
    <2> QED
      BY <1>13, <2>2, <2>3 DEF StoreSuccessorList, IInv, NodeTypes, IndexOK
  <1> QED
    BY <1>7, <1>8, <1>9, <1>10, <1>11, <1>12, <1>13 DEF Stabilize

\* The fix-fingers ticker.
LEMMA FixFingersOK ==
  ASSUME IInv, NEW n \in Nodes, FixFinger(n) \/ FixFingerDone(n)
  PROVE  IInv'
  <1> DEFINE t == Main(n)
             i == th[t].ix
  <1>1. t \in Threads /\ t[1] = n /\ t[2] = "main" /\ th[t] \in Record /\ ThreadOK(t, th[t])
    BY SetFacts DEF IInv, NodeTypes, ThreadsOK, Main
  <1>2. fingerIdx[n] \in Index /\ antiIdx[n] \in Index /\ fingerIdx[n] # 0 /\ Bits \in Nat
    BY BitsAssumption DEF IInv, NodeTypes, IndexOK
  <1>3. \A p \in {"fixFinger", "fixAnti"} : p \in LookupPCs /\ p \notin JoinPCs
    BY DEF LookupPCs, JoinPCs
  <1> HIDE DEF t, i
  <1>4. CASE FixFinger(n)
    <2> DEFINE r == Call("fixFinger", n, fingerIdx[n])
    <2>1. r \in Record /\ ThreadOK(t, r) /\ r.pc \notin JoinPCs
      BY <1>2, <1>3, CallOK DEF Call, t
    <2>2. th' \in [Threads -> Record] /\ ThreadsOK' /\ BootOK' /\ OffIsIdle'
      <3>1. Become(t, r) /\ UNCHANGED <<life, boot>> /\ life[n] # "off"
        BY <1>4 DEF FixFinger, Running, t
      <3> HIDE DEF r
      <3> QED
        BY <1>1, <2>1, <3>1, MoveOK
    <2>3. ticks' \in [Nodes -> 0 .. MaxTicks]
      <3>1. ticks \in [Nodes -> 0 .. MaxTicks] /\ MaxTicks \in Nat
        BY ChordAssumption DEF IInv, NodeTypes
      <3> QED
        BY <1>4, <3>1 DEF FixFinger
    <2> QED
      BY <1>4, <2>2, <2>3 DEF FixFinger, IInv, NodeTypes, IndexOK
  <1>5. CASE FixFingerDone(n)
    <2>1. th[t].pc = "fixFinger" /\ i \in Index /\ i # 0
      BY <1>1, <1>3, <1>5 DEF FixFingerDone, Ended, ThreadOK, UpperFinger, t, i
    <2>2. th[t].st = "found" => th[t].sv \in Nodes
      BY <1>1 DEF ThreadOK
    <2> DEFINE r == Call("fixAnti", n, antiIdx[n])
    <2>3. r \in Record /\ ThreadOK(t, r) /\ r.pc \notin JoinPCs
      BY <1>2, <1>3, CallOK DEF Call, t
    <2>4. th' \in [Threads -> Record] /\ ThreadsOK' /\ BootOK' /\ OffIsIdle'
      <3>1. Become(t, r) /\ UNCHANGED <<life, boot>>
        BY <1>5 DEF FixFingerDone, t
      <3>2. life[n] # "off"
        BY <2>1, BusyIsSpawned DEF t
      <3> HIDE DEF r
      <3> QED
        BY <1>1, <2>3, <3>1, <3>2, MoveOK
    <2>5. fingerIdx' \in [Nodes -> Index] /\ IndexOK'
      <3>1. LET j == IF i + 1 >= Bits THEN 1 ELSE i + 1 IN j \in Index /\ j # 0
        BY <2>1, BitsAssumption DEF Index
      <3>2. fingerIdx' = [fingerIdx EXCEPT ![n] = IF i + 1 >= Bits THEN 1 ELSE i + 1]
        BY <1>5 DEF FixFingerDone, i, t
      <3> QED
        BY <3>1, <3>2 DEF IInv, NodeTypes, IndexOK
    <2>6. antiIdx' \in [Nodes -> Index]
      <3>1. (antiIdx[n] + 1) % Bits \in Index
        BY <1>2, BitsAssumption DEF Index
      <3> QED
        BY <1>5, <3>1 DEF FixFingerDone, IInv, NodeTypes
    <2>7. finger' \in [Nodes -> [Index -> Refs]]
      BY <1>5, <2>1, <2>2, NodeFacts DEF FixFingerDone, IInv, NodeTypes, i, t
    <2> QED
      BY <1>5, <2>4, <2>5, <2>6, <2>7 DEF FixFingerDone, IInv, NodeTypes
  <1> QED
    BY <1>4, <1>5

\* Threads other than main: a step of theirs leaves every join as it is.
LEMMA OtherMoveOK ==
  ASSUME IInv, NEW n \in Nodes, NEW role \in {"cp", "cs", "ctl"},
         NEW r \in Record, ThreadOK(<<n, role>>, r), Become(<<n, role>>, r)
  PROVE  /\ th' \in [Threads -> Record] /\ ThreadsOK'
         /\ \A m \in Nodes : th'[Main(m)] = th[Main(m)]
  <1>1. <<n, role>> \in Threads /\ \A m \in Nodes : Main(m) \in Threads \ {<<n, role>>}
    BY SetFacts DEF Main, Roles
  <1> QED
    BY <1>1, BecomeOK DEF IInv, NodeTypes

\* A step that moves no main thread and no life keeps the rest.
LEMMA QuietOK ==
  ASSUME IInv, \A m \in Nodes : th'[Main(m)] = th[Main(m)], UNCHANGED <<life, boot, fingerIdx>>
  PROVE  BootOK' /\ OffIsIdle' /\ IndexOK'
  BY DEF IInv, BootOK, OffIsIdle, IndexOK

\* The failure detectors.
LEMMA CheckPredecessorOK ==
  ASSUME IInv, NEW n \in Nodes, CheckPredecessor(n)
  PROVE  IInv'
  <1> DEFINE t == <<n, "cp">>
  <1>1. t \in Threads /\ th[t] \in Record /\ ThreadOK(t, th[t])
    BY SetFacts DEF IInv, NodeTypes, ThreadsOK, Roles
  <1>2. CASE CheckPredRead(n)
    <2> DEFINE r == Frame("ping", Nil, pred[n], 0)
    <2>1. pred[n] \in Nodes
      BY <1>2, NodeFacts DEF CheckPredRead, IInv, NodeTypes
    <2>2. r \in Record /\ ThreadOK(t, r)
      <3>1. "ping" \in PCs \ LookupPCs /\ "ping" \notin HasTarget \cup HasIndex \cup UpperFinger
        BY DEF PCs, LookupPCs, HasTarget, HasIndex, UpperFinger
      <3>2. Nil \in Refs /\ 0 \in 0 .. Bits /\ pred[n] \in Refs
        BY <2>1, NodeFacts, BitsAssumption
      <3> QED
        BY <1>1, <2>1, <3>1, <3>2, FrameOK
    <2>3. Become(t, r)
      BY <1>2 DEF CheckPredRead
    <2> HIDE DEF r
    <2>4. th' \in [Threads -> Record] /\ ThreadsOK' /\ \A m \in Nodes : th'[Main(m)] = th[Main(m)]
      BY <2>2, <2>3, OtherMoveOK
    <2>5. BootOK' /\ OffIsIdle' /\ IndexOK'
      BY <1>2, <2>4, QuietOK DEF CheckPredRead
    <2> QED
      BY <1>2, <2>4, <2>5 DEF CheckPredRead, IInv, NodeTypes
  <1>3. CASE CheckPredPing(n)
    <2>1. losses' \in 0 .. MaxLosses /\ pred' \in [Nodes -> Refs]
      BY <1>3, RpcOK, NodeFacts DEF CheckPredPing, IInv, NodeTypes
    <2>2. th' \in [Threads -> Record] /\ ThreadsOK' /\ \A m \in Nodes : th'[Main(m)] = th[Main(m)]
      BY <1>1, <1>3, IdleOK, OtherMoveOK DEF CheckPredPing
    <2>3. BootOK' /\ OffIsIdle' /\ IndexOK'
      BY <1>3, <2>2, QuietOK DEF CheckPredPing
    <2> QED
      BY <1>3, <2>1, <2>2, <2>3 DEF CheckPredPing, IInv, NodeTypes
  <1> QED
    BY <1>2, <1>3 DEF CheckPredecessor

\* CheckSuccessor takes a node of its copy of the successor list, never nil.
LEMMA CheckSuccessorOK ==
  ASSUME IInv, NEW n \in Nodes, CheckSuccessor(n)
  PROVE  IInv'
  <1> DEFINE t == <<n, "cs">>
             v == th[t].sv
  <1>1. t \in Threads /\ th[t] \in Record /\ ThreadOK(t, th[t]) /\ v \in Refs
    BY SetFacts DEF IInv, NodeTypes, ThreadsOK, Roles, Record
  <1>2. lst \in [Threads -> Seq(Nodes)] /\ succList \in [Nodes -> Seq(Nodes)]
    BY DEF IInv, NodeTypes
  <1>3. ASSUME NEW p \in {"csPing", "csWalk", "csTake", "stabRead"}, NEW x \in Refs,
               p \in {"csPing", "csTake"} => x \in Nodes
        PROVE  Frame(p, Nil, x, 0) \in Record /\ ThreadOK(t, Frame(p, Nil, x, 0))
    <2>1. p \in PCs \ LookupPCs
      BY DEF PCs, LookupPCs
    <2>2. p \notin HasTarget \cup HasIndex \cup UpperFinger
      BY DEF HasTarget, HasIndex, UpperFinger
    <2>3. p \in HasNode => p \in {"csPing", "csTake"}
      BY DEF HasNode
    <2>4. Nil \in Refs /\ 0 \in 0 .. Bits
      BY NodeFacts, BitsAssumption
    <2> QED
      BY <1>1, <1>3, <2>1, <2>2, <2>3, <2>4, FrameOK
  <1>4. ASSUME NEW r \in Record, ThreadOK(t, r), Become(t, r)
        PROVE  /\ th' \in [Threads -> Record] /\ ThreadsOK'
               /\ \A m \in Nodes : th'[Main(m)] = th[Main(m)]
    BY <1>4, OtherMoveOK
  <1>5. Idle \in Record /\ ThreadOK(t, Idle)
    BY <1>1, IdleOK
  <1> HIDE DEF t, v
  <1>6. CASE CheckSuccRead(n)
    <2> DEFINE r == Frame("csPing", Nil, succ[n], 0)
    <2>1. r \in Record /\ ThreadOK(t, r)
      BY <1>3, NodeFacts DEF IInv, NodeTypes
    <2>2. Become(t, r) /\ lst' = [lst EXCEPT ![t] = succList[n]]
      BY <1>6 DEF CheckSuccRead, t
    <2> HIDE DEF r
    <2>3. th' \in [Threads -> Record] /\ ThreadsOK' /\ \A m \in Nodes : th'[Main(m)] = th[Main(m)]
      BY <1>4, <2>1, <2>2
    <2>4. BootOK' /\ OffIsIdle' /\ IndexOK'
      BY <1>6, <2>3, QuietOK DEF CheckSuccRead
    <2>5. lst' \in [Threads -> Seq(Nodes)]
      BY <1>2, <2>2
    <2> QED
      BY <1>6, <2>3, <2>4, <2>5 DEF CheckSuccRead, IInv, NodeTypes
  <1>7. CASE CheckSuccPing(n)
    <2>1. v \in Nodes
      BY <1>1, <1>7 DEF CheckSuccPing, ThreadOK, HasNode, t, v
    <2>2. PICK ok \in BOOLEAN :
            /\ Rpc(v, ok)
            /\ Become(t, IF ok THEN Idle ELSE Frame("csWalk", Nil, v, 0))
            /\ lst' = IF ok THEN [lst EXCEPT ![t] = <<>>] ELSE lst
      BY <1>7 DEF CheckSuccPing, t, v
    <2>3. losses' \in 0 .. MaxLosses /\ lst' \in [Threads -> Seq(Nodes)]
      <3>1. losses' \in 0 .. MaxLosses
        BY <2>2, RpcOK DEF IInv, NodeTypes
      <3>2. <<>> \in Seq(Nodes)
        OBVIOUS
      <3> QED
        BY <1>2, <2>2, <3>1, <3>2
    <2> DEFINE r == IF ok THEN Idle ELSE Frame("csWalk", Nil, v, 0)
    <2>4. r \in Record /\ ThreadOK(t, r) /\ Become(t, r)
      BY <1>1, <1>3, <1>5, <2>2
    <2> HIDE DEF r
    <2>5. th' \in [Threads -> Record] /\ ThreadsOK' /\ \A m \in Nodes : th'[Main(m)] = th[Main(m)]
      BY <1>4, <2>4
    <2>6. BootOK' /\ OffIsIdle' /\ IndexOK'
      BY <1>7, <2>5, QuietOK DEF CheckSuccPing
    <2> QED
      BY <1>7, <2>3, <2>5, <2>6 DEF CheckSuccPing, IInv, NodeTypes
  <1>8. CASE CheckSuccWalk(n)
    <2> DEFINE s == Head(lst[t])
    <2>1. s \in Nodes /\ Tail(lst[t]) \in Seq(Nodes) /\ <<>> \in Seq(Nodes) /\ th[t].pc = "csWalk"
      BY <1>1, <1>2, <1>8 DEF CheckSuccWalk, t
    <2> HIDE DEF s
    <2>2. /\ losses' \in 0 .. MaxLosses /\ lst' \in [Threads -> Seq(Nodes)]
          /\ \E r \in {th[t], Frame("csTake", Nil, s, 0)} : Become(t, r)
      <3>1. CASE s = v
        <4>1. lst' = [lst EXCEPT ![t] = Tail(@)] /\ UNCHANGED <<losses, th>>
          BY <1>8, <3>1 DEF CheckSuccWalk, t, s, v
        <4>2. Become(t, th[t])
          BY <4>1 DEF Become, IInv, NodeTypes
        <4> QED
          BY <1>2, <2>1, <4>1, <4>2 DEF IInv, NodeTypes
      <3>2. CASE s # v
        <4>1. PICK ok \in BOOLEAN :
                /\ Rpc(s, ok)
                /\ lst' = [lst EXCEPT ![t] = IF ok THEN <<>> ELSE Tail(@)]
                /\ Become(t, IF ok THEN Frame("csTake", Nil, s, 0) ELSE th[t])
          BY <1>8, <3>2 DEF CheckSuccWalk, t, s, v
        <4>2. losses' \in 0 .. MaxLosses
          BY <4>1, RpcOK DEF IInv, NodeTypes
        <4>3. lst' \in [Threads -> Seq(Nodes)]
          BY <1>2, <2>1, <4>1
        <4> QED
          BY <4>1, <4>2, <4>3
      <3> QED
        BY <3>1, <3>2
    <2>3. PICK r \in {th[t], Frame("csTake", Nil, s, 0)} : Become(t, r)
      BY <2>2
    <2>4. r \in Record /\ ThreadOK(t, r)
      BY <1>1, <1>3, <2>1, NodeFacts
    <2>5. th' \in [Threads -> Record] /\ ThreadsOK' /\ \A m \in Nodes : th'[Main(m)] = th[Main(m)]
      BY <1>4, <2>3, <2>4
    <2>6. BootOK' /\ OffIsIdle' /\ IndexOK'
      BY <1>8, <2>5, QuietOK DEF CheckSuccWalk
    <2> QED
      BY <1>8, <2>2, <2>5, <2>6 DEF CheckSuccWalk, IInv, NodeTypes
  <1>9. CASE CheckSuccGiveUp(n)
    <2>1. th' \in [Threads -> Record] /\ ThreadsOK' /\ \A m \in Nodes : th'[Main(m)] = th[Main(m)]
      BY <1>4, <1>5, <1>9 DEF CheckSuccGiveUp, t
    <2>2. BootOK' /\ OffIsIdle' /\ IndexOK'
      BY <1>9, <2>1, QuietOK DEF CheckSuccGiveUp
    <2> QED
      BY <1>9, <2>1, <2>2 DEF CheckSuccGiveUp, IInv, NodeTypes
  <1>10. CASE CheckSuccTake(n)
    <2>1. v \in Nodes
      BY <1>1, <1>10 DEF CheckSuccTake, ThreadOK, HasNode, t, v
    <2> DEFINE r == Frame("stabRead", Nil, Nil, 0)
    <2>2. r \in Record /\ ThreadOK(t, r)
      BY <1>3, NodeFacts
    <2>3. Become(t, r)
      BY <1>10 DEF CheckSuccTake, t
    <2> HIDE DEF r
    <2>4. th' \in [Threads -> Record] /\ ThreadsOK' /\ \A m \in Nodes : th'[Main(m)] = th[Main(m)]
      BY <1>4, <2>2, <2>3
    <2>5. BootOK' /\ OffIsIdle' /\ IndexOK'
      BY <1>10, <2>4, QuietOK DEF CheckSuccTake
    <2>6. succ' \in [Nodes -> Nodes] /\ finger' \in [Nodes -> [Index -> Refs]]
      BY <1>10, <2>1, NodeFacts, IDFacts DEF CheckSuccTake, IInv, NodeTypes, t, v
    <2> QED
      BY <1>10, <2>4, <2>5, <2>6 DEF CheckSuccTake, IInv, NodeTypes
  <1>11. CASE Stabilize(<<n, "cs">>)
    BY <1>1, <1>11, StabilizeOK DEF t
  <1> QED
    BY <1>6, <1>7, <1>8, <1>9, <1>10, <1>11 DEF CheckSuccessor

\* Departures.
LEMMA LeaveOK ==
  ASSUME IInv, NEW n \in Nodes, Leave(n)
  PROVE  IInv'
  <1> DEFINE t == <<n, "ctl">>
             v == th[t].sv
             a == th[t].at
  <1>1. t \in Threads /\ th[t] \in Record /\ ThreadOK(t, th[t]) /\ a \in Refs
    BY SetFacts DEF IInv, NodeTypes, ThreadsOK, Roles, Record
  <1>2. ASSUME NEW r \in Record, ThreadOK(t, r), Become(t, r)
        PROVE  /\ th' \in [Threads -> Record] /\ ThreadsOK'
               /\ \A m \in Nodes : th'[Main(m)] = th[Main(m)]
    BY <1>2, OtherMoveOK
  <1>3. ASSUME NEW p \in {"leaveSucc", "leavePred", "stop"}, v \in Nodes, th[t].st = "run"
        PROVE  LET r == [th[t] EXCEPT !.pc = p] IN r \in Record /\ ThreadOK(t, r)
    <2>1. p \in PCs \ LookupPCs
      BY DEF PCs, LookupPCs
    <2>2. p \notin HasTarget \cup HasIndex \cup UpperFinger
      BY DEF HasTarget, HasIndex, UpperFinger
    <2> QED
      BY <1>1, <1>3, <2>1, <2>2 DEF Record, ThreadOK
  <1>4. ASSUME th[t].pc \in {"leaveTransfer", "leaveSucc", "leavePred"}
        PROVE  v \in Nodes /\ th[t].st = "run"
    BY <1>1, <1>4 DEF ThreadOK, HasNode, LookupPCs
  <1>5. ASSUME NEW m \in Refs, NEW c \in Nodes, Notify(m, c)
        PROVE  losses' \in 0 .. MaxLosses /\ pred' \in [Nodes -> Refs]
    <2>1. PICK ok \in BOOLEAN :
            /\ Rpc(m, ok)
            /\ pred' = IF ok /\ NotifyAccepts(m, c) THEN [pred EXCEPT ![m] = c] ELSE pred
      BY <1>5 DEF Notify
    <2>2. losses' \in 0 .. MaxLosses
      BY <2>1, RpcOK DEF IInv, NodeTypes
    <2> QED
      BY <2>1, <2>2, NodeFacts DEF IInv, NodeTypes
  <1> HIDE DEF t, v, a
  <1>6. CASE LeaveRead(n)
    <2> DEFINE p == IF succ[n] # n THEN "leaveTransfer" ELSE "leavePred"
               r == Frame(p, pred[n], succ[n], 0)
    <2>1. p \in PCs \ LookupPCs /\ p \notin HasTarget \cup HasIndex \cup UpperFinger
      BY DEF PCs, LookupPCs, HasTarget, HasIndex, UpperFinger
    <2>2. succ[n] \in Nodes /\ succ[n] \in Refs /\ pred[n] \in Refs /\ 0 \in 0 .. Bits
      BY NodeFacts, BitsAssumption DEF IInv, NodeTypes
    <2>3. p \notin {"stabAsk", "stabAdopt", "stabNotify"}
      OBVIOUS
    <2>4. Become(t, r)
      BY <1>6 DEF LeaveRead, t
    <2> HIDE DEF p
    <2>5. r \in Record /\ ThreadOK(t, r)
      BY <1>1, <2>1, <2>2, <2>3, FrameOK
    <2> HIDE DEF r
    <2>6. th' \in [Threads -> Record] /\ ThreadsOK' /\ \A m \in Nodes : th'[Main(m)] = th[Main(m)]
      BY <1>2, <2>4, <2>5
    <2>7. BootOK' /\ OffIsIdle' /\ IndexOK'
      BY <1>6, <2>6, QuietOK DEF LeaveRead
    <2> QED
      BY <1>6, <2>6, <2>7 DEF LeaveRead, IInv, NodeTypes
  <1>7. CASE LeaveTransfer(n)
    <2> DEFINE r == [th[t] EXCEPT !.pc = "leaveSucc"]
    <2>1. v \in Nodes /\ r \in Record /\ ThreadOK(t, r)
      BY <1>3, <1>4, <1>7 DEF LeaveTransfer, t
    <2>2. Become(t, r)
      BY <1>7 DEF LeaveTransfer, t
    <2> HIDE DEF r
    <2>3. th' \in [Threads -> Record] /\ ThreadsOK' /\ \A m \in Nodes : th'[Main(m)] = th[Main(m)]
      BY <1>2, <2>1, <2>2
    <2>4. BootOK' /\ OffIsIdle' /\ IndexOK'
      BY <1>7, <2>3, QuietOK DEF LeaveTransfer
    <2>5. losses' \in 0 .. MaxLosses
      BY <1>7, RpcOK DEF LeaveTransfer, IInv, NodeTypes
    <2>6. store' \in [Nodes -> SUBSET Keys]
      <3>1. store \in [Nodes -> SUBSET Keys]
        BY DEF IInv, NodeTypes
      <3>2. store' = store \/ store' = [store EXCEPT ![v] = store[v] \cup store[n]]
        BY <1>7 DEF LeaveTransfer, HandleTransferKeys, t, v
      <3>3. store[v] \cup store[n] \in SUBSET Keys
        BY <2>1, <3>1
      <3> QED
        BY <2>1, <3>1, <3>2, <3>3
    <2> QED
      BY <1>7, <2>3, <2>4, <2>5, <2>6 DEF LeaveTransfer, IInv, NodeTypes
  <1>8. CASE LeaveNotifySucc(n)
    <2> DEFINE r == [th[t] EXCEPT !.pc = "leavePred"]
    <2>1. v \in Nodes /\ r \in Record /\ ThreadOK(t, r)
      BY <1>3, <1>4, <1>8 DEF LeaveNotifySucc, t
    <2>2. Become(t, r)
      BY <1>8 DEF LeaveNotifySucc, t
    <2> HIDE DEF r
    <2>3. th' \in [Threads -> Record] /\ ThreadsOK' /\ \A m \in Nodes : th'[Main(m)] = th[Main(m)]
      BY <1>2, <2>1, <2>2
    <2>4. BootOK' /\ OffIsIdle' /\ IndexOK'
      BY <1>8, <2>3, QuietOK DEF LeaveNotifySucc
    <2>5. losses' \in 0 .. MaxLosses /\ pred' \in [Nodes -> Refs]
      <3>1. CASE a # Nil
        <4>1. Notify(v, a) /\ a \in Nodes /\ v \in Refs
          BY <1>1, <1>8, <2>1, <3>1, NodeFacts DEF LeaveNotifySucc, t, v, a
        <4> QED
          BY <1>5, <4>1
      <3>2. CASE a = Nil
        BY <1>8, <3>2 DEF LeaveNotifySucc, IInv, NodeTypes, t, a
      <3> QED
        BY <3>1, <3>2
    <2> QED
      BY <1>8, <2>3, <2>4, <2>5 DEF LeaveNotifySucc, IInv, NodeTypes
  <1>9. CASE LeaveNotifyPred(n)
    <2> DEFINE r == [th[t] EXCEPT !.pc = "stop"]
    <2>1. v \in Nodes /\ r \in Record /\ ThreadOK(t, r)
      BY <1>3, <1>4, <1>9 DEF LeaveNotifyPred, t
    <2>2. Become(t, r)
      BY <1>9 DEF LeaveNotifyPred, t
    <2> HIDE DEF r
    <2>3. th' \in [Threads -> Record] /\ ThreadsOK' /\ \A m \in Nodes : th'[Main(m)] = th[Main(m)]
      BY <1>2, <2>1, <2>2
    <2>4. BootOK' /\ OffIsIdle' /\ IndexOK'
      BY <1>9, <2>3, QuietOK DEF LeaveNotifyPred
    <2>5. losses' \in 0 .. MaxLosses /\ pred' \in [Nodes -> Refs]
      <3>1. CASE a \notin {Nil, n}
        <4>1. Notify(a, v)
          BY <1>9, <3>1 DEF LeaveNotifyPred, t, v, a
        <4> QED
          BY <1>1, <1>5, <2>1, <4>1
      <3>2. CASE a \in {Nil, n}
        BY <1>9, <3>2 DEF LeaveNotifyPred, IInv, NodeTypes, t, a
      <3> QED
        BY <3>1, <3>2
    <2> QED
      BY <1>9, <2>3, <2>4, <2>5 DEF LeaveNotifyPred, IInv, NodeTypes
  <1>10. CASE Stop(n)
    <2>1. Become(t, Idle) /\ Idle \in Record /\ ThreadOK(t, Idle)
      BY <1>1, <1>10, IdleOK DEF Stop, t
    <2>2. th' \in [Threads -> Record] /\ ThreadsOK' /\ \A m \in Nodes : th'[Main(m)] = th[Main(m)]
      BY <1>2, <2>1
    <2>3. /\ life' \in [Nodes -> {"off", "joining", "member", "leaving", "gone", "refused"}]
          /\ life'[n] = "gone" /\ \A m \in Nodes \ {n} : life'[m] = life[m]
      BY <1>10 DEF Stop, IInv, NodeTypes
    <2>4. BootOK' /\ OffIsIdle'
      BY <1>10, <2>2, <2>3 DEF Stop, IInv, BootOK, OffIsIdle
    <2> QED
      BY <1>10, <2>2, <2>3, <2>4 DEF Stop, IInv, NodeTypes, IndexOK
  <1> QED
    BY <1>6, <1>7, <1>8, <1>9, <1>10 DEF Leave

\* Arrivals, the beginning of departures, and clients' writes.
LEMMA EnvironmentOK ==
  ASSUME IInv, NEW n \in Nodes,
         \/ CreateRing(n) \/ Spawn(n) \/ CrashNode(n) \/ KillNode(n)
         \/ Put(n)
  PROVE  IInv'
  <1> DEFINE Lives == {"off", "joining", "member", "leaving", "gone", "refused"}
  <1>1. \A m \in Nodes : Main(m) \in Threads /\ Main(m)[1] = m
    BY SetFacts DEF Main
  <1>2. ASSUME NEW l \in Lives, life' = [life EXCEPT ![n] = l]
        PROVE  life' \in [Nodes -> Lives] /\ life'[n] = l
               /\ \A m \in Nodes \ {n} : life'[m] = life[m]
    BY <1>2 DEF IInv, NodeTypes
  <1>3. CASE CreateRing(n)
    <2>1. life' \in [Nodes -> Lives] /\ life'[n] = "member"
          /\ \A m \in Nodes \ {n} : life'[m] = life[m]
      BY <1>2, <1>3 DEF CreateRing
    <2>2. UNCHANGED <<th, boot>>
      BY <1>3 DEF CreateRing
    <2>3. ThreadsOK' /\ BootOK' /\ OffIsIdle' /\ IndexOK'
      BY <1>3, <2>1, <2>2 DEF CreateRing, IInv, ThreadsOK, BootOK, OffIsIdle, IndexOK
    <2> QED
      BY <1>3, <2>1, <2>3, NodeFacts DEF CreateRing, IInv, NodeTypes
  <1>4. CASE Spawn(n)
    <2>1. PICK b \in Members : /\ boot' = [boot EXCEPT ![n] = b]
                               /\ Become(Main(n), Call("joinSucc", b, 0))
      BY <1>4 DEF Spawn
    <2> DEFINE r == Call("joinSucc", b, 0)
    <2>2. b \in Nodes /\ r \in Record /\ ThreadOK(Main(n), r)
      BY SetFacts, IDFacts, CallOK DEF LookupPCs
    <2> HIDE DEF r
    <2>3. /\ th' \in [Threads -> Record] /\ ThreadsOK'
          /\ \A u \in Threads \ {Main(n)} : th'[u] = th[u]
      BY <1>1, <2>1, <2>2, BecomeOK DEF IInv, NodeTypes, r
    <2>4. life' \in [Nodes -> Lives] /\ life'[n] = "joining"
          /\ \A m \in Nodes \ {n} : life'[m] = life[m]
      BY <1>2, <1>4 DEF Spawn
    <2>5. boot' \in [Nodes -> Refs] /\ boot'[n] = b /\ \A m \in Nodes \ {n} : boot'[m] = boot[m]
      BY <2>1, <2>2, NodeFacts DEF IInv, NodeTypes
    <2>6. \A m \in Nodes \ {n} : Main(m) \in Threads \ {Main(n)}
      BY <1>1
    <2>7. BootOK' /\ OffIsIdle'
      BY <2>2, <2>3, <2>4, <2>5, <2>6 DEF IInv, BootOK, OffIsIdle
    <2> QED
      BY <1>4, <2>3, <2>4, <2>5, <2>7 DEF Spawn, IInv, NodeTypes, IndexOK
  <1>5. CASE CrashNode(n) \/ KillNode(n)
    <2> DEFINE t == <<n, "ctl">>
    <2>1. PICK q \in {"stop", "leaveRead"} : Become(t, Frame(q, Nil, Nil, 0))
      BY <1>5 DEF CrashNode, KillNode
    <2>2. t \in Threads /\ q \in PCs \ LookupPCs
          /\ q \notin HasNode \cup HasTarget \cup HasIndex \cup UpperFinger
      BY SetFacts DEF PCs, LookupPCs, HasNode, HasTarget, HasIndex, UpperFinger, Roles
    <2>3. Frame(q, Nil, Nil, 0) \in Record /\ ThreadOK(t, Frame(q, Nil, Nil, 0))
      BY <2>2, NodeFacts, BitsAssumption, FrameOK
    <2>4. th' \in [Threads -> Record] /\ ThreadsOK' /\ \A m \in Nodes : th'[Main(m)] = th[Main(m)]
      BY <2>1, <2>3, OtherMoveOK
    <2>5. life' \in [Nodes -> Lives] /\ life'[n] = "leaving"
          /\ \A m \in Nodes \ {n} : life'[m] = life[m]
      BY <1>2, <1>5 DEF CrashNode, KillNode
    <2>6. UNCHANGED <<boot, succ, pred, finger, anti, fingerIdx, antiIdx, succList, store,
                      ticks, losses, lst>>
      BY <1>5 DEF CrashNode, KillNode
    <2>7. BootOK' /\ OffIsIdle'
      BY <2>4, <2>5, <2>6 DEF IInv, BootOK, OffIsIdle
    <2> QED
      BY <2>4, <2>5, <2>6, <2>7 DEF IInv, NodeTypes, IndexOK
  <1>6. ASSUME NEW k \in Keys, FindHandler(n, k) PROVE IInv'
    BY <1>6 DEF FindHandler, IInv, NodeTypes, ThreadsOK, BootOK, OffIsIdle, IndexOK
  <1>7. ASSUME NEW k \in Keys, PutEntry(n, k) PROVE IInv'
    <2>1. store' \in [Nodes -> SUBSET Keys]
      <3>1. store \in [Nodes -> SUBSET Keys] /\ store' = [store EXCEPT ![n] = @ \cup {k}]
        BY <1>7 DEF PutEntry, IInv, NodeTypes
      <3>2. store[n] \cup {k} \in SUBSET Keys
        BY <3>1
      <3> QED
        BY <3>1, <3>2
    <2> QED
      BY <1>7, <2>1 DEF PutEntry, IInv, NodeTypes, ThreadsOK, BootOK, OffIsIdle, IndexOK
  <1> QED
    BY <1>3, <1>4, <1>5, <1>6, <1>7 DEF Put

\* Every step keeps the invariant.
LEMMA NextOK == IInv /\ [Next]_vars => IInv'
  <1> SUFFICES ASSUME IInv, [Next]_vars PROVE IInv'
    OBVIOUS
  <1>1. CASE UNCHANGED vars
    BY <1>1 DEF vars, IInv, NodeTypes, ThreadsOK, BootOK, OffIsIdle, IndexOK
  <1>2. ASSUME NEW n \in Nodes, MainStep(n) PROVE IInv'
    BY <1>2, SetFacts, FindSuccessorOK, JoinOK, StabilizeOK, FixFingersOK DEF MainStep
  <1> QED
    BY <1>1, <1>2, EnvironmentOK, CheckPredecessorOK, CheckSuccessorOK, LeaveOK DEF Next

\* The invariant holds throughout.
LEMMA Inductive == Spec => []IInv
  BY InitOK, NextOK, PTL DEF Spec

\* Clients write to nodes, whatever became of the node in between.
ClientsOK == puts \subseteq Nodes \X Keys /\ late \subseteq Nodes \X Keys

\* Only a client's two steps touch what is known of its writes.
LEMMA ClientsStep == ClientsOK /\ [Next]_vars => ClientsOK'
  <1> SUFFICES ASSUME ClientsOK, [Next]_vars PROVE ClientsOK'
    OBVIOUS
  <1>1. ASSUME UNCHANGED client PROVE ClientsOK'
    BY <1>1 DEF client, ClientsOK
  <1>2. ASSUME NEW n \in Nodes,
               \/ CreateRing(n) \/ Spawn(n) \/ CrashNode(n) \/ KillNode(n)
               \/ MainStep(n) \/ CheckPredecessor(n) \/ CheckSuccessor(n) \/ Leave(n)
        PROVE  UNCHANGED client
    BY <1>2 DEF CreateRing, Spawn, CrashNode, KillNode, MainStep, CheckPredecessor,
                CheckSuccessor, Leave
  <1>3. ASSUME NEW n \in Nodes, Put(n) PROVE ClientsOK'
    BY <1>3 DEF Put, FindHandler, PutEntry, ClientsOK
  <1>4. CASE UNCHANGED vars
    BY <1>4 DEF vars, client, ClientsOK
  <1> QED
    BY <1>1, <1>2, <1>3, <1>4 DEF Next

-----------------------------------------------------------------------------
(* The theorems.                                                           *)

\* Type correctness, in particular: the successor of a node that was created is
\* a node and never nil again, in every interleaving of joins, stabilization,
\* failure detection, crashes, departures and lost RPCs.
THEOREM TypeCorrect == Spec => []TypeOK
  <1>1. Init => ClientsOK
    BY DEF Init, ClientsOK
  <1>2. IInv /\ ClientsOK => TypeOK
    BY DEF IInv, ClientsOK, TypeOK
  <1> QED
    BY <1>1, <1>2, Inductive, ClientsStep, PTL DEF Spec

\* The ways a step may write the successor and the finger table of a node.
LEMMA WritesBoth ==
  ASSUME IInv, SuccessorIsFinger0, NEW p \in Nodes, NEW x \in Nodes,
         \/ UNCHANGED <<succ, finger>>
         \/ succ' = [succ EXCEPT ![p] = x] /\ finger' = [finger EXCEPT ![p][0] = x]
         \/ UNCHANGED succ /\ \E i \in Index \ {0} : finger' = [finger EXCEPT ![p][i] = x]
  PROVE  SuccessorIsFinger0'
  <1> USE IDFacts, NodeFacts
  <1>1. CASE UNCHANGED <<succ, finger>>
    BY <1>1 DEF SuccessorIsFinger0
  <1>2. CASE succ' = [succ EXCEPT ![p] = x] /\ finger' = [finger EXCEPT ![p][0] = x]
    BY <1>2 DEF SuccessorIsFinger0, IInv, NodeTypes
  <1>3. ASSUME NEW i \in Index \ {0}, UNCHANGED succ, finger' = [finger EXCEPT ![p][i] = x]
        PROVE  SuccessorIsFinger0'
    BY <1>3 DEF SuccessorIsFinger0, IInv, NodeTypes
  <1> QED
    BY <1>1, <1>2, <1>3

\* Every step that writes the successor or finger 0 writes both.
LEMMA Finger0Step == IInv /\ SuccessorIsFinger0 /\ [Next]_vars => SuccessorIsFinger0'
  <1> SUFFICES ASSUME IInv, SuccessorIsFinger0, [Next]_vars PROVE SuccessorIsFinger0'
    OBVIOUS
  <1>1. ASSUME UNCHANGED <<succ, finger>> PROVE SuccessorIsFinger0'
    BY <1>1 DEF SuccessorIsFinger0
  <1>2. ASSUME NEW t \in Threads
        PROVE  t[1] \in Nodes /\ th[t] \in Record /\ ThreadOK(t, th[t])
    BY SetFacts DEF IInv, NodeTypes, ThreadsOK
  <1>3. ASSUME NEW t \in Threads, Stabilize(t) PROVE SuccessorIsFinger0'
    <2>1. CASE StabAlone(t)
      BY <1>2, <2>1, WritesBoth DEF StabAlone
    <2>2. CASE StabAdopt(t)
      <3>1. th[t].sv \in Nodes
        BY <1>2, <2>2 DEF StabAdopt, ThreadOK, HasNode
      <3> QED
        BY <1>2, <2>2, <3>1, WritesBoth DEF StabAdopt
    <2> QED
      BY <1>1, <1>3, <2>1, <2>2
      DEF Stabilize, StabRead, StabAsk, StabNotify, FetchSuccessorList, StoreSuccessorList
  <1>4. ASSUME NEW n \in Nodes, Join(n) PROVE SuccessorIsFinger0'
    <2> DEFINE t == Main(n)
               v == th[t].sv
               i == th[t].ix
    <2>1. th[t] \in Record /\ ThreadOK(t, th[t])
      BY <1>2, SetFacts
    <2> HIDE DEF t, v, i
    <2>2. CASE JoinFound(n)
      <3>1. v \in Nodes
        BY <2>1, <2>2 DEF JoinFound, Ended, ThreadOK, t, v
      <3> QED
        BY <2>2, <3>1, WritesBoth DEF JoinFound, t, v
    <2>3. CASE InitFingerFound(n)
      <3>1. v \in Nodes /\ i \in Index
        BY <2>1, <2>3 DEF InitFingerFound, Ended, ThreadOK, LookupPCs, t, v, i
      <3>2. /\ finger' = [finger EXCEPT ![n][i] = v]
            /\ succ' = IF i = 0 THEN [succ EXCEPT ![n] = v] ELSE succ
        BY <2>3 DEF InitFingerFound, t, v, i
      <3> QED
        BY <3>1, <3>2, WritesBoth
    <2>4. CASE InitFingerCopy(n)
      <3>1. v \in Nodes /\ i \in Index \ {0}
        BY <2>1, <2>4 DEF InitFingerCopy, ThreadOK, HasNode, HasIndex, UpperFinger, t, v, i
      <3>2. finger' = [finger EXCEPT ![n][i] = v] /\ UNCHANGED succ
        BY <2>4 DEF InitFingerCopy, t, v, i
      <3> QED
        BY <3>1, <3>2, WritesBoth
    <2>5. CASE UpdateFingerTable(n)
      <3> DEFINE p == th[t].at
      <3>1. p \in Nodes /\ i \in Index
        BY <2>1, <2>5 DEF UpdateFingerTable, ThreadOK, HasTarget, HasIndex, t, i
      <3>2. \/ UNCHANGED <<succ, finger>>
            \/ /\ finger' = [finger EXCEPT ![p][i] = n]
               /\ succ' = IF i = 0 THEN [succ EXCEPT ![p] = n] ELSE succ
        BY <2>5 DEF UpdateFingerTable, t, i
      <3> QED
        BY <3>1, <3>2, WritesBoth
    <2> QED
      BY <1>1, <1>4, <2>2, <2>3, <2>4, <2>5
      DEF Join, JoinFailed, InitFingerFailed, InitFingerNext, AntiFound, AntiFailed, AntiAsk,
          AntiStore, OthersFound, OthersFailed, MigrateKeys, PullKeys
  <1>5. ASSUME NEW n \in Nodes, FixFingerDone(n) PROVE SuccessorIsFinger0'
    <2> DEFINE t == Main(n)
    <2>1. th[t] \in Record /\ ThreadOK(t, th[t])
      BY <1>2, SetFacts
    <2>2. th[t].ix \in Index \ {0} /\ (th[t].st = "found" => th[t].sv \in Nodes)
      BY <1>5, <2>1 DEF FixFingerDone, Ended, ThreadOK, LookupPCs, UpperFinger
    <2>3. /\ UNCHANGED succ
          /\ \/ UNCHANGED finger
             \/ /\ th[t].st = "found"
                /\ finger' = [finger EXCEPT ![n][th[t].ix] = th[t].sv]
      BY <1>5 DEF FixFingerDone
    <2> HIDE DEF t
    <2> QED
      BY <2>2, <2>3, WritesBoth
  <1>6. ASSUME NEW n \in Nodes, CheckSuccTake(n) PROVE SuccessorIsFinger0'
    <2> DEFINE t == <<n, "cs">>
    <2>1. th[t] \in Record /\ ThreadOK(t, th[t])
      BY <1>2, SetFacts DEF Roles
    <2>2. th[t].sv \in Nodes
      BY <1>6, <2>1 DEF CheckSuccTake, ThreadOK, HasNode
    <2> QED
      BY <1>6, <2>2, WritesBoth DEF CheckSuccTake
  <1>7. ASSUME NEW n \in Nodes, CreateRing(n) PROVE SuccessorIsFinger0'
    BY <1>7, IDFacts DEF CreateRing, SuccessorIsFinger0, IInv, NodeTypes
  <1>8. ASSUME NEW n \in Nodes, MainStep(n) PROVE SuccessorIsFinger0'
    <2>1. Main(n) \in Threads
      BY SetFacts
    <2> QED
      BY <1>1, <1>3, <1>4, <1>5, <1>8, <2>1
      DEF MainStep, FindSuccessor, FindRead, FindRoute, FindFail, FixFinger
  <1>9. ASSUME NEW n \in Nodes, CheckPredecessor(n) \/ Leave(n) PROVE SuccessorIsFinger0'
    BY <1>1, <1>9 DEF CheckPredecessor, CheckPredRead, CheckPredPing, Leave, LeaveRead,
                      LeaveTransfer, LeaveNotifySucc, LeaveNotifyPred, Stop
  <1>10. ASSUME NEW n \in Nodes, CheckSuccessor(n) PROVE SuccessorIsFinger0'
    <2>1. <<n, "cs">> \in Threads
      BY SetFacts DEF Roles
    <2> QED
      BY <1>1, <1>3, <1>6, <1>10, <2>1
      DEF CheckSuccessor, CheckSuccRead, CheckSuccPing, CheckSuccWalk, CheckSuccGiveUp
  <1>11. ASSUME NEW n \in Nodes, Spawn(n) \/ CrashNode(n) \/ KillNode(n)
                                 \/ Put(n)
         PROVE  SuccessorIsFinger0'
    BY <1>1, <1>11 DEF Spawn, CrashNode, KillNode, Put, FindHandler, PutEntry
  <1>12. CASE UNCHANGED vars
    BY <1>1, <1>12 DEF vars
  <1> QED
    BY <1>7, <1>8, <1>9, <1>10, <1>11, <1>12 DEF Next

\* Routing and stabilization never work from two different successors: finger 0
\* and the successor agree whenever finger 0 is set.
THEOREM Finger0Agrees == Spec => []SuccessorIsFinger0
  <1>1. Init => SuccessorIsFinger0
    BY IDFacts, NodeFacts DEF Init, SuccessorIsFinger0
  <1> QED
    BY <1>1, Inductive, Finger0Step, PTL DEF Spec


-----------------------------------------------------------------------------
(* The founder of the ring.                                                *)

\* The program points the founder's main thread can be at: it never joins, and
\* Stabilize returns early.
FounderPCs == {"idle", "stabAlone", "fixFinger", "fixAnti", "antiPred", "antiStore"}

\* First is its own successor in both places, and no thread of First is on a
\* path that would change that.
FounderInv ==
  /\ succ[First] = First /\ finger[First][0] = First
  /\ life[First] \notin {"off", "joining"}
  /\ th[Main(First)].pc \in FounderPCs
  /\ th[<<First, "cs">>].pc = "idle"

\* A step that leaves First's pointers, life and two threads alone.
LEMMA FounderFrame ==
  ASSUME FounderInv,
         succ'[First] = succ[First], finger'[First][0] = finger[First][0],
         life'[First] = life[First] \/ life'[First] \in {"leaving", "gone"},
         th'[Main(First)] = th[Main(First)] \/ th'[Main(First)].pc \in FounderPCs,
         th'[<<First, "cs">>] = th[<<First, "cs">>]
  PROVE  FounderInv'
  BY DEF FounderInv

\* Every step keeps the founder as it is.
LEMMA FounderStep == IInv /\ FounderInv /\ [Next]_vars => FounderInv'
  <1> SUFFICES ASSUME IInv, FounderInv, [Next]_vars PROVE FounderInv'
    OBVIOUS
  <1> USE NodeFacts, IDFacts
  <1> DEFINE M == Main(First)
             C == <<First, "cs">>
  <1>1. M \in Threads /\ C \in Threads /\ M # C
    BY SetFacts DEF Roles, Main
  <1>2. /\ succ \in [Nodes -> Nodes] /\ finger \in [Nodes -> [Index -> Refs]]
        /\ life \in [Nodes -> {"off", "joining", "member", "leaving", "gone", "refused"}]
        /\ th \in [Threads -> Record]
    BY DEF IInv, NodeTypes
  <1>3. ASSUME NEW n \in Nodes \ {First}
        PROVE  Main(n) \in Threads /\ Main(n) \notin {M, C}
               /\ \A r \in Roles : <<n, r>> \in Threads /\ <<n, r>> \notin {M, C}
    BY SetFacts DEF Main
  <1>4. ASSUME NEW n \in Nodes, NEW i \in Index, NEW x, n # First \/ i # 0
        PROVE  [finger EXCEPT ![n][i] = x][First][0] = finger[First][0]
    BY <1>2, <1>4
  <1>5. ASSUME NEW n \in Nodes \ {First}, NEW x
        PROVE  /\ [succ EXCEPT ![n] = x][First] = succ[First]
               /\ [life EXCEPT ![n] = x][First] = life[First]
               /\ [finger EXCEPT ![n] = x][First] = finger[First]
    BY <1>2, <1>5
  <1>6. ASSUME NEW t \in Threads \ {M, C}, NEW r, Become(t, r)
        PROVE  th'[M] = th[M] /\ th'[C] = th[C]
    BY <1>1, <1>2, <1>6 DEF Become
  <1>7. ASSUME NEW t \in Threads \ {M, C}, t[1] # First, Stabilize(t) PROVE FounderInv'
    <2> t[1] \in Nodes \ {First}
      BY <1>7, SetFacts
    <2>1. \E r : Become(t, r)
      BY <1>7 DEF Stabilize, StabRead, StabAlone, StabAsk, StabAdopt, StabNotify,
                  FetchSuccessorList, StoreSuccessorList
    <2>2. succ'[First] = succ[First] /\ finger'[First][0] = finger[First][0] /\ UNCHANGED life
      <3>1. CASE StabAlone(t) \/ StabAdopt(t)
        <4>1. PICK x : /\ succ' = [succ EXCEPT ![t[1]] = x]
                       /\ finger' = [finger EXCEPT ![t[1]][0] = x]
                       /\ UNCHANGED life
          BY <3>1 DEF StabAlone, StabAdopt
        <4> QED
          BY <1>2, <4>1
      <3>2. CASE UNCHANGED <<succ, finger, life>>
        BY <3>2
      <3> QED
        BY <1>7, <3>1, <3>2 DEF Stabilize, StabRead, StabAsk, StabNotify,
                                FetchSuccessorList, StoreSuccessorList
    <2> QED
      BY <1>6, <2>1, <2>2, FounderFrame
  <1>8. ASSUME NEW n \in Nodes \ {First}, Join(n) PROVE FounderInv'
    <2>1. \E r : Become(Main(n), r)
      BY <1>8 DEF Join, JoinFound, JoinFailed, InitFingerFound, InitFingerFailed,
          InitFingerNext, InitFingerCopy, AntiFound, AntiFailed, AntiAsk, AntiStore,
          OthersFound, OthersFailed, UpdateFingerTable, MigrateKeys, PullKeys
    <2>2. th'[M] = th[M] /\ th'[C] = th[C]
      BY <1>3, <1>6, <2>1
    <2>3. life'[First] = life[First]
      BY <1>5, <1>8 DEF Join, JoinFound, JoinFailed, InitFingerFound, InitFingerFailed,
          InitFingerNext, InitFingerCopy, AntiFound, AntiFailed, AntiAsk, AntiStore,
          OthersFound, OthersFailed, UpdateFingerTable, MigrateKeys, PullKeys
    <2>4. th[Main(n)] \in Record /\ ThreadOK(Main(n), th[Main(n)])
      BY <1>3 DEF IInv, NodeTypes, ThreadsOK
    <2>5. CASE UpdateFingerTable(n)
      <3> DEFINE p == th[Main(n)].at
                 i == th[Main(n)].ix
      <3>1. p \in Nodes /\ i \in Index
        BY <2>4, <2>5 DEF UpdateFingerTable, ThreadOK, HasTarget, HasIndex
      <3>2. p = First /\ i = 0 => ~ShouldUpdate(p, n, i)
        BY DEF ShouldUpdate, FounderInv, IsInInterval
      <3>3. \/ UNCHANGED <<succ, finger>>
            \/ /\ ShouldUpdate(p, n, i)
               /\ finger' = [finger EXCEPT ![p][i] = n]
               /\ succ' = IF i = 0 THEN [succ EXCEPT ![p] = n] ELSE succ
        BY <2>5 DEF UpdateFingerTable
      <3> HIDE DEF p, i
      <3>4. succ'[First] = succ[First] /\ finger'[First][0] = finger[First][0]
        <4>1. CASE UNCHANGED <<succ, finger>>
          BY <4>1
        <4>2. CASE ShouldUpdate(p, n, i) /\ finger' = [finger EXCEPT ![p][i] = n]
                   /\ succ' = IF i = 0 THEN [succ EXCEPT ![p] = n] ELSE succ
          <5>1. p # First \/ i # 0
            BY <3>2, <4>2
          <5>2. finger'[First][0] = finger[First][0]
            BY <1>4, <3>1, <4>2, <5>1
          <5>3. succ'[First] = succ[First]
            BY <1>5, <3>1, <4>2, <5>1
          <5> QED
            BY <5>2, <5>3
        <4> QED
          BY <3>3, <4>1, <4>2
      <3> QED
        BY <2>2, <2>3, <3>4, FounderFrame
    <2>6. CASE JoinFound(n) \/ InitFingerFound(n) \/ InitFingerCopy(n)
      <3>1. succ'[First] = succ[First] /\ finger'[First] = finger[First]
        BY <1>2, <2>6 DEF JoinFound, InitFingerFound, InitFingerCopy
      <3> QED
        BY <2>2, <2>3, <3>1, FounderFrame
    <2>7. CASE UNCHANGED <<succ, finger>>
      BY <2>2, <2>3, <2>7, FounderFrame
    <2> QED
      BY <1>8, <2>5, <2>6, <2>7
      DEF Join, JoinFailed, InitFingerFailed, InitFingerNext, AntiFound, AntiFailed, AntiAsk,
          AntiStore, OthersFound, OthersFailed, MigrateKeys, PullKeys
  <1>9. ASSUME MainStep(First) PROVE FounderInv'
    <2>1. /\ th[M] \in Record /\ ThreadOK(M, th[M]) /\ th[M].pc \in FounderPCs
          /\ life[First] # "joining"
      BY <1>1 DEF IInv, NodeTypes, ThreadsOK, FounderInv
    <2>2. ASSUME NEW r, Become(M, r), r.pc \in FounderPCs, life' = life,
                 succ'[First] = succ[First], finger'[First][0] = finger[First][0]
          PROVE  FounderInv'
      <3>1. th'[M] = r /\ th'[C] = th[C]
        BY <1>1, <1>2, <2>2 DEF Become
      <3> QED
        BY <2>2, <3>1, FounderFrame
    <2>3. CASE FindSuccessor(M)
      <3>1. CASE FindRead(M)
        <4> DEFINE v == succ[th[M].at]
                   st == IF IsInIntervalRightClosed(LookupID(M), th[M].at, v)
                         THEN "found" ELSE "route"
        <4>1. Become(M, [th[M] EXCEPT !.sv = v, !.st = st]) /\ UNCHANGED <<life, succ, finger>>
          BY <3>1 DEF FindRead
        <4> HIDE DEF v, st
        <4>2. [th[M] EXCEPT !.sv = v, !.st = st].pc = th[M].pc
          BY <2>1 DEF Record
        <4> QED
          BY <2>1, <2>2, <4>1, <4>2
      <3>2. CASE FindRoute(M)
        <4> DEFINE c == ClosestPrecedingNode(th[M].at, LookupID(M))
                   r1 == [th[M] EXCEPT !.st = "found"]
                   r2 == [th[M] EXCEPT !.st = "read", !.at = c, !.sv = Nil]
        <4>1. Become(M, IF c = th[M].at THEN r1 ELSE r2) /\ UNCHANGED <<life, succ, finger>>
          BY <3>2 DEF FindRoute
        <4>2. r1.pc = th[M].pc /\ r2.pc = th[M].pc
          <5> HIDE DEF c
          <5> QED
            BY <2>1 DEF Record
        <4> HIDE DEF c, r1, r2
        <4>3. (IF c = th[M].at THEN r1 ELSE r2).pc = th[M].pc
          BY <4>2
        <4> QED
          BY <2>1, <2>2, <4>1, <4>3
      <3>3. CASE FindFail(M)
        <4>1. [th[M] EXCEPT !.st = "failed"].pc = th[M].pc
          BY <2>1 DEF Record
        <4> QED
          BY <2>1, <2>2, <3>3, <4>1 DEF FindFail
      <3> QED
        BY <2>3, <3>1, <3>2, <3>3 DEF FindSuccessor
    <2>4. CASE Join(First)
      <3>1. CASE AntiFound(First) \/ AntiFailed(First) \/ AntiAsk(First) \/ AntiStore(First)
        <4>1. th[M].pc # "initAnti"
          BY <2>1 DEF FounderPCs
        <4>2. \/ Become(M, Idle)
              \/ \E p \in {"antiPred", "antiStore"} : \E v, i : Become(M, Frame(p, Nil, v, i))
          <5>1. CASE AntiFound(First)
            BY <5>1 DEF AntiFound
          <5>2. CASE AntiFailed(First)
            BY <4>1, <5>2 DEF AntiFailed, Ended
          <5>3. CASE AntiAsk(First)
            BY <5>3 DEF AntiAsk
          <5>4. CASE AntiStore(First)
            BY <2>1, <5>4 DEF AntiStore
          <5> QED
            BY <3>1, <5>1, <5>2, <5>3, <5>4
        <4>3. UNCHANGED <<life, succ, finger>>
          BY <3>1 DEF AntiFound, AntiFailed, AntiAsk, AntiStore
        <4>4. Idle.pc = "idle" /\ \A p, v, i : Frame(p, Nil, v, i).pc = p
          BY DEF Idle, Frame
        <4> QED
          BY <2>2, <4>2, <4>3, <4>4 DEF FounderPCs
      <3>2. CASE ~(AntiFound(First) \/ AntiFailed(First) \/ AntiAsk(First) \/ AntiStore(First))
        BY <2>1, <2>4, <3>2
        DEF Join, JoinFound, JoinFailed, InitFingerFound, InitFingerFailed, InitFingerNext,
            InitFingerCopy, OthersFound, OthersFailed, UpdateFingerTable, MigrateKeys,
            PullKeys, Ended, FounderPCs
      <3> QED
        BY <3>1, <3>2
    <2>5. CASE Stabilize(M)
      <3>1. StabRead(M) \/ StabAlone(M)
        BY <2>1, <2>5 DEF Stabilize, StabAsk, StabAdopt, StabNotify, FetchSuccessorList,
                          StoreSuccessorList, FounderPCs
      <3>2. M[1] = First
        BY DEF Main
      <3>3. CASE StabRead(M)
        <4>1. Become(M, Frame("stabAlone", Nil, Nil, 0)) /\ UNCHANGED <<life, succ, finger>>
          BY <3>2, <3>3 DEF StabRead, Alone, FounderInv
        <4> QED
          BY <2>2, <4>1 DEF Frame, FounderPCs
      <3>4. CASE StabAlone(M)
        <4>1. succ'[First] = succ[First] /\ finger'[First][0] = finger[First][0] /\ life' = life
          BY <1>2, <3>2, <3>4 DEF StabAlone, FounderInv
        <4> QED
          BY <2>2, <3>4, <4>1 DEF StabAlone, Idle, Frame, FounderPCs
      <3> QED
        BY <3>1, <3>3, <3>4
    <2>6. CASE FixFinger(First)
      BY <2>2, <2>6 DEF FixFinger, Call, FounderPCs
    <2>7. CASE FixFingerDone(First)
      <3>1. th[M].ix \in Index \ {0}
        BY <2>1, <2>7 DEF FixFingerDone, Ended, ThreadOK, LookupPCs, UpperFinger
      <3>2. finger'[First][0] = finger[First][0]
        BY <1>2, <2>7, <3>1 DEF FixFingerDone
      <3> QED
        BY <2>2, <2>7, <3>2 DEF FixFingerDone, Call, FounderPCs
    <2> QED
      BY <1>9, <2>3, <2>4, <2>5, <2>6, <2>7 DEF MainStep
  <1>10. ASSUME NEW n \in Nodes \ {First}, MainStep(n) PROVE FounderInv'
    <2>1. Main(n) \in Threads \ {M, C} /\ Main(n)[1] # First
      BY <1>3 DEF Main
    <2>2. CASE FindSuccessor(Main(n)) \/ FixFinger(n)
      <3>1. (\E r : Become(Main(n), r)) /\ UNCHANGED <<life, succ, finger>>
        BY <2>2 DEF FindSuccessor, FindRead, FindRoute, FindFail, FixFinger
      <3> QED
        BY <1>6, <2>1, <3>1, FounderFrame
    <2>3. CASE FixFingerDone(n)
      <3>1. (\E r : Become(Main(n), r)) /\ UNCHANGED <<life, succ>>
        BY <2>3 DEF FixFingerDone
      <3>2. finger'[First] = finger[First]
        BY <1>2, <2>3 DEF FixFingerDone
      <3> QED
        BY <1>6, <2>1, <3>1, <3>2, FounderFrame
    <2> QED
      BY <1>7, <1>8, <1>10, <2>1, <2>2, <2>3 DEF MainStep
  <1>11. ASSUME NEW n \in Nodes, CheckPredecessor(n) \/ Leave(n) PROVE FounderInv'
    <2>1. /\ (\E t \in {<<n, "cp">>, <<n, "ctl">>} : \E r : Become(t, r))
          /\ UNCHANGED <<succ, finger>>
      BY <1>11 DEF CheckPredecessor, CheckPredRead, CheckPredPing, Leave, LeaveRead,
                   LeaveTransfer, LeaveNotifySucc, LeaveNotifyPred, Stop
    <2>2. <<n, "cp">> \in Threads \ {M, C} /\ <<n, "ctl">> \in Threads \ {M, C}
      BY SetFacts DEF Roles, Main
    <2>3. UNCHANGED life \/ life' = [life EXCEPT ![n] = "gone"]
      BY <1>11 DEF CheckPredecessor, CheckPredRead, CheckPredPing, Leave, LeaveRead,
                   LeaveTransfer, LeaveNotifySucc, LeaveNotifyPred, Stop
    <2>4. life'[First] = life[First] \/ life'[First] = "gone"
      BY <1>2, <2>3
    <2> QED
      BY <1>6, <2>1, <2>2, <2>4, FounderFrame
  <1>12. ASSUME NEW n \in Nodes, CheckSuccessor(n) PROVE FounderInv'
    <2>1. n # First
      BY <1>12 DEF CheckSuccessor, CheckSuccRead, CheckSuccPing, CheckSuccWalk,
          CheckSuccGiveUp, CheckSuccTake, Stabilize, StabRead, StabAlone, StabAsk, StabAdopt,
          StabNotify, FetchSuccessorList, StoreSuccessorList, FounderInv
    <2>2. <<n, "cs">> \in Threads \ {M, C} /\ <<n, "cs">>[1] # First
      BY <1>3, <2>1 DEF Roles
    <2>3. CASE Stabilize(<<n, "cs">>)
      BY <1>7, <2>2, <2>3
    <2>4. CASE CheckSuccTake(n)
      <3>1. (\E r : Become(<<n, "cs">>, r)) /\ UNCHANGED life
        BY <2>4 DEF CheckSuccTake
      <3>2. succ'[First] = succ[First] /\ finger'[First] = finger[First]
        BY <1>2, <2>1, <2>4 DEF CheckSuccTake
      <3> QED
        BY <1>6, <2>2, <3>1, <3>2, FounderFrame
    <2>5. CASE CheckSuccRead(n) \/ CheckSuccPing(n) \/ CheckSuccWalk(n) \/ CheckSuccGiveUp(n)
      <3>1. /\ UNCHANGED th \/ \E r : Become(<<n, "cs">>, r)
            /\ UNCHANGED <<life, succ, finger>>
        BY <2>5 DEF CheckSuccRead, CheckSuccPing, CheckSuccWalk, CheckSuccGiveUp
      <3> QED
        BY <1>6, <2>2, <3>1, FounderFrame
    <2> QED
      BY <1>12, <2>3, <2>4, <2>5 DEF CheckSuccessor
  <1>13. ASSUME NEW n \in Nodes, CreateRing(n) \/ Spawn(n) PROVE FounderInv'
    <2>1. n # First
      BY <1>13 DEF CreateRing, Spawn, FounderInv
    <2>2. UNCHANGED th \/ \E r : Become(Main(n), r)
      BY <1>13 DEF CreateRing, Spawn
    <2>3. succ'[First] = succ[First] /\ finger'[First] = finger[First] /\ life'[First] = life[First]
      BY <1>2, <1>13, <2>1 DEF CreateRing, Spawn
    <2> QED
      BY <1>3, <1>6, <2>1, <2>2, <2>3, FounderFrame
  <1>14. ASSUME NEW n \in Nodes, CrashNode(n) \/ KillNode(n) PROVE FounderInv'
    <2>1. <<n, "ctl">> \in Threads \ {M, C}
      BY SetFacts DEF Roles, Main
    <2>2. (\E r : Become(<<n, "ctl">>, r)) /\ UNCHANGED <<succ, finger>>
      BY <1>14 DEF CrashNode, KillNode
    <2>3. life'[First] = life[First] \/ life'[First] = "leaving"
      BY <1>2, <1>14 DEF CrashNode, KillNode
    <2> QED
      BY <1>6, <2>1, <2>2, <2>3, FounderFrame
  <1>15. ASSUME NEW n \in Nodes, Put(n) PROVE FounderInv'
    BY <1>15 DEF Put, FindHandler, PutEntry, FounderInv
  <1>16. CASE UNCHANGED vars
    BY <1>16 DEF vars, FounderInv
  <1> QED
    BY <1>9, <1>10, <1>11, <1>12, <1>13, <1>14, <1>15, <1>16 DEF Next

\* The node that founded the ring stays its own successor for ever, whoever
\* joins, leaves, crashes or loses a message.
THEOREM FounderStaysAlone == Spec => []FounderKeepsItself
  <1>1. Init => FounderInv
    <2>1. Main(First) \in Threads /\ <<First, "cs">> \in Threads /\ Idle.pc = "idle"
      BY NodeFacts, SetFacts DEF Roles, Idle, Frame
    <2> QED
      BY <2>1, IDFacts, NodeFacts DEF Init, FounderInv, FounderPCs
  <1>2. FounderInv => FounderKeepsItself
    BY DEF FounderInv, FounderKeepsItself
  <1> QED
    BY <1>1, <1>2, Inductive, FounderStep, PTL DEF Spec

-----------------------------------------------------------------------------
(* Lookups and predecessors.                                               *)

\* A thread about to route past a node does nothing else next: the steps of
\* the other threads leave its call alone.
LEMMA RoutingThread ==
  ASSUME IInv, [Next]_vars, NEW t \in Threads, th[t].st = "route"
  PROVE  FindRoute(t) \/ th'[t] = th[t]
  <1>1. /\ th \in [Threads -> Record]
        /\ \A u \in Threads : ThreadOK(u, th[u])
        /\ \A n \in Nodes : life[n] = "off" => th[Main(n)] = Idle
    BY DEF IInv, NodeTypes, ThreadsOK, OffIsIdle
  <1>2. th[t].pc \in LookupPCs /\ t[2] = "main"
    BY <1>1 DEF ThreadOK
  <1>3. ASSUME NEW u \in Threads, NEW r, Become(u, r), u # t PROVE th'[t] = th[t]
    BY <1>1, <1>3 DEF Become
  <1>4. ASSUME NEW u \in Threads, NEW r, Become(u, r), th[u].pc \notin LookupPCs
        PROVE  th'[t] = th[t]
    BY <1>2, <1>3, <1>4
  <1>5. ASSUME NEW u \in Threads, NEW r, Become(u, r), th[u].st # "route"
        PROVE  th'[t] = th[t]
    BY <1>3, <1>5
  <1>6. ASSUME NEW u \in Threads, Stabilize(u) PROVE th'[t] = th[t]
    <2>1. th[u].pc \notin LookupPCs
      BY <1>6 DEF Stabilize, StabRead, StabAlone, StabAsk, StabAdopt, StabNotify,
                  FetchSuccessorList, StoreSuccessorList, LookupPCs
    <2>2. \E r : Become(u, r)
      BY <1>6 DEF Stabilize, StabRead, StabAlone, StabAsk, StabAdopt, StabNotify,
                  FetchSuccessorList, StoreSuccessorList
    <2> QED
      BY <1>4, <2>1, <2>2
  <1>7. ASSUME NEW n \in Nodes, Join(n) PROVE th'[t] = th[t]
    <2>1. th[Main(n)].pc \notin LookupPCs \/ th[Main(n)].st # "route"
      BY <1>7 DEF Join, JoinFound, JoinFailed, InitFingerFound, InitFingerFailed,
          InitFingerNext, InitFingerCopy, AntiFound, AntiFailed, AntiAsk, AntiStore,
          OthersFound, OthersFailed, UpdateFingerTable, MigrateKeys, PullKeys, Ended, LookupPCs
    <2>2. \E r : Become(Main(n), r)
      BY <1>7 DEF Join, JoinFound, JoinFailed, InitFingerFound, InitFingerFailed,
          InitFingerNext, InitFingerCopy, AntiFound, AntiFailed, AntiAsk, AntiStore,
          OthersFound, OthersFailed, UpdateFingerTable, MigrateKeys, PullKeys
    <2> QED
      BY <1>4, <1>5, <2>1, <2>2, SetFacts
  <1>8. ASSUME NEW n \in Nodes, MainStep(n) PROVE FindRoute(t) \/ th'[t] = th[t]
    <2>1. Main(n) \in Threads
      BY SetFacts
    <2>2. CASE FindRead(Main(n)) \/ FindFail(Main(n))
      <3>1. th[Main(n)].st # "route" /\ \E r : Become(Main(n), r)
        BY <2>2 DEF FindRead, FindFail
      <3> QED
        BY <1>5, <2>1, <3>1
    <2>3. CASE FindRoute(Main(n))
      <3>1. \E r : Become(Main(n), r)
        BY <2>3 DEF FindRoute
      <3> QED
        BY <1>3, <2>1, <2>3, <3>1
    <2>4. CASE FixFinger(n) \/ FixFingerDone(n)
      <3>1. th[Main(n)].pc \notin LookupPCs \/ th[Main(n)].st # "route"
        BY <2>4 DEF FixFinger, FixFingerDone, Ended, LookupPCs
      <3>2. \E r : Become(Main(n), r)
        BY <2>4 DEF FixFinger, FixFingerDone
      <3> QED
        BY <1>4, <1>5, <2>1, <3>1, <3>2
    <2> QED
      BY <1>6, <1>7, <1>8, <2>1, <2>2, <2>3, <2>4 DEF MainStep, FindSuccessor
  <1>9. ASSUME NEW n \in Nodes, CheckPredecessor(n) \/ Leave(n) \/ CrashNode(n) \/ KillNode(n)
        PROVE  th'[t] = th[t]
    <2>1. \E role \in {"cp", "ctl"} : \E r : Become(<<n, role>>, r)
      BY <1>9 DEF CheckPredecessor, CheckPredRead, CheckPredPing, Leave, LeaveRead,
          LeaveTransfer, LeaveNotifySucc, LeaveNotifyPred, Stop, CrashNode, KillNode
    <2> QED
      BY <1>2, <1>3, <2>1, SetFacts DEF Roles
  <1>10. ASSUME NEW n \in Nodes, CheckSuccessor(n) PROVE th'[t] = th[t]
    <2>1. <<n, "cs">> \in Threads /\ <<n, "cs">> # t
      BY <1>2, SetFacts DEF Roles
    <2>2. CASE Stabilize(<<n, "cs">>)
      BY <1>6, <2>1, <2>2
    <2>3. CASE CheckSuccRead(n) \/ CheckSuccPing(n) \/ CheckSuccWalk(n) \/ CheckSuccGiveUp(n)
               \/ CheckSuccTake(n)
      <3>1. UNCHANGED th \/ \E r : Become(<<n, "cs">>, r)
        BY <2>3 DEF CheckSuccRead, CheckSuccPing, CheckSuccWalk, CheckSuccGiveUp, CheckSuccTake
      <3> QED
        BY <1>3, <2>1, <3>1
    <2> QED
      BY <1>10, <2>2, <2>3 DEF CheckSuccessor
  <1>11. ASSUME NEW n \in Nodes, Spawn(n) PROVE th'[t] = th[t]
    <2>1. th[Main(n)] = Idle /\ \E r : Become(Main(n), r)
      BY <1>1, <1>11 DEF Spawn
    <2>2. Idle.pc \notin LookupPCs
      BY DEF Idle, Frame, LookupPCs
    <2> QED
      BY <1>4, <2>1, <2>2, SetFacts
  <1>12. ASSUME NEW n \in Nodes, CreateRing(n) \/ Put(n)
         PROVE  th'[t] = th[t]
    BY <1>12 DEF CreateRing, Put, FindHandler, PutEntry
  <1>13. CASE UNCHANGED vars
    BY <1>13 DEF vars
  <1> QED
    BY <1>8, <1>9, <1>10, <1>11, <1>12, <1>13 DEF Next

\* Every forward of a lookup brings it strictly nearer to the identifier, in a
\* ring of any size and whatever its tables hold: FindSuccessor cannot cycle.
THEOREM LookupsProgress == Spec => LookupProgress
  <1>1. ASSUME IInv, [Next]_vars, NEW t \in Threads, th[t].st = "route", th'[t].st = "read"
        PROVE  Dist(th'[t].at, LookupID(t)) < Dist(th[t].at, LookupID(t))
    <2> DEFINE a == th[t].at
               id == LookupID(t)
               c == ClosestPrecedingNode(a, id)
    <2>1. /\ th \in [Threads -> Record] /\ ThreadOK(t, th[t]) /\ t[1] \in Nodes
          /\ th[t] \in Record
      BY <1>1, SetFacts DEF IInv, NodeTypes, ThreadsOK
    <2>2. a \in Nodes /\ th[t].pc \in LookupPCs /\ th[t].ix \in Index
      BY <1>1, <2>1 DEF ThreadOK
    <2>3. id \in ID
      <3>1. t[1] \in ID
        BY <2>1, NodeFacts
      <3>2. fingerStart(t[1], th[t].ix) \in ID /\ antiFingerStart(t[1], th[t].ix) \in ID
        BY <2>2, <3>1, StartInID
      <3> QED
        BY <3>1, <3>2 DEF LookupID
    <2>4. FindRoute(t)
      BY <1>1, RoutingThread
    <2>5. Become(t, IF c = a THEN [th[t] EXCEPT !.st = "found"]
                    ELSE [th[t] EXCEPT !.st = "read", !.at = c, !.sv = Nil])
      BY <2>4 DEF FindRoute
    <2>6. c \in Nodes /\ (c # a => IsInInterval(c, a, id))
      BY <1>1, <2>2, ClosestOK DEF IInv
    <2> HIDE DEF a, id, c
    <2>7. th'[t].at = c /\ c # a
      BY <1>1, <2>1, <2>5 DEF Become, Record
    <2>8. Dist(c, id) < Dist(a, id)
      BY <2>2, <2>3, <2>6, <2>7, NodeFacts, InsideIsNearer
    <2> QED
      BY <2>7, <2>8 DEF a, id
  <1>2. IInv /\ [Next]_vars =>
          [\A t \in Threads :
             th[t].st = "route" /\ th'[t].st = "read" =>
               Dist(th'[t].at, LookupID(t)) < Dist(th[t].at, LookupID(t))]_vars
    BY <1>1
  <1> QED
    BY <1>2, Inductive, PTL DEF Spec, LookupProgress

\* With crashes only, a controller thread never notifies anybody.
NoDeparture == \A t \in Threads : t[2] = "ctl" => th[t].pc \in {"idle", "stop"}

\* Without KillNode, the controllers' threads stay out of Leave.
LEMMA NoDepartureStep ==
  ASSUME KillSet = {}, IInv, NoDeparture, [Next]_vars
  PROVE  NoDeparture'
  <1> SUFFICES ASSUME NEW c \in Threads, c[2] = "ctl" PROVE th'[c].pc \in {"idle", "stop"}
    BY DEF NoDeparture
  <1>1. th \in [Threads -> Record] /\ th[c].pc \in {"idle", "stop"}
    BY DEF IInv, NodeTypes, NoDeparture
  <1>2. ASSUME NEW u \in Threads, NEW r, Become(u, r), u[2] # "ctl"
        PROVE  th'[c].pc \in {"idle", "stop"}
    BY <1>1, <1>2 DEF Become
  <1>3. ASSUME NEW u \in Threads, u[2] # "ctl", Stabilize(u)
        PROVE  th'[c].pc \in {"idle", "stop"}
    <2>1. \E r : Become(u, r)
      BY <1>3 DEF Stabilize, StabRead, StabAlone, StabAsk, StabAdopt, StabNotify,
                  FetchSuccessorList, StoreSuccessorList
    <2> QED
      BY <1>2, <1>3, <2>1
  <1>4. ASSUME NEW n \in Nodes, MainStep(n) PROVE th'[c].pc \in {"idle", "stop"}
    <2>1. Main(n) \in Threads /\ Main(n)[2] # "ctl"
      BY SetFacts DEF Main
    <2>2. CASE Join(n)
      BY <1>2, <2>1, <2>2 DEF Join, JoinFound, JoinFailed, InitFingerFound, InitFingerFailed,
          InitFingerNext, InitFingerCopy, AntiFound, AntiFailed, AntiAsk, AntiStore,
          OthersFound, OthersFailed, UpdateFingerTable, MigrateKeys, PullKeys
    <2> QED
      BY <1>2, <1>3, <1>4, <2>1, <2>2
      DEF MainStep, FindSuccessor, FindRead, FindRoute, FindFail, FixFinger, FixFingerDone
  <1>5. ASSUME NEW n \in Nodes, CheckPredecessor(n) PROVE th'[c].pc \in {"idle", "stop"}
    <2>1. <<n, "cp">> \in Threads
      BY SetFacts DEF Roles
    <2> QED
      BY <1>2, <1>5, <2>1 DEF CheckPredecessor, CheckPredRead, CheckPredPing
  <1>6. ASSUME NEW n \in Nodes, CheckSuccessor(n) PROVE th'[c].pc \in {"idle", "stop"}
    <2>1. <<n, "cs">> \in Threads
      BY SetFacts DEF Roles
    <2>2. CASE Stabilize(<<n, "cs">>)
      BY <1>3, <2>1, <2>2
    <2>3. CASE CheckSuccRead(n) \/ CheckSuccPing(n) \/ CheckSuccWalk(n) \/ CheckSuccGiveUp(n)
               \/ CheckSuccTake(n)
      <3>1. UNCHANGED th \/ \E r : Become(<<n, "cs">>, r)
        BY <2>3 DEF CheckSuccRead, CheckSuccPing, CheckSuccWalk, CheckSuccGiveUp, CheckSuccTake
      <3> QED
        BY <1>1, <1>2, <2>1, <3>1
    <2> QED
      BY <1>6, <2>2, <2>3 DEF CheckSuccessor
  <1>7. ASSUME NEW n \in Nodes, Leave(n) \/ CrashNode(n) PROVE th'[c].pc \in {"idle", "stop"}
    <2>1. <<n, "ctl">> \in Threads /\ th[<<n, "ctl">>].pc \in {"idle", "stop"}
      BY SetFacts DEF Roles, NoDeparture
    <2>2. \E r \in {Idle, Frame("stop", Nil, Nil, 0)} : Become(<<n, "ctl">>, r)
      BY <1>7, <2>1 DEF Leave, LeaveRead, LeaveTransfer, LeaveNotifySucc, LeaveNotifyPred,
                        Stop, CrashNode
    <2>3. Idle.pc = "idle" /\ Frame("stop", Nil, Nil, 0).pc = "stop"
      BY DEF Idle, Frame
    <2> QED
      BY <1>1, <2>2, <2>3 DEF Become
  <1>8. ASSUME NEW n \in Nodes, Spawn(n) PROVE th'[c].pc \in {"idle", "stop"}
    <2>1. Main(n) \in Threads /\ Main(n)[2] # "ctl"
      BY SetFacts DEF Main
    <2> QED
      BY <1>2, <1>8, <2>1 DEF Spawn
  <1>9. ASSUME NEW n \in Nodes, CreateRing(n) \/ KillNode(n) \/ Put(n)
        PROVE  th'[c].pc \in {"idle", "stop"}
    <2>1. n \notin KillSet
      OBVIOUS
    <2> QED
      BY <1>1, <1>9, <2>1 DEF CreateRing, KillNode, Put, FindHandler, PutEntry
  <1>10. CASE UNCHANGED vars
    BY <1>1, <1>10 DEF vars
  <1> QED
    BY <1>4, <1>5, <1>6, <1>7, <1>8, <1>9, <1>10 DEF Next

\* The predecessor is cleared, left alone, or set by a Notify from another node.
LEMMA PredNotSelfStep ==
  ASSUME IInv, NoDeparture, PredNotSelf, [Next]_vars
  PROVE  PredNotSelf'
  <1> USE NodeFacts
  <1>1. pred \in [Nodes -> Refs]
    BY DEF IInv, NodeTypes
  <1>2. ASSUME UNCHANGED pred PROVE PredNotSelf'
    BY <1>2 DEF PredNotSelf
  <1>3. ASSUME NEW m \in Nodes, NEW x \in Refs, x # m, pred' = [pred EXCEPT ![m] = x]
        PROVE  PredNotSelf'
    BY <1>1, <1>3 DEF PredNotSelf
  <1>4. ASSUME NEW u \in Threads, Stabilize(u) PROVE PredNotSelf'
    <2>1. CASE StabNotify(u)
      <3>1. th[u].sv \in Nodes /\ th[u].sv # u[1] /\ u[1] \in Nodes
        BY <2>1, SetFacts DEF StabNotify, IInv, ThreadsOK, ThreadOK, HasNode
      <3>2. UNCHANGED pred \/ pred' = [pred EXCEPT ![th[u].sv] = u[1]]
        BY <2>1 DEF StabNotify, Notify
      <3> QED
        BY <1>2, <1>3, <3>1, <3>2
    <2> QED
      BY <1>2, <1>4, <2>1 DEF Stabilize, StabRead, StabAlone, StabAsk, StabAdopt,
                              FetchSuccessorList, StoreSuccessorList
  <1>5. ASSUME NEW n \in Nodes, JoinFound(n) \/ CreateRing(n) PROVE PredNotSelf'
    BY <1>3, <1>5 DEF JoinFound, CreateRing
  <1>6. ASSUME NEW n \in Nodes, MainStep(n) PROVE PredNotSelf'
    <2>1. CASE Join(n)
      BY <1>2, <1>5, <2>1 DEF Join, JoinFailed, InitFingerFound, InitFingerFailed,
          InitFingerNext, InitFingerCopy, AntiFound, AntiFailed, AntiAsk, AntiStore,
          OthersFound, OthersFailed, UpdateFingerTable, MigrateKeys, PullKeys
    <2>2. Main(n) \in Threads
      BY SetFacts
    <2> QED
      BY <1>2, <1>4, <1>6, <2>1, <2>2
      DEF MainStep, FindSuccessor, FindRead, FindRoute, FindFail, FixFinger, FixFingerDone
  <1>7. ASSUME NEW n \in Nodes, CheckPredecessor(n) PROVE PredNotSelf'
    <2>1. UNCHANGED pred \/ pred' = [pred EXCEPT ![n] = Nil]
      BY <1>7 DEF CheckPredecessor, CheckPredRead, CheckPredPing
    <2> QED
      BY <1>2, <1>3, <2>1
  <1>8. ASSUME NEW n \in Nodes, CheckSuccessor(n) PROVE PredNotSelf'
    <2>1. <<n, "cs">> \in Threads
      BY SetFacts DEF Roles
    <2> QED
      BY <1>2, <1>4, <1>8, <2>1
      DEF CheckSuccessor, CheckSuccRead, CheckSuccPing, CheckSuccWalk, CheckSuccGiveUp,
          CheckSuccTake
  <1>9. ASSUME NEW n \in Nodes, Leave(n) PROVE PredNotSelf'
    <2>1. th[<<n, "ctl">>].pc \in {"idle", "stop"}
      BY SetFacts DEF Roles, NoDeparture
    <2> QED
      BY <1>2, <1>9, <2>1
      DEF Leave, LeaveRead, LeaveTransfer, LeaveNotifySucc, LeaveNotifyPred, Stop
  <1>10. ASSUME NEW n \in Nodes, Spawn(n) \/ CrashNode(n) \/ KillNode(n)
                                 \/ Put(n)
         PROVE  PredNotSelf'
    BY <1>2, <1>10 DEF Spawn, CrashNode, KillNode, Put, FindHandler, PutEntry
  <1>11. CASE UNCHANGED vars
    BY <1>2, <1>11 DEF vars
  <1> QED
    BY <1>5, <1>6, <1>7, <1>8, <1>9, <1>10, <1>11 DEF Next

\* As long as nodes crash rather than leave, no node comes to be its own
\* predecessor, after which it would refuse every Notify.
THEOREM NeverOwnPredecessor ==
  ASSUME KillSet = {}
  PROVE  Spec => []PredNotSelf
  <1>1. Init => NoDeparture /\ PredNotSelf
    <2>1. Idle.pc = "idle"
      BY DEF Idle, Frame
    <2> QED
      BY <2>1, NodeFacts DEF Init, NoDeparture, PredNotSelf
  <1>2. IInv /\ NoDeparture /\ [Next]_vars => NoDeparture'
    BY NoDepartureStep
  <1>3. IInv /\ NoDeparture /\ PredNotSelf /\ [Next]_vars => PredNotSelf'
    BY PredNotSelfStep
  <1> QED
    BY <1>1, <1>2, <1>3, Inductive, PTL DEF Spec
=============================================================================

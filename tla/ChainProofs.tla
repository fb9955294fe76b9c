---------------------------- MODULE ChainProofs -----------------------------
(***************************************************************************)
(* Theorems about the shape of the ring, for any set of nodes.  First what *)
(* a node may know of others and that the keys of one leaving node reach   *)
(* a node that stays, from the founder on; then the geometry of the stable *)
(* chain, that stabilization leaves it as it is, and that joins put only   *)
(* the joiners between its nodes.                                          *)
(***************************************************************************)
EXTENDS MCChord, ChordProofs, FiniteSetTheorems

-----------------------------------------------------------------------------
(* References lead to nodes that have announced themselves: a node learns  *)
(* of another only after the latter found its successor.                   *)

\* The program points of a node that has a successor and does not answer for
\* itself yet, and of one that has told others of itself.
EarlyPCs == {"joinSucc", "initFinger", "fingerNext", "fingerCopy", "initAnti", "antiPred",
             "antiStore"}
LatePCs == {"others", "update", "migrate", "pull"}

\* The nodes that know their successor, and those others may know of.
Joined == {n \in Nodes : life[n] \notin {"off", "refused"} /\ th[Main(n)].pc # "joinSucc"}
Announced == {n \in Joined : life[n] # "joining" \/ th[Main(n)].pc \in LatePCs}

PointersIn(A) ==
  /\ boot \in [Nodes -> A \cup {Nil}]
  /\ pred \in [Nodes -> A \cup {Nil}]
  /\ finger \in [Nodes -> [Index -> A \cup {Nil}]]
  /\ anti \in [Nodes -> [Index -> A \cup {Nil}]]
  /\ succList \in [Nodes -> Seq(A)]

SuccessorsIn(A) == \A n \in Joined : succ[n] \in A

ThreadIn(A, t, r) ==
  /\ r.at \in A \cup {Nil} /\ r.sv \in A \cup {Nil}
  /\ t[1] \notin A => r = Idle \/ (life[t[1]] = "joining" /\ t[2] = "main" /\ r.pc \in EarlyPCs)
  /\ r.pc = "joinSucc" => life[t[1]] = "joining"

ThreadsIn(A) ==
  /\ \A t \in Threads : ThreadIn(A, t, th[t])
  /\ lst \in [Threads -> Seq(A)]

KnownInv == PointersIn(Announced) /\ SuccessorsIn(Announced) /\ ThreadsIn(Announced)

\* What the two invariants say of one thread.
LEMMA ThreadKnows ==
  ASSUME IInv, KnownInv, NEW t \in Threads
  PROVE  /\ t[1] \in Nodes /\ th[t] \in Record /\ ThreadOK(t, th[t])
         /\ ThreadIn(Announced, t, th[t]) /\ lst[t] \in Seq(Announced)
         /\ th[t].pc \in HasNode => th[t].sv \in Announced
         /\ th[t].st \in {"route", "found"} => th[t].sv \in Announced
         /\ th[t].pc \in HasTarget => th[t].at \in Announced
         /\ th[t].st \in {"read", "route"} => th[t].at \in Announced
         /\ th[t].pc \notin {"idle"} \cup EarlyPCs => t[1] \in Announced
         /\ th[t].pc \in EarlyPCs \ {"joinSucc"} => t[1] \in Joined
         /\ th[t].pc = "joinSucc" => t = Main(t[1]) /\ t[1] \notin Joined
  <1>1. /\ t[1] \in Nodes /\ th[t] \in Record /\ ThreadOK(t, th[t])
        /\ ThreadIn(Announced, t, th[t]) /\ lst[t] \in Seq(Announced)
    BY SetFacts DEF IInv, NodeTypes, ThreadsOK, KnownInv, ThreadsIn
  <1>2. Idle.pc = "idle"
    BY DEF Idle, Frame
  <1>3. t[2] = "main" => t = Main(t[1])
    BY DEF Threads, Main
  <1>4. th[t].pc = "joinSucc" => t[2] = "main"
    BY <1>1 DEF ThreadOK, LookupPCs
  <1>5. th[t].pc \in EarlyPCs \ {"joinSucc"} => t[1] \in Joined
    BY <1>1, <1>2, <1>3 DEF ThreadIn, Joined, Announced, EarlyPCs
  <1> QED
    BY <1>1, <1>2, <1>3, <1>4, <1>5, NodeFacts DEF ThreadOK, ThreadIn, Joined

\* A node is announced as soon as it is a member.
LEMMA MembersAnnounced ==
  ASSUME IInv, KnownInv, NEW n \in Nodes, life[n] \in {"member", "leaving", "gone"}
  PROVE  n \in Announced
  <1>1. Main(n) \in Threads /\ Main(n)[1] = n
    BY SetFacts DEF Main
  <1>2. ThreadIn(Announced, Main(n), th[Main(n)])
    BY <1>1, ThreadKnows
  <1> QED
    BY <1>1, <1>2 DEF ThreadIn, Announced, Joined

\* A move of one thread that announces nobody.
Quiet(t, r) ==
  /\ r.pc = "joinSucc" <=> th[t].pc = "joinSucc"
  /\ \/ t[2] # "main" \/ life[t[1]] # "joining"
     \/ (r.pc \in LatePCs <=> th[t].pc \in LatePCs)

LEMMA NobodyNew ==
  ASSUME IInv, NEW t \in Threads, NEW r, Become(t, r), UNCHANGED life, Quiet(t, r)
  PROVE  Announced' = Announced /\ Joined' = Joined
  <1>1. th \in [Threads -> Record] /\ \A n \in Nodes : Main(n) \in Threads /\ Main(n)[1] = n
                                                       /\ Main(n)[2] = "main"
    BY SetFacts DEF IInv, NodeTypes, Main
  <1>2. \A n \in Nodes : /\ th'[Main(n)].pc = "joinSucc" <=> th[Main(n)].pc = "joinSucc"
                         /\ life[n] = "joining" =>
                              (th'[Main(n)].pc \in LatePCs <=> th[Main(n)].pc \in LatePCs)
    BY <1>1 DEF Become, Quiet
  <1>3. Joined' = Joined
    BY <1>2 DEF Joined
  <1> QED
    BY <1>2, <1>3 DEF Announced, Joined

\* One thread moves to a frame that knows announced nodes only.
LEMMA ThreadsMove ==
  ASSUME IInv, KnownInv, NEW t \in Threads, NEW r, Become(t, r), UNCHANGED life, Quiet(t, r),
         r.at \in Announced \cup {Nil}, r.sv \in Announced \cup {Nil},
         t[1] \in Announced
           \/ (life[t[1]] = "joining" /\ t[2] = "main" /\ r.pc \in EarlyPCs),
         lst' \in [Threads -> Seq(Announced)]
  PROVE  Announced' = Announced /\ Joined' = Joined /\ ThreadsIn(Announced)'
  <1>1. th \in [Threads -> Record]
    BY DEF IInv, NodeTypes
  <1>2. Announced' = Announced /\ Joined' = Joined
    BY NobodyNew
  <1>3. ThreadIn(Announced, t, r)
    BY ThreadKnows DEF ThreadIn, Quiet
  <1>4. ASSUME NEW u \in Threads PROVE ThreadIn(Announced, u, th'[u])
    <2>1. (th'[u] = r /\ u = t) \/ th'[u] = th[u]
      BY <1>1 DEF Become
    <2> QED
      BY <1>3, <2>1, ThreadKnows
  <1>5. ASSUME NEW u \in Threads PROVE ThreadIn(Announced, u, th[u])'
    BY <1>2, <1>4 DEF ThreadIn
  <1> QED
    BY <1>2, <1>5 DEF ThreadsIn

\* The fields of a new frame.
LEMMA Fields ==
  /\ \A p, a, v, i : /\ Frame(p, a, v, i).pc = p /\ Frame(p, a, v, i).st = "run"
                     /\ Frame(p, a, v, i).at = a /\ Frame(p, a, v, i).sv = v
                     /\ Frame(p, a, v, i).ix = i
  /\ \A p, a, i : /\ Call(p, a, i).pc = p /\ Call(p, a, i).st = "read"
                  /\ Call(p, a, i).at = a /\ Call(p, a, i).sv = Nil
                  /\ Call(p, a, i).ix = i
  /\ Idle.pc = "idle" /\ Idle.st = "run" /\ Idle.at = Nil /\ Idle.sv = Nil
  BY DEF Frame, Call, Idle

\* One thread moves and the tables stay, but for successors.
LEMMA MoveKnown ==
  ASSUME IInv, KnownInv, NEW t \in Threads, NEW r, Become(t, r), UNCHANGED life, Quiet(t, r),
         r.at \in Announced \cup {Nil}, r.sv \in Announced \cup {Nil},
         t[1] \in Announced
           \/ (life[t[1]] = "joining" /\ t[2] = "main" /\ r.pc \in EarlyPCs),
         lst' \in [Threads -> Seq(Announced)],
         UNCHANGED <<boot, pred, finger, anti, succList>>,
         \A n \in Joined : succ'[n] \in Announced
  PROVE  KnownInv'
  <1>1. Announced' = Announced /\ Joined' = Joined /\ ThreadsIn(Announced)'
    BY ThreadsMove
  <1> QED
    BY <1>1 DEF KnownInv, PointersIn, SuccessorsIn

\* Notify stores a candidate or leaves the predecessor as it is.
LEMMA NotifyKnown ==
  ASSUME IInv, KnownInv, NEW m \in Nodes, NEW c \in Announced, Notify(m, c)
  PROVE  pred' \in [Nodes -> Announced \cup {Nil}]
  BY DEF Notify, KnownInv, PointersIn

\* The extended list names nobody new.
LEMMA ExtendedIn ==
  ASSUME NEW A, NEW s \in A, NEW list \in Seq(A)
  PROVE  Extended(s, list) \in Seq(A)
  <1> DEFINE l == <<s>> \o list
             k == IF Len(l) < SuccessorListSize THEN Len(l) ELSE SuccessorListSize
  <1>1. l \in Seq(A)
    OBVIOUS
  <1>2. k \in 0 .. Len(l)
    BY <1>1, ChordAssumption
  <1>3. SubSeq(l, 1, k) \in Seq(A)
    <2> HIDE DEF l, k
    <2> QED
      BY <1>1, <1>2, SubSeqProperties
  <1> QED
    BY <1>3 DEF Extended

\* Stabilize.
LEMMA StabilizeKnown ==
  ASSUME IInv, KnownInv, NEW t \in Threads, Stabilize(t)
  PROVE  KnownInv'
  <1> USE Fields
  <1> DEFINE n == t[1]
             K == Announced \cup {Nil}
  <1>1. /\ n \in Nodes /\ th[t] \in Record /\ ThreadOK(t, th[t]) /\ ThreadIn(Announced, t, th[t])
        /\ lst \in [Threads -> Seq(Announced)]
        /\ th[t].pc \in HasNode => th[t].sv \in Announced
        /\ th[t].pc \notin {"idle"} \cup EarlyPCs => n \in Announced
    BY ThreadKnows DEF KnownInv, ThreadsIn
  <1>2. /\ \A m \in Joined : m \in Nodes /\ succ[m] \in Announced
        /\ Announced \subseteq Joined
        /\ pred \in [Nodes -> K] /\ finger \in [Nodes -> [Index -> K]]
        /\ succList \in [Nodes -> Seq(Announced)] /\ succ \in [Nodes -> Nodes]
    BY DEF KnownInv, PointersIn, SuccessorsIn, Joined, Announced, IInv, NodeTypes
  <1>3. CASE StabRead(t)
    <2>1. n \in Announced
      <3>1. CASE t[2] = "main" /\ th[t].pc = "idle" /\ Running(n)
        BY <1>1, <3>1, MembersAnnounced DEF Running
      <3> QED
        BY <1>1, <1>3, <3>1 DEF StabRead, EarlyPCs
    <2>2. PICK r \in {Frame("stabAlone", Nil, Nil, 0), Frame("stabAsk", Nil, succ[n], 0)} : Become(t, r)
      BY <1>3 DEF StabRead
    <2>3. Quiet(t, r) /\ r.at \in K /\ r.sv \in K
      BY <1>2, <1>3, <2>1, <2>2 DEF StabRead, Quiet, LatePCs
    <2> QED
      BY <1>1, <1>2, <1>3, <2>1, <2>2, <2>3, MoveKnown DEF StabRead
  <1>4. CASE StabAlone(t)
    <2>1. n \in Announced /\ th[t].pc = "stabAlone"
      BY <1>1, <1>4 DEF StabAlone, EarlyPCs
    <2>2. Announced' = Announced /\ Joined' = Joined /\ ThreadsIn(Announced)'
      BY <1>1, <1>4, <2>1, ThreadsMove DEF StabAlone, Quiet, LatePCs
    <2>3. succ' = [succ EXCEPT ![n] = n] /\ finger' = [finger EXCEPT ![n][0] = n]
          /\ UNCHANGED <<boot, pred, anti, succList>>
      BY <1>4 DEF StabAlone
    <2>4. finger' \in [Nodes -> [Index -> K]]
      BY <1>1, <1>2, <2>1, <2>3
    <2>5. \A m \in Joined : succ'[m] \in Announced
      BY <1>2, <2>1, <2>3
    <2> QED
      BY <2>2, <2>3, <2>4, <2>5 DEF KnownInv, PointersIn, SuccessorsIn
  <1>5. CASE StabAsk(t)
    <2> DEFINE s == th[t].sv
    <2>1. n \in Announced /\ s \in Announced /\ th[t].pc = "stabAsk"
      BY <1>1, <1>5 DEF StabAsk, HasNode, EarlyPCs
    <2>2. PICK r \in {Frame("stabAdopt", Nil, pred[s], 0), Frame("stabNotify", Nil, s, 0)} : Become(t, r)
      BY <1>5 DEF StabAsk
    <2>3. Quiet(t, r) /\ r.at \in K /\ r.sv \in K
      BY <1>2, <2>1, <2>2 DEF Quiet, LatePCs
    <2> QED
      BY <1>1, <1>2, <1>5, <2>1, <2>2, <2>3, MoveKnown DEF StabAsk
  <1>6. CASE StabAdopt(t)
    <2> DEFINE x == th[t].sv
    <2>1. n \in Announced /\ x \in Announced /\ th[t].pc = "stabAdopt"
      BY <1>1, <1>6 DEF StabAdopt, HasNode, EarlyPCs
    <2>2. Announced' = Announced /\ Joined' = Joined /\ ThreadsIn(Announced)'
      BY SMTT(30), <1>1, <1>6, <2>1, ThreadsMove DEF StabAdopt, Quiet, LatePCs
    <2>3. succ' = [succ EXCEPT ![n] = x] /\ finger' = [finger EXCEPT ![n][0] = x]
          /\ UNCHANGED <<boot, pred, anti, succList>>
      BY <1>6 DEF StabAdopt
    <2> HIDE DEF x
    <2>4. finger' \in [Nodes -> [Index -> K]]
      BY <1>1, <1>2, <2>1, <2>3
    <2>5. \A m \in Joined : succ'[m] \in Announced
      BY <1>2, <2>1, <2>3
    <2> QED
      BY <2>2, <2>3, <2>4, <2>5 DEF KnownInv, PointersIn, SuccessorsIn
  <1>7. CASE StabNotify(t)
    <2>1. n \in Announced /\ th[t].sv \in Announced /\ th[t].pc = "stabNotify"
      BY <1>1, <1>7 DEF StabNotify, HasNode, EarlyPCs
    <2>2. PICK r : r = [th[t] EXCEPT !.pc = "stabList"]
      OBVIOUS
    <2>3. r.pc = "stabList" /\ r.at = th[t].at /\ r.sv = th[t].sv
      BY <1>1, <2>2 DEF Record
    <2>4. Become(t, r)
      BY <1>7, <2>2 DEF StabNotify
    <2>5. Announced' = Announced /\ Joined' = Joined /\ ThreadsIn(Announced)'
      BY <1>1, <1>7, <2>1, <2>3, <2>4, ThreadsMove DEF StabNotify, ThreadIn, Quiet, LatePCs
    <2>6. pred' \in [Nodes -> K]
      BY <1>2, <1>7, <2>1, NotifyKnown DEF StabNotify
    <2> QED
      BY <1>7, <2>5, <2>6 DEF KnownInv, PointersIn, SuccessorsIn, StabNotify
  <1>8. CASE FetchSuccessorList(t)
    <2> DEFINE s == th[t].sv
    <2>1. n \in Announced /\ s \in Announced /\ th[t].pc = "stabList"
      BY <1>1, <1>8 DEF FetchSuccessorList, HasNode, EarlyPCs
    <2>2. PICK r \in {Frame("stabStore", Nil, s, 0), Idle} : Become(t, r)
      BY <1>8 DEF FetchSuccessorList
    <2>3. lst' \in [Threads -> Seq(Announced)]
      <3>1. lst' = [lst EXCEPT ![t] = succList[s]] \/ lst' = lst
        BY <1>8 DEF FetchSuccessorList
      <3>2. succList[s] \in Seq(Announced)
        BY <1>2, <2>1
      <3> QED
        BY <1>1, <3>1, <3>2
    <2>4. Quiet(t, r) /\ r.at \in K /\ r.sv \in K
      BY <2>1, <2>2 DEF Quiet, LatePCs
    <2> QED
      BY <1>1, <1>2, <1>8, <2>1, <2>2, <2>3, <2>4, MoveKnown DEF FetchSuccessorList
  <1>9. CASE StoreSuccessorList(t)
    <2>1. n \in Announced /\ th[t].sv \in Announced /\ th[t].pc = "stabStore"
      BY <1>1, <1>9 DEF StoreSuccessorList, HasNode, EarlyPCs
    <2>2. lst' \in [Threads -> Seq(Announced)]
      BY <1>1, <1>9 DEF StoreSuccessorList
    <2>3. Announced' = Announced /\ Joined' = Joined /\ ThreadsIn(Announced)'
      BY <1>1, <1>9, <2>1, <2>2, ThreadsMove DEF StoreSuccessorList, Quiet, LatePCs
    <2>4. Extended(th[t].sv, lst[t]) \in Seq(Announced)
      BY <1>1, <2>1, ExtendedIn
    <2>5. succList' \in [Nodes -> Seq(Announced)]
      BY <1>1, <1>2, <1>9, <2>4 DEF StoreSuccessorList
    <2> QED
      BY <1>9, <2>3, <2>5 DEF KnownInv, PointersIn, SuccessorsIn, StoreSuccessorList
  <1> QED
    BY <1>3, <1>4, <1>5, <1>6, <1>7, <1>8, <1>9 DEF Stabilize

\* A node routes past itself to a node it knows.
LEMMA ClosestKnown ==
  ASSUME KnownInv, NEW n \in Announced, NEW id
  PROVE  ClosestPrecedingNode(n, id) \in Announced
  <1> DEFINE Fwd == {i \in Index : finger[n][i] # Nil /\ IsInInterval(finger[n][i], n, id)}
             Bwd == {i \in Index : /\ pred[n] # Nil
                                   /\ IsInInterval(id, pred[n], n)
                                   /\ anti[n][i] # Nil
                                   /\ IsInInterval(anti[n][i], n, id)}
             f == finger[n][Max(Fwd)]
             a == anti[n][Max(Bwd)]
  <1>1. Fwd # {} => Max(Fwd) \in Fwd
    BY MaxInIndex
  <1>2. Bwd # {} => Max(Bwd) \in Bwd
    BY MaxInIndex
  <1>3. n \in Nodes /\ \A i \in Index : finger[n][i] \in Announced \cup {Nil}
                                       /\ anti[n][i] \in Announced \cup {Nil}
    BY DEF KnownInv, PointersIn, SuccessorsIn, Joined, Announced
  <1>4. (Fwd # {} => f \in Announced) /\ (Bwd # {} => a \in Announced)
    BY <1>1, <1>2, <1>3
  <1>5. ClosestPrecedingNode(n, id) =
          IF Fwd = {} THEN IF Bwd = {} THEN n ELSE a
          ELSE IF Bwd # {} /\ IsInInterval(f, n, a) THEN a ELSE f
    BY DEF ClosestPrecedingNode
  <1> HIDE DEF Fwd, Bwd, f, a
  <1> QED
    BY <1>4, <1>5

\* FindSuccessor.
LEMMA FindSuccessorKnown ==
  ASSUME IInv, KnownInv, NEW t \in Threads, FindSuccessor(t)
  PROVE  KnownInv'
  <1> DEFINE K == Announced \cup {Nil}
  <1>1. /\ t[1] \in Nodes /\ th[t] \in Record /\ ThreadIn(Announced, t, th[t])
        /\ lst \in [Threads -> Seq(Announced)]
        /\ th[t].st \in {"read", "route"} => th[t].at \in Announced
        /\ th[t].st \in {"read", "route"} =>
             t[1] \in Announced
               \/ (life[t[1]] = "joining" /\ t[2] = "main" /\ th[t].pc \in EarlyPCs)
    <2>1. Idle.st = "run"
      BY Fields
    <2> QED
      BY <2>1, ThreadKnows DEF KnownInv, ThreadsIn, ThreadIn
  <1>2. Announced \subseteq Joined /\ \A m \in Joined : succ[m] \in Announced
    BY DEF KnownInv, PointersIn, SuccessorsIn, Joined, Announced
  <1>3. ASSUME NEW r, Become(t, r), r.pc = th[t].pc, r.at \in K, r.sv \in K,
               th[t].st \in {"read", "route"},
               UNCHANGED <<life, boot, succ, pred, finger, anti, succList, lst>>
        PROVE  KnownInv'
    BY <1>1, <1>2, <1>3, MoveKnown DEF Quiet
  <1>4. CASE FindRead(t)
    <2> DEFINE s == succ[th[t].at]
               v == IF IsInIntervalRightClosed(LookupID(t), th[t].at, s) THEN "found" ELSE "route"
    <2>1. th[t].st = "read" /\ s \in Announced
      BY <1>1, <1>2, <1>4 DEF FindRead
    <2>2. PICK r : r = [th[t] EXCEPT !.sv = s, !.st = v]
      OBVIOUS
    <2>3. Become(t, r)
      BY <1>4, <2>2 DEF FindRead
    <2> HIDE DEF s, v
    <2>4. r.pc = th[t].pc /\ r.at = th[t].at /\ r.sv = s
      BY <1>1, <2>2 DEF Record
    <2> QED
      BY <1>1, <1>3, <1>4, <2>1, <2>3, <2>4 DEF FindRead, ThreadIn
  <1>5. CASE FindRoute(t)
    <2> DEFINE c == ClosestPrecedingNode(th[t].at, LookupID(t))
    <2>1. th[t].st = "route" /\ c \in Announced
      BY <1>1, <1>5, ClosestKnown DEF FindRoute
    <2>2. PICK r \in {[th[t] EXCEPT !.st = "found"],
                      [th[t] EXCEPT !.st = "read", !.at = c, !.sv = Nil]} : Become(t, r)
      BY <1>5 DEF FindRoute
    <2> HIDE DEF c
    <2>3. r.pc = th[t].pc /\ r.at \in K /\ r.sv \in K
      BY <1>1, <2>1, <2>2 DEF Record, ThreadIn
    <2> QED
      BY <1>3, <1>5, <2>1, <2>2, <2>3 DEF FindRoute
  <1>6. CASE FindFail(t)
    <2>1. PICK r : r = [th[t] EXCEPT !.st = "failed"]
      OBVIOUS
    <2>2. Become(t, r) /\ th[t].st = "read"
      BY <1>6, <2>1 DEF FindFail
    <2>3. r.pc = th[t].pc /\ r.at = th[t].at /\ r.sv = th[t].sv
      BY <1>1, <2>1 DEF Record
    <2> QED
      BY <1>1, <1>3, <1>6, <2>2, <2>3 DEF FindFail, ThreadIn
  <1> QED
    BY <1>4, <1>5, <1>6 DEF FindSuccessor

\* A step of the main thread of a node that has its successor: it may store an
\* entry of a finger or anti-finger table, and it may announce the node.
LEMMA MainKnown ==
  ASSUME IInv, KnownInv, NEW n \in Joined, NEW r, Become(Main(n), r),
         r.pc # "joinSucc",
         life[n] = "joining" =>
           /\ r.pc \in EarlyPCs \cup LatePCs
           /\ th[Main(n)].pc \in LatePCs => r.pc \in LatePCs,
         r.at \in Announced \cup {Nil} \/ (r.at = n /\ r.pc \in LatePCs),
         r.sv \in Announced \cup {Nil},
         NEW p \in Joined, NEW i \in Index, NEW v \in Announced,
         \/ UNCHANGED <<finger, anti, succ>>
         \/ UNCHANGED <<anti, succ>> /\ finger' = [finger EXCEPT ![p][i] = v]
         \/ UNCHANGED anti /\ finger' = [finger EXCEPT ![p][i] = v] /\ succ' = [succ EXCEPT ![p] = v]
         \/ UNCHANGED <<finger, succ>> /\ anti' = [anti EXCEPT ![p][i] = v],
         UNCHANGED <<life, boot, pred, succList, lst>>
  PROVE  KnownInv'
  <1>0. PICK B : B = IF r.pc \in LatePCs THEN Announced \cup {n} ELSE Announced
    OBVIOUS
  <1> DEFINE K == Announced \cup {Nil}
             t == Main(n)
  <1>1. /\ n \in Nodes /\ p \in Nodes /\ t \in Threads /\ t[1] = n /\ t[2] = "main"
        /\ th[t].pc # "joinSucc" /\ Announced \subseteq Joined
        /\ th \in [Threads -> Record] /\ \A m \in Nodes : Main(m) \in Threads /\ Main(m)[1] = m
    BY SetFacts DEF Announced, Joined, Main, IInv, NodeTypes
  <1>2. /\ \A m \in Joined : m \in Nodes /\ succ[m] \in Announced
        /\ finger \in [Nodes -> [Index -> K]] /\ anti \in [Nodes -> [Index -> K]]
        /\ boot \in [Nodes -> K] /\ pred \in [Nodes -> K]
        /\ succList \in [Nodes -> Seq(Announced)]
        /\ succ \in [Nodes -> Nodes] /\ lst \in [Threads -> Seq(Announced)]
    BY DEF KnownInv, PointersIn, SuccessorsIn, ThreadsIn, Joined, IInv, NodeTypes
  <1>3. \A m \in Nodes : (m = n /\ th'[Main(m)] = r) \/ (m # n /\ th'[Main(m)] = th[Main(m)])
    BY <1>1 DEF Become
  <1>4. Joined' = Joined
    BY <1>1, <1>3 DEF Joined
  <1>5. Announced' = B
    <2>1. \A m \in Joined : m \in Announced' <=> m \in B
      <3> TAKE m \in Joined
      <3>1. m \in Nodes
        BY DEF Joined
      <3> QED
        BY <1>0, <1>3, <1>4, <3>1 DEF Announced
    <2> QED
      BY <1>0, <1>1, <1>4, <2>1 DEF Announced
  <1>6. Announced \subseteq B /\ r.at \in B \cup {Nil} /\ r.sv \in B \cup {Nil}
    BY <1>0
  <1>7. n \in B \/ (life[n] = "joining" /\ r.pc \in EarlyPCs)
    BY <1>0 DEF Announced
  <1>8. PointersIn(B)'
    <2>1. [finger EXCEPT ![p][i] = v] \in [Nodes -> [Index -> K]]
      BY <1>1, <1>2
    <2>2. [anti EXCEPT ![p][i] = v] \in [Nodes -> [Index -> K]]
      BY <1>1, <1>2
    <2>3. finger' \in [Nodes -> [Index -> K]] /\ anti' \in [Nodes -> [Index -> K]]
      <3> HIDE DEF K
      <3> QED
        BY <1>2, <2>1, <2>2
    <2>4. K \subseteq B \cup {Nil}
      BY <1>6
    <2>5. finger' \in [Nodes -> [Index -> B \cup {Nil}]] /\ anti' \in [Nodes -> [Index -> B \cup {Nil}]]
      <3> HIDE DEF K
      <3> QED
        BY <2>3, <2>4
    <2>6. boot' \in [Nodes -> B \cup {Nil}] /\ pred' \in [Nodes -> B \cup {Nil}]
      BY <1>2, <1>6
    <2>7. succList' \in [Nodes -> Seq(B)]
      BY <1>2, <1>6
    <2> QED
      BY <2>5, <2>6, <2>7 DEF PointersIn
  <1>9. SuccessorsIn(B)'
    <2>1. \A m \in Joined : succ'[m] \in Announced
      BY <1>1, <1>2
    <2> QED
      BY <1>4, <1>6, <2>1 DEF SuccessorsIn
  <1>10. ThreadsIn(B)'
    <2>1. ASSUME NEW u \in Threads PROVE ThreadIn(B, u, th[u])'
      <3>1. CASE u = t
        <4>1. th'[u] = r
          BY <1>1, <3>1 DEF Become
        <4> QED
          BY <1>1, <1>6, <1>7, <3>1, <4>1 DEF ThreadIn
      <3>2. CASE u # t
        <4>1. th'[u] = th[u]
          BY <1>1, <3>2 DEF Become
        <4>2. ThreadIn(Announced, u, th[u])
          BY ThreadKnows
        <4> QED
          BY <1>6, <4>1, <4>2 DEF ThreadIn
      <3> QED
        BY <3>1, <3>2
    <2>2. lst' \in [Threads -> Seq(B)]
      BY <1>2, <1>6
    <2> QED
      BY <2>1, <2>2 DEF ThreadsIn
  <1>11. PointersIn(Announced)' /\ SuccessorsIn(Announced)' /\ ThreadsIn(Announced)'
    BY <1>5, <1>8, <1>9, <1>10 DEF PointersIn, SuccessorsIn, ThreadsIn, ThreadIn
  <1> QED
    BY <1>11 DEF KnownInv

\* An announced node becomes a member, begins to leave or stops.
LEMMA LifeKnown ==
  ASSUME IInv, KnownInv, NEW t \in Threads, NEW r, NEW v, t[1] \in Announced,
         Become(t, r), r.pc # "joinSucc",
         r.at \in Announced \cup {Nil}, r.sv \in Announced \cup {Nil},
         life' = [life EXCEPT ![t[1]] = v], v \notin {"off", "refused", "joining"},
         UNCHANGED <<boot, succ, pred, finger, anti, succList, lst>>
  PROVE  KnownInv'
  <1>1. /\ th \in [Threads -> Record] /\ t[1] \in Nodes
        /\ \A n \in Nodes : Main(n) \in Threads /\ Main(n)[1] = n
        /\ life \in [Nodes -> {"off", "joining", "member", "leaving", "gone", "refused"}]
        /\ \A u \in Threads : u[1] \in Nodes
    BY SetFacts DEF IInv, NodeTypes, Announced, Joined, Main
  <1>2. \A u \in Threads : (th'[u] = r /\ u = t) \/ (th'[u] = th[u] /\ u # t)
    BY <1>1 DEF Become
  <1>3. \A n \in Nodes : IF n = t[1] THEN life'[n] = v ELSE life'[n] = life[n]
    BY <1>1
  <1>4. th[Main(t[1])].pc # "joinSucc" /\ t[1] \in Joined
    BY DEF Announced, Joined
  <1>5. \A n \in Nodes : /\ th'[Main(n)].pc = "joinSucc" <=> th[Main(n)].pc = "joinSucc"
                         /\ n # t[1] => th'[Main(n)] = th[Main(n)]
    BY <1>1, <1>2, <1>4
  <1>6. Joined' = Joined
    BY <1>3, <1>4, <1>5 DEF Joined
  <1>7. Announced' = Announced
    <2>1. \A n \in Joined : n \in Announced' <=> n \in Announced
      BY <1>3, <1>5, <1>6 DEF Announced, Joined
    <2> QED
      BY <1>6, <2>1 DEF Announced
  <1>8. ASSUME NEW u \in Threads PROVE ThreadIn(Announced, u, th[u])'
    <2>1. CASE th'[u] = r /\ u = t
      BY <1>7, <2>1 DEF ThreadIn
    <2>2. CASE th'[u] = th[u] /\ u # t
      <3>1. /\ ThreadIn(Announced, u, th[u]) /\ u[1] \in Nodes
            /\ th[u].pc = "joinSucc" => u[1] \notin Joined
        BY ThreadKnows
      <3>2. u[1] = t[1] => u[1] \in Announced /\ th[u].pc # "joinSucc"
        BY <1>4, <3>1
      <3> QED
        BY <1>3, <1>7, <2>2, <3>1, <3>2 DEF ThreadIn
    <2> QED
      BY <1>2, <2>1, <2>2
  <1> QED
    BY <1>6, <1>7, <1>8 DEF KnownInv, PointersIn, SuccessorsIn, ThreadsIn

\* A node takes its successor: it has joined, and nobody knows it yet.
LEMMA JoinFoundKnown ==
  ASSUME IInv, KnownInv, NEW n \in Nodes, JoinFound(n)
  PROVE  KnownInv'
  <1> USE Fields
  <1> DEFINE t == Main(n)
             v == th[t].sv
             r == Call("initFinger", boot[n], 0)
             K == Announced \cup {Nil}
  <1>1. /\ t \in Threads /\ t[1] = n /\ t[2] = "main" /\ th[t].pc = "joinSucc" /\ v \in Announced
        /\ ThreadIn(Announced, t, th[t]) /\ th \in [Threads -> Record]
        /\ \A m \in Nodes : Main(m) \in Threads /\ Main(m)[1] = m
    <2>1. t \in Threads
      BY SetFacts
    <2> QED
      BY <2>1, SetFacts, ThreadKnows DEF Main, JoinFound, Ended, IInv, NodeTypes
  <1>2. /\ \A m \in Joined : m \in Nodes /\ succ[m] \in Announced
        /\ finger \in [Nodes -> [Index -> K]] /\ pred \in [Nodes -> K] /\ boot[n] \in K
        /\ succ \in [Nodes -> Nodes] /\ Announced \subseteq Nodes
    BY DEF KnownInv, PointersIn, SuccessorsIn, Announced, Joined, IInv, NodeTypes
  <1>3. life[n] = "joining" /\ n \notin Joined /\ n \notin Announced
    BY <1>1 DEF ThreadIn, Joined, Announced
  <1>4. Become(t, r) /\ UNCHANGED <<life, boot, anti, succList, lst>>
        /\ succ' = [succ EXCEPT ![n] = v] /\ finger' = [finger EXCEPT ![n][0] = v]
        /\ pred' = [pred EXCEPT ![n] = Nil]
    BY DEF JoinFound
  <1>5. r.pc = "initFinger" /\ r.at \in K /\ r.sv \in K
    BY <1>2
  <1> HIDE DEF t, v, r
  <1>6. \A m \in Nodes : (m = n /\ th'[Main(m)] = r) \/ (m # n /\ th'[Main(m)] = th[Main(m)])
    BY <1>1, <1>4 DEF Become, t
  <1>7. Joined' = Joined \cup {n}
    BY <1>3, <1>4, <1>5, <1>6 DEF Joined
  <1>8. Announced' = Announced
    <2>1. n \notin Announced'
      BY <1>3, <1>4, <1>5, <1>6 DEF Announced, LatePCs
    <2>2. \A m \in Joined : m \in Nodes /\ m # n
      BY <1>3 DEF Joined
    <2>3. \A m \in Joined : m \in Announced' <=> m \in Announced
      BY <1>4, <1>6, <1>7, <2>2 DEF Announced
    <2> QED
      BY <1>7, <2>1, <2>3 DEF Announced
  <1>9. PointersIn(Announced)'
    <2>1. finger' \in [Nodes -> [Index -> K]]
      BY <1>1, <1>2, <1>4
    <2>2. pred' \in [Nodes -> K]
      BY <1>2, <1>4
    <2> QED
      BY <1>4, <1>8, <2>1, <2>2 DEF KnownInv, PointersIn
  <1>10. SuccessorsIn(Announced)'
    BY <1>1, <1>2, <1>4, <1>7, <1>8 DEF SuccessorsIn
  <1>11. ThreadsIn(Announced)'
    <2>1. ASSUME NEW u \in Threads PROVE ThreadIn(Announced, u, th[u])'
      <3>1. (u = t /\ th'[u] = r) \/ th'[u] = th[u]
        BY <1>1, <1>4 DEF Become
      <3>2. ThreadIn(Announced, t, r)
        BY <1>1, <1>3, <1>5 DEF ThreadIn, EarlyPCs
      <3>3. ThreadIn(Announced, u, th'[u])
        BY <3>1, <3>2, ThreadKnows
      <3> QED
        BY <1>4, <1>8, <3>3 DEF ThreadIn
    <2> QED
      BY <1>4, <1>8, <2>1 DEF KnownInv, ThreadsIn
  <1> QED
    BY <1>9, <1>10, <1>11 DEF KnownInv

\* A node that may not join is nobody's neighbour, before or after.
LEMMA JoinFailedKnown ==
  ASSUME IInv, KnownInv, NEW n \in Nodes, JoinFailed(n)
  PROVE  KnownInv'
  <1> USE Fields
  <1> DEFINE t == Main(n)
  <1>1. /\ t \in Threads /\ th[t].pc = "joinSucc" /\ Become(t, Idle)
        /\ n \notin Joined /\ n \notin Announced
        /\ th \in [Threads -> Record] /\ \A m \in Nodes : Main(m) \in Threads /\ Main(m)[1] = m
        /\ life \in [Nodes -> {"off", "joining", "member", "leaving", "gone", "refused"}]
        /\ life' = [life EXCEPT ![n] = "refused"]
        /\ UNCHANGED <<boot, succ, pred, finger, anti, succList, lst>>
    BY SetFacts DEF JoinFailed, Ended, Joined, Announced, IInv, NodeTypes, Main
  <1>2. \A m \in Nodes : m # n => th'[Main(m)] = th[Main(m)] /\ life'[m] = life[m]
    BY <1>1 DEF Become
  <1>3. life'[n] = "refused"
    BY <1>1
  <1>4. Joined' = Joined
    BY <1>1, <1>2, <1>3 DEF Joined
  <1>5. Announced' = Announced
    <2>1. \A m \in Joined : m \in Announced' <=> m \in Announced
      BY <1>1, <1>2, <1>4 DEF Announced, Joined
    <2> QED
      BY <1>4, <2>1 DEF Announced
  <1>6. ASSUME NEW u \in Threads PROVE ThreadIn(Announced, u, th[u])'
    <2>1. CASE u = t
      BY <1>1, <1>5, <2>1 DEF ThreadIn, Become
    <2>2. CASE u # t
      <3>1. /\ th'[u] = th[u] /\ u[1] \in Nodes
            /\ ThreadIn(Announced, u, th[u]) /\ ThreadOK(u, th[u])
        BY <1>1, <2>2, ThreadKnows DEF Become
      <3>2. u[1] = n => u[2] # "main"
        BY <2>2 DEF Threads, Main
      <3>3. th[u].pc = "joinSucc" => u[2] = "main"
        BY <3>1 DEF ThreadOK, LookupPCs
      <3> QED
        BY <1>2, <1>5, <3>1, <3>2, <3>3 DEF ThreadIn
    <2> QED
      BY <2>1, <2>2
  <1> QED
    BY <1>1, <1>4, <1>5, <1>6 DEF KnownInv, PointersIn, SuccessorsIn, ThreadsIn

\* The steps of Join between the lookups.
LEMMA JoinKnown ==
  ASSUME IInv, KnownInv, NEW n \in Nodes, Join(n)
  PROVE  KnownInv'
  <1> USE Fields
  <1> DEFINE t == Main(n)
             K == Announced \cup {Nil}
             i == th[t].ix
             v == th[t].sv
             tardy == life[n] = "joining" /\ th[t].pc \in LatePCs
  <1>1. /\ t \in Threads /\ t[1] = n /\ t[2] = "main" /\ th[t] \in Record /\ ThreadOK(t, th[t])
        /\ v \in K
        /\ th[t].pc \in HasNode => v \in Announced
        /\ th[t].st = "found" => v \in Announced
        /\ th[t].pc \in HasTarget => th[t].at \in Announced
        /\ th[t].pc \notin {"idle"} \cup EarlyPCs => n \in Announced
        /\ th[t].pc \in EarlyPCs \ {"joinSucc"} => n \in Joined
    <2>1. t \in Threads
      BY SetFacts
    <2> QED
      BY <2>1, ThreadKnows DEF Main, ThreadIn
  <1>2. /\ Announced \subseteq Joined /\ Joined \subseteq Nodes
        /\ \A m \in Joined : succ[m] \in Announced
        /\ \A m \in Nodes : boot[m] \in K /\ pred[m] \in K
                            /\ \A j \in Index : finger[m][j] \in K /\ anti[m][j] \in K
        /\ lst \in [Threads -> Seq(Announced)] /\ 0 \in Index
    BY IDFacts DEF KnownInv, PointersIn, SuccessorsIn, ThreadsIn, Announced, Joined
  \* What the loops of Join continue with.
  <1>3. ASSUME NEW j,
               NEW r \in {AfterFinger(n, j), AfterAnti(n, j), OthersFrom(n, j), Idle,
                          Call("initAnti", boot[n], j), Call("initFinger", boot[n], j)}
        PROVE  /\ r.pc # "joinSucc" /\ r.sv \in K
               /\ r.pc \in EarlyPCs \cup LatePCs \/ r = Idle
               /\ r.at \in K \/ (r.at = n /\ r.pc \in LatePCs)
               /\ r = OthersFrom(n, j) => r.pc \in LatePCs
    BY <1>2, <1>3 DEF AfterFinger, AfterAnti, OthersFrom, EarlyPCs, LatePCs
  <1>4. CASE JoinFound(n)
    BY <1>4, JoinFoundKnown
  <1>5. CASE JoinFailed(n)
    BY <1>5, JoinFailedKnown
  <1> HIDE DEF t, i, v
  \* A step that stores no table entry.
  <1>6. ASSUME NEW r, n \in Joined, Become(t, r), r.pc # "joinSucc", r.sv \in K,
               life[n] = "joining" => r.pc \in EarlyPCs \cup LatePCs,
               r.at \in K \/ (r.at = n /\ r.pc \in LatePCs),
               tardy => r.pc \in LatePCs,
               UNCHANGED <<life, boot, succ, pred, finger, anti, succList, lst>>
        PROVE  KnownInv'
    <2>1. CASE Announced = {}
      <3>1. n \notin Announced /\ succ[n] \in Announced
        BY <1>2, <1>6, <2>1
      <3> QED
        BY <2>1, <3>1
    <2>2. PICK w : w \in Announced
      BY <1>2, <1>6
    <2> QED
      BY <1>2, <1>6, <2>2, MainKnown DEF t
  <1>7. CASE InitFingerFound(n)
    <2>1. /\ th[t].pc = "initFinger" /\ v \in Announced /\ i \in Index /\ n \in Joined /\ ~tardy
      BY <1>1, <1>7 DEF InitFingerFound, Ended, ThreadOK, LookupPCs, EarlyPCs, LatePCs, t, i
    <2>2. PICK r : r = AfterFinger(n, i)
      OBVIOUS
    <2>3. Become(t, r) /\ r # Idle
      BY <1>7, <2>2 DEF InitFingerFound, AfterFinger, t, i
    <2>4. /\ \/ UNCHANGED <<anti, succ>> /\ finger' = [finger EXCEPT ![n][i] = v]
             \/ /\ UNCHANGED anti /\ finger' = [finger EXCEPT ![n][i] = v]
                /\ succ' = [succ EXCEPT ![n] = v]
          /\ UNCHANGED <<life, boot, pred, succList, lst>>
      BY <1>7 DEF InitFingerFound, t, i, v
    <2>5. /\ r.pc # "joinSucc" /\ r.sv \in K /\ r.pc \in EarlyPCs \cup LatePCs
          /\ r.at \in K \/ (r.at = n /\ r.pc \in LatePCs)
      BY <1>3, <2>2, <2>3
    <2> QED
      BY <2>1, <2>3, <2>4, <2>5, MainKnown DEF t
  <1>8. CASE InitFingerFailed(n) \/ InitFingerNext(n)
    <2>1. th[t].pc \in {"initFinger", "fingerNext"} /\ n \in Joined /\ ~tardy
      BY <1>1, <1>8 DEF InitFingerFailed, InitFingerNext, Ended, EarlyPCs, LatePCs, t
    <2>2. PICK r : /\ Become(t, r) /\ r.pc # "joinSucc" /\ r.sv \in K
                   /\ r.pc \in EarlyPCs \cup LatePCs
                   /\ r.at \in K \/ (r.at = n /\ r.pc \in LatePCs)
      <3>1. CASE InitFingerFailed(n)
        <4>1. PICK r \in {Call("initAnti", boot[n], 0), AfterFinger(n, i)} : Become(t, r)
          BY <3>1 DEF InitFingerFailed, t, i
        <4>2. r # Idle
          BY <4>1 DEF AfterFinger
        <4> QED
          BY <1>3, <4>1, <4>2
      <3>2. CASE InitFingerNext(n)
        <4>1. i \in Index /\ i # 0 /\ i - 1 \in Index
          BY <1>1, <3>2, BitsAssumption
          DEF InitFingerNext, ThreadOK, HasIndex, UpperFinger, Index, t, i
        <4>2. finger[n][i - 1] \in K /\ boot[n] \in K
          BY <1>2, <4>1
        <4>3. \/ Become(t, Frame("fingerCopy", Nil, finger[n][i - 1], i))
              \/ Become(t, Call("initFinger", boot[n], i))
          BY <3>2 DEF InitFingerNext, t, i
        <4> QED
          BY <4>2, <4>3 DEF EarlyPCs
      <3> QED
        BY <1>8, <3>1, <3>2
    <2>3. UNCHANGED <<life, boot, succ, pred, finger, anti, succList, lst>>
      BY <1>8 DEF InitFingerFailed, InitFingerNext
    <2> QED
      BY <1>6, <2>1, <2>2, <2>3
  <1>9. CASE AntiFound(n) \/ AntiFailed(n) \/ AntiAsk(n)
    <2>1. /\ th[t].pc \in {"initAnti", "fixAnti", "antiPred"} /\ n \in Joined /\ ~tardy
          /\ th[t].pc = "fixAnti" => n \in Announced /\ life[n] # "joining"
      BY <1>1, <1>2, <1>9
      DEF AntiFound, AntiFailed, AntiAsk, Ended, EarlyPCs, LatePCs, Announced, t
    <2>2. PICK r : /\ Become(t, r) /\ r.pc # "joinSucc" /\ r.sv \in K
                   /\ life[n] = "joining" => r.pc \in EarlyPCs \cup LatePCs
                   /\ r.at \in K \/ (r.at = n /\ r.pc \in LatePCs)
      <3>1. CASE AntiFound(n)
        <4>1. Become(t, Frame("antiPred", Nil, v, i)) /\ v \in Announced
          BY <1>1, <3>1 DEF AntiFound, Ended, t, v, i
        <4> QED
          BY <4>1 DEF EarlyPCs
      <3>2. CASE AntiFailed(n)
        <4>1. CASE th[t].pc = "initAnti"
          <5>1. Become(t, AfterAnti(n, i)) /\ AfterAnti(n, i) # Idle
            BY <3>2, <4>1 DEF AntiFailed, AfterAnti, OthersFrom, t, i
          <5> QED
            BY <1>3, <5>1
        <4>2. CASE th[t].pc # "initAnti"
          <5>1. Become(t, Idle) /\ life[n] # "joining"
            BY <2>1, <3>2, <4>2 DEF AntiFailed, Ended, t, i
          <5> QED
            BY <1>3, <5>1
        <4> QED
          BY <4>1, <4>2
      <3>3. CASE AntiAsk(n)
        <4>1. v \in Announced /\ v # Nil
          BY <1>1, <1>2, <3>3, NodeFacts DEF AntiAsk, HasNode, t
        <4>2. PICK w \in {pred[v], v} : Become(t, Frame("antiStore", Nil, w, i))
          BY <3>3 DEF AntiAsk, t, v, i
        <4> QED
          BY <1>2, <4>1, <4>2 DEF EarlyPCs
      <3> QED
        BY <1>9, <3>1, <3>2, <3>3
    <2>3. UNCHANGED <<life, boot, succ, pred, finger, anti, succList, lst>>
      BY <1>9 DEF AntiFound, AntiFailed, AntiAsk
    <2> QED
      BY <1>6, <2>1, <2>2, <2>3
  <1>10. CASE InitFingerCopy(n) \/ AntiStore(n)
    <2>1. i \in Index /\ v \in Announced /\ n \in Joined /\ ~tardy
      BY <1>1, <1>10
      DEF InitFingerCopy, AntiStore, ThreadOK, HasIndex, HasNode, EarlyPCs, LatePCs, t, i
    <2>2. PICK r \in {AfterFinger(n, i), AfterAnti(n, i), Idle} :
            Become(t, r) /\ (r = Idle => life[n] # "joining")
      BY <1>10 DEF InitFingerCopy, AntiStore, AfterFinger, AfterAnti, OthersFrom, t, i
    <2>3. /\ \/ UNCHANGED <<anti, succ>> /\ finger' = [finger EXCEPT ![n][i] = v]
             \/ UNCHANGED <<finger, succ>> /\ anti' = [anti EXCEPT ![n][i] = v]
          /\ UNCHANGED <<life, boot, pred, succList, lst>>
      BY <1>10 DEF InitFingerCopy, AntiStore, t, i, v
    <2>4. /\ r.pc # "joinSucc" /\ r.sv \in K
          /\ life[n] = "joining" => r.pc \in EarlyPCs \cup LatePCs
          /\ r.at \in K \/ (r.at = n /\ r.pc \in LatePCs)
      BY <1>3, <2>2
    <2> QED
      BY <2>1, <2>2, <2>3, <2>4, MainKnown DEF t
  <1>11. CASE OthersFound(n) \/ OthersFailed(n)
    <2>1. /\ th[t].pc = "others" /\ n \in Announced /\ n \in Joined
          /\ OthersFound(n) => v \in Announced
      BY <1>1, <1>2, <1>11 DEF OthersFound, OthersFailed, Ended, EarlyPCs, t
    <2>2. PICK r \in {OthersFrom(n, i + 1), Frame("update", v, Nil, i)} :
            Become(t, r) /\ (r = Frame("update", v, Nil, i) => v \in K)
      BY <1>1, <1>11 DEF OthersFound, OthersFailed, t, v, i
    <2>3. /\ r.pc \in LatePCs /\ r.pc # "joinSucc" /\ r.sv \in K
          /\ r.at \in K \/ (r.at = n /\ r.pc \in LatePCs)
      BY <1>3, <2>2 DEF LatePCs
    <2>4. UNCHANGED <<life, boot, succ, pred, finger, anti, succList, lst>>
      BY <1>11 DEF OthersFound, OthersFailed
    <2> QED
      BY <1>6, <2>1, <2>2, <2>3, <2>4
  <1>12. CASE UpdateFingerTable(n)
    <2> DEFINE p == th[t].at
    <2>1. p \in Announced /\ p \in Joined /\ i \in Index /\ n \in Announced /\ n \in Joined
      BY <1>1, <1>2, <1>12 DEF UpdateFingerTable, ThreadOK, HasTarget, HasIndex, EarlyPCs, t, i
    <2>2. PICK r \in {Frame("update", pred[p], Nil, i), OthersFrom(n, i + 1)} : Become(t, r)
      BY <1>12 DEF UpdateFingerTable, t, i
    <2>3. /\ r.pc \in LatePCs /\ r.pc # "joinSucc" /\ r.sv \in K
          /\ r.at \in K \/ (r.at = n /\ r.pc \in LatePCs)
      BY <1>2, <1>3, <2>1, <2>2 DEF LatePCs
    <2>4. /\ \/ UNCHANGED <<finger, anti, succ>>
             \/ UNCHANGED <<anti, succ>> /\ finger' = [finger EXCEPT ![p][i] = n]
             \/ /\ UNCHANGED anti /\ finger' = [finger EXCEPT ![p][i] = n]
                /\ succ' = [succ EXCEPT ![p] = n]
          /\ UNCHANGED <<life, boot, pred, succList, lst>>
      BY <1>12 DEF UpdateFingerTable, t, i
    <2> HIDE DEF p
    <2> QED
      BY <2>1, <2>2, <2>3, <2>4, MainKnown DEF t
  <1>13. CASE MigrateKeys(n) \/ PullKeys(n)
    <2>1. n \in Announced /\ th[t].pc \in LatePCs
      BY <1>1, <1>13 DEF MigrateKeys, PullKeys, EarlyPCs, LatePCs, t
    <2>2. UNCHANGED <<boot, succ, pred, finger, anti, succList, lst>>
      BY <1>13 DEF MigrateKeys, PullKeys
    <2>3. CASE UNCHANGED life /\ \E r : r = Frame("pull", succ[n], pred[n], 0) /\ Become(t, r)
      <3>1. PICK r : r = Frame("pull", succ[n], pred[n], 0) /\ Become(t, r)
        BY <2>3
      <3>2. /\ r.pc \in LatePCs /\ r.pc # "joinSucc" /\ r.sv \in K
            /\ r.at \in K \/ (r.at = n /\ r.pc \in LatePCs)
        BY <1>2, <2>1, <3>1 DEF LatePCs
      <3> QED
        BY <1>2, <1>6, <2>1, <2>2, <2>3, <3>1, <3>2
    <2>4. CASE life' = [life EXCEPT ![t[1]] = "member"] /\ Become(t, Idle)
      <3>1. "member" \notin {"off", "refused", "joining"} /\ t[1] \in Announced
            /\ Idle.pc # "joinSucc" /\ Idle.at \in K /\ Idle.sv \in K
        BY <1>1, <2>1
      <3> HIDE DEF K
      <3> QED
        BY <1>1, <2>2, <2>4, <3>1, LifeKnown DEF K
    <2> QED
      BY <1>1, <1>13, <2>3, <2>4 DEF MigrateKeys, PullKeys, t
  <1> QED
    BY <1>4, <1>5, <1>7, <1>8, <1>9, <1>10, <1>11, <1>12, <1>13 DEF Join

\* The ticker of runStabilize.
LEMMA FixFingersKnown ==
  ASSUME IInv, KnownInv, NEW n \in Nodes, FixFinger(n) \/ FixFingerDone(n)
  PROVE  KnownInv'
  <1> USE Fields
  <1> DEFINE t == Main(n)
             v == th[t].sv
             i == th[t].ix
             K == Announced \cup {Nil}
  <1>1. /\ t \in Threads /\ t[1] = n /\ th[t] \in Record /\ ThreadOK(t, th[t])
        /\ th[t].st = "found" => v \in Announced
        /\ th[t].pc \notin {"idle"} \cup EarlyPCs => n \in Announced
    <2>1. t \in Threads
      BY SetFacts
    <2> QED
      BY <2>1, ThreadKnows DEF Main
  <1>2. Running(n) => n \in Announced
    BY MembersAnnounced DEF Running
  <1> HIDE DEF t, v, i
  <1>3. n \in Announced /\ n \in Joined
    BY <1>1, <1>2 DEF FixFinger, FixFingerDone, Ended, EarlyPCs, Announced, t
  <1>4. life[n] # "joining" \/ th[t].pc \in LatePCs
    BY <1>3 DEF Announced, t
  <1>5. life[n] # "joining"
    <2>1. CASE FixFinger(n)
      BY <2>1 DEF FixFinger, Running
    <2>2. CASE FixFingerDone(n)
      BY <1>4, <2>2 DEF FixFingerDone, Ended, LatePCs, t
    <2> QED
      BY <2>1, <2>2
  <1>6. PICK r : Become(t, r) /\ r.pc # "joinSucc" /\ r.at \in K /\ r.sv \in K
    <2>1. CASE FixFinger(n)
      BY <1>3, <2>1 DEF FixFinger, t
    <2>2. CASE FixFingerDone(n)
      BY <1>3, <2>2 DEF FixFingerDone, t
    <2> QED
      BY <2>1, <2>2
  <1>7. UNCHANGED <<life, boot, succ, pred, anti, succList, lst>>
    BY DEF FixFinger, FixFingerDone
  <1>8. \/ UNCHANGED finger
        \/ finger' = [finger EXCEPT ![n][i] = v] /\ v \in Announced /\ i \in Index
    BY <1>1 DEF FixFinger, FixFingerDone, Ended, ThreadOK, LookupPCs, t, i, v
  <1>9. 0 \in Index
    BY IDFacts
  <1> HIDE DEF K
  <1>10. CASE UNCHANGED finger
    BY <1>3, <1>5, <1>6, <1>7, <1>9, <1>10, MainKnown DEF t, K
  <1>11. CASE finger' = [finger EXCEPT ![n][i] = v] /\ v \in Announced /\ i \in Index
    BY <1>3, <1>5, <1>6, <1>7, <1>11, MainKnown DEF t, K
  <1> QED
    BY <1>8, <1>10, <1>11

\* The failure detectors.
LEMMA CheckPredecessorKnown ==
  ASSUME IInv, KnownInv, NEW n \in Nodes, CheckPredecessor(n)
  PROVE  KnownInv'
  <1> USE Fields
  <1> DEFINE t == <<n, "cp">>
             K == Announced \cup {Nil}
  <1>1. /\ t \in Threads /\ t[1] = n /\ t[2] = "cp" /\ th[t] \in Record /\ ThreadOK(t, th[t])
        /\ th[t].pc \notin {"idle"} \cup EarlyPCs => n \in Announced
        /\ lst \in [Threads -> Seq(Announced)]
    <2>1. t \in Threads
      BY SetFacts DEF Roles
    <2> QED
      BY <2>1, ThreadKnows DEF KnownInv, ThreadsIn
  <1>2. th[t].pc # "joinSucc" /\ n \in Announced
    <2>1. th[t].pc # "joinSucc"
      BY <1>1 DEF ThreadOK, LookupPCs
    <2>2. Running(n) => n \in Announced
      BY MembersAnnounced DEF Running
    <2> QED
      BY <1>1, <2>1, <2>2 DEF CheckPredecessor, CheckPredRead, CheckPredPing, EarlyPCs
  <1>3. pred \in [Nodes -> K]
    BY DEF KnownInv, PointersIn
  <1>4. \E r \in {Frame("ping", Nil, pred[n], 0), Idle} : Become(t, r)
    BY DEF CheckPredecessor, CheckPredRead, CheckPredPing
  <1>5. PICK r : Become(t, r) /\ r.pc # "joinSucc" /\ r.at \in K /\ r.sv \in K
    BY <1>3, <1>4
  <1>6. UNCHANGED <<life, boot, succ, finger, anti, succList, lst>>
    BY DEF CheckPredecessor, CheckPredRead, CheckPredPing
  <1>7. pred' \in [Nodes -> K]
    BY <1>3 DEF CheckPredecessor, CheckPredRead, CheckPredPing
  <1> HIDE DEF t
  <1>8. Quiet(t, r)
    BY <1>1, <1>2, <1>5 DEF Quiet
  <1>9. Announced' = Announced /\ Joined' = Joined /\ ThreadsIn(Announced)'
    BY <1>1, <1>2, <1>5, <1>6, <1>8, ThreadsMove
  <1> QED
    BY <1>6, <1>7, <1>9 DEF KnownInv, PointersIn, SuccessorsIn

LEMMA CheckSuccessorKnown ==
  ASSUME IInv, KnownInv, NEW n \in Nodes, CheckSuccessor(n)
  PROVE  KnownInv'
  <1> USE Fields
  <1> DEFINE t == <<n, "cs">>
             K == Announced \cup {Nil}
  <1>1. /\ t \in Threads /\ t[1] = n /\ t[2] = "cs" /\ th[t] \in Record /\ ThreadOK(t, th[t])
        /\ ThreadIn(Announced, t, th[t])
        /\ th[t].pc \in HasNode => th[t].sv \in Announced
        /\ th[t].pc \notin {"idle"} \cup EarlyPCs => n \in Announced
        /\ lst \in [Threads -> Seq(Announced)]
    <2>1. t \in Threads
      BY SetFacts DEF Roles
    <2> QED
      BY <2>1, ThreadKnows DEF KnownInv, ThreadsIn
  <1>2. th[t].pc # "joinSucc"
    BY <1>1 DEF ThreadOK, LookupPCs
  <1>3. Running(n) => n \in Announced
    BY MembersAnnounced DEF Running
  <1>4. /\ \A m \in Joined : m \in Nodes /\ succ[m] \in Announced
        /\ Announced \subseteq Joined
        /\ finger \in [Nodes -> [Index -> K]] /\ succ \in [Nodes -> Nodes]
        /\ succList \in [Nodes -> Seq(Announced)]
    BY DEF KnownInv, PointersIn, SuccessorsIn, Announced, Joined, IInv, NodeTypes
  <1> HIDE DEF t
  \* A step that stores no table entry.
  <1>5. ASSUME NEW r, n \in Announced, Become(t, r), r.pc # "joinSucc", r.at \in K, r.sv \in K,
               lst' \in [Threads -> Seq(Announced)],
               UNCHANGED <<life, boot, succ, pred, finger, anti, succList>>
        PROVE  KnownInv'
    <2>1. Quiet(t, r)
      BY <1>1, <1>2, <1>5 DEF Quiet
    <2> QED
      BY <1>1, <1>4, <1>5, <2>1, MoveKnown
  <1>6. CASE Stabilize(t)
    BY <1>1, <1>6, StabilizeKnown
  <1>7. CASE CheckSuccTake(n)
    <2>1. n \in Announced /\ th[t].sv \in Announced
      BY <1>1, <1>7 DEF CheckSuccTake, HasNode, EarlyPCs, t
    <2>2. PICK r : r = Frame("stabRead", Nil, Nil, 0)
      OBVIOUS
    <2>3. Become(t, r) /\ Quiet(t, r) /\ r.at \in K /\ r.sv \in K
      BY <1>1, <1>2, <1>7, <2>2 DEF CheckSuccTake, Quiet, t
    <2>4. PICK x : x = th[t].sv
      OBVIOUS
    <2>5. succ' = [succ EXCEPT ![n] = x] /\ finger' = [finger EXCEPT ![n][0] = x]
          /\ UNCHANGED <<life, boot, pred, anti, succList, lst>>
      BY <1>7, <2>4 DEF CheckSuccTake, t
    <2>6. Announced' = Announced /\ Joined' = Joined /\ ThreadsIn(Announced)'
      BY <1>1, <2>1, <2>3, <2>5, ThreadsMove
    <2>7. finger' \in [Nodes -> [Index -> K]]
      BY <1>4, <2>1, <2>4, <2>5
    <2>8. \A m \in Joined : succ'[m] \in Announced
      BY <1>4, <2>1, <2>4, <2>5
    <2> QED
      BY <2>5, <2>6, <2>7, <2>8 DEF KnownInv, PointersIn, SuccessorsIn
  <1>8. CASE CheckSuccRead(n)
    <2>1. n \in Announced
      BY <1>3, <1>8 DEF CheckSuccRead
    <2>2. PICK r : r = Frame("csPing", Nil, succ[n], 0)
      OBVIOUS
    <2>3. Become(t, r) /\ r.pc # "joinSucc" /\ r.at \in K /\ r.sv \in K
      BY <1>4, <1>8, <2>1, <2>2 DEF CheckSuccRead, t
    <2>4. lst' \in [Threads -> Seq(Announced)]
      BY <1>1, <1>4, <1>8, <2>1 DEF CheckSuccRead, t
    <2> QED
      BY <1>5, <1>8, <2>1, <2>3, <2>4 DEF CheckSuccRead
  <1>9. CASE CheckSuccPing(n)
    <2>1. n \in Announced /\ th[t].sv \in Announced
      BY <1>1, <1>9 DEF CheckSuccPing, HasNode, EarlyPCs, t
    <2>2. \E r \in {Idle, Frame("csWalk", Nil, th[t].sv, 0)} : Become(t, r)
      BY <1>9 DEF CheckSuccPing, t
    <2>3. PICK r : Become(t, r) /\ r.pc # "joinSucc" /\ r.at \in K /\ r.sv \in K
      BY <2>1, <2>2
    <2>4. lst' \in [Threads -> Seq(Announced)]
      BY <1>1, <1>9 DEF CheckSuccPing, t
    <2> QED
      BY <1>5, <1>9, <2>1, <2>3, <2>4 DEF CheckSuccPing
  <1>10. CASE CheckSuccWalk(n)
    <2> DEFINE s == Head(lst[t])
    <2>1. n \in Announced /\ lst[t] # <<>> /\ lst[t] \in Seq(Announced)
      BY <1>1, <1>10 DEF CheckSuccWalk, EarlyPCs, t
    <2>2. s \in Announced /\ Tail(lst[t]) \in Seq(Announced)
      BY <2>1
    <2> HIDE DEF s
    <2>3. /\ th' = th \/ Become(t, Frame("csTake", Nil, s, 0)) \/ Become(t, th[t])
          /\ \/ lst' = [lst EXCEPT ![t] = Tail(lst[t])]
             \/ lst' = [lst EXCEPT ![t] = <<>>]
      BY <1>10 DEF CheckSuccWalk, t, s
    <2>4. \E r \in {th[t], Frame("csTake", Nil, s, 0)} : Become(t, r)
      <3>1. th \in [Threads -> Record]
        BY DEF IInv, NodeTypes
      <3> QED
        BY <1>1, <2>3, <3>1 DEF Become
    <2>5. PICK r : Become(t, r) /\ r.pc # "joinSucc" /\ r.at \in K /\ r.sv \in K
      BY <1>1, <1>2, <2>2, <2>4 DEF ThreadIn
    <2>6. lst' \in [Threads -> Seq(Announced)]
      <3>1. PICK q : q \in Seq(Announced) /\ lst' = [lst EXCEPT ![t] = q]
        <4>1. <<>> \in Seq(Announced)
          OBVIOUS
        <4> QED
          BY <2>2, <2>3, <4>1
      <3> QED
        BY <1>1, <3>1
    <2> QED
      BY <1>5, <1>10, <2>1, <2>5, <2>6 DEF CheckSuccWalk
  <1>11. CASE CheckSuccGiveUp(n)
    <2>1. n \in Announced /\ Become(t, Idle)
      BY <1>1, <1>11 DEF CheckSuccGiveUp, EarlyPCs, t
    <2>2. PICK r : Become(t, r) /\ r.pc # "joinSucc" /\ r.at \in K /\ r.sv \in K
      BY <2>1
    <2> QED
      BY <1>1, <1>5, <1>11, <2>1, <2>2 DEF CheckSuccGiveUp
  <1> QED
    BY <1>6, <1>7, <1>8, <1>9, <1>10, <1>11 DEF CheckSuccessor, t

\* Departures.
LEMMA LeaveKnown ==
  ASSUME IInv, KnownInv, NEW n \in Nodes, Leave(n) \/ CrashNode(n) \/ KillNode(n)
  PROVE  KnownInv'
  <1> USE Fields
  <1> DEFINE t == <<n, "ctl">>
             K == Announced \cup {Nil}
             at == th[t].at
             v == th[t].sv
  <1>1. /\ t \in Threads /\ t[1] = n /\ t[2] = "ctl" /\ th[t] \in Record /\ ThreadOK(t, th[t])
        /\ at \in K /\ v \in K
        /\ th[t].pc \in HasNode => v \in Announced
        /\ th[t].pc \notin {"idle"} \cup EarlyPCs => n \in Announced
        /\ lst \in [Threads -> Seq(Announced)]
    <2>1. t \in Threads
      BY SetFacts DEF Roles
    <2> QED
      BY <2>1, ThreadKnows DEF KnownInv, ThreadsIn, ThreadIn
  <1>2. th[t].pc # "joinSucc"
    BY <1>1 DEF ThreadOK, LookupPCs
  <1>3. life[n] = "member" => n \in Announced
    BY MembersAnnounced
  <1>4. /\ \A m \in Joined : m \in Nodes /\ succ[m] \in Announced
        /\ Announced \subseteq Joined /\ Announced \subseteq Nodes
        /\ pred \in [Nodes -> K]
    BY DEF KnownInv, PointersIn, SuccessorsIn, Announced, Joined
  <1> HIDE DEF t, at, v
  <1>5. n \in Announced
    BY <1>1, <1>2, <1>3 DEF Leave, LeaveRead, LeaveTransfer, LeaveNotifySucc, LeaveNotifyPred,
                            Stop, CrashNode, KillNode, EarlyPCs, t
  <1>6. CASE LeaveRead(n)
    <2>1. PICK r \in {Frame("leaveTransfer", pred[n], succ[n], 0),
                      Frame("leavePred", pred[n], succ[n], 0)} : Become(t, r)
      BY <1>6 DEF LeaveRead, t
    <2>2. Quiet(t, r) /\ r.at \in K /\ r.sv \in K
      BY <1>1, <1>2, <1>4, <1>5, <2>1 DEF Quiet
    <2> QED
      BY <1>1, <1>4, <1>5, <1>6, <2>1, <2>2, MoveKnown DEF LeaveRead
  <1>7. CASE Stop(n) \/ CrashNode(n) \/ KillNode(n)
    <2>1. PICK r \in {Idle, Frame("stop", Nil, Nil, 0), Frame("leaveRead", Nil, Nil, 0)} : Become(t, r)
      BY <1>7 DEF Stop, CrashNode, KillNode, t
    <2>2. r.pc # "joinSucc" /\ r.at \in K /\ r.sv \in K
      BY <2>1
    <2>3. PICK x \in {"leaving", "gone"} : life' = [life EXCEPT ![t[1]] = x]
      BY <1>1, <1>7 DEF Stop, CrashNode, KillNode
    <2>4. UNCHANGED <<boot, succ, pred, finger, anti, succList, lst>>
      BY <1>7 DEF Stop, CrashNode, KillNode
    <2>5. x \notin {"off", "refused", "joining"} /\ t[1] \in Announced
      BY <1>1, <1>5, <2>3
    <2> HIDE DEF K
    <2> QED
      BY <1>1, <2>1, <2>2, <2>3, <2>4, <2>5, LifeKnown DEF K
  <1>8. CASE LeaveTransfer(n) \/ LeaveNotifySucc(n) \/ LeaveNotifyPred(n)
    <2>1. PICK p \in {"leaveSucc", "leavePred", "stop"} : Become(t, [th[t] EXCEPT !.pc = p])
      BY <1>8 DEF LeaveTransfer, LeaveNotifySucc, LeaveNotifyPred, t
    <2>2. PICK r : r = [th[t] EXCEPT !.pc = p]
      OBVIOUS
    <2>3. Become(t, r) /\ r.pc # "joinSucc" /\ r.at \in K /\ r.sv \in K
      BY <1>1, <2>1, <2>2 DEF Record, at, v
    <2>4. Quiet(t, r)
      BY <1>1, <1>2, <2>3 DEF Quiet
    <2>5. UNCHANGED <<life, boot, succ, finger, anti, succList, lst>>
      BY <1>8 DEF LeaveTransfer, LeaveNotifySucc, LeaveNotifyPred
    <2>6. Announced' = Announced /\ Joined' = Joined /\ ThreadsIn(Announced)'
      BY <1>1, <1>5, <2>3, <2>4, <2>5, ThreadsMove
    <2>7. pred' \in [Nodes -> K]
      <3>1. CASE UNCHANGED pred
        BY <1>4, <3>1
      <3>2. CASE LeaveNotifySucc(n)
        <4>1. v \in Announced /\ (at # Nil => Notify(v, at))
              /\ (at = Nil => UNCHANGED pred)
          BY <1>1, <3>2 DEF LeaveNotifySucc, HasNode, t, at, v
        <4>2. at # Nil => at \in Announced
          BY <1>1
        <4> QED
          BY <1>4, <4>1, <4>2, NotifyKnown
      <3>3. CASE LeaveNotifyPred(n)
        <4>1. v \in Announced /\ (at \notin {Nil, n} => Notify(at, v))
              /\ (at \in {Nil, n} => UNCHANGED pred)
          BY <1>1, <3>3 DEF LeaveNotifyPred, HasNode, t, at, v
        <4>2. at # Nil => at \in Announced
          BY <1>1
        <4> QED
          BY <1>4, <4>1, <4>2, NotifyKnown
      <3> QED
        BY <1>8, <3>1, <3>2, <3>3 DEF LeaveTransfer
    <2> QED
      BY <2>5, <2>6, <2>7 DEF KnownInv, PointersIn, SuccessorsIn
  <1> QED
    BY <1>6, <1>7, <1>8 DEF Leave

\* A node founds a ring.
LEMMA CreateRingKnown ==
  ASSUME IInv, KnownInv, NEW n \in Nodes, CreateRing(n)
  PROVE  KnownInv'
  <1> USE Fields
  <1>0. PICK A : A = Announced \cup {n}
    OBVIOUS
  <1> DEFINE K == A \cup {Nil}
  <1>1. /\ Main(n) \in Threads
        /\ \A m \in Nodes : Main(m) \in Threads /\ Main(m)[1] = m
        /\ life \in [Nodes -> {"off", "joining", "member", "leaving", "gone", "refused"}]
        /\ \A u \in Threads : u[1] \in Nodes
        /\ succ \in [Nodes -> Nodes]
    BY SetFacts DEF Main, IInv, NodeTypes
  <1>2. /\ life[n] = "off" /\ life' = [life EXCEPT ![n] = "member"]
        /\ succ' = [succ EXCEPT ![n] = n] /\ pred' = [pred EXCEPT ![n] = Nil]
        /\ finger' = [finger EXCEPT ![n] = [i \in Index |-> n]]
        /\ UNCHANGED <<boot, anti, succList, th, lst>>
    BY DEF CreateRing
  <1>3. ASSUME NEW t \in Threads, t[1] = n PROVE th[t] = Idle
    <2>1. ThreadIn(Announced, t, th[t])
      BY ThreadKnows
    <2>2. n \notin Announced
      BY <1>2 DEF Announced, Joined
    <2> QED
      BY <1>2, <1>3, <2>1, <2>2 DEF ThreadIn
  <1>4. th[Main(n)].pc = "idle" /\ n \notin Joined
    BY <1>1, <1>2, <1>3 DEF Main, Joined
  <1>5. \A m \in Nodes : IF m = n THEN life'[m] = "member" ELSE life'[m] = life[m]
    BY <1>1, <1>2
  <1>6. Joined' = Joined \cup {n}
    BY <1>2, <1>4, <1>5 DEF Joined
  <1>7. Announced' = A
    <2>1. \A m \in Joined : m \in Announced' <=> m \in Announced
      BY <1>2, <1>4, <1>5, <1>6 DEF Announced, Joined
    <2>2. n \in Announced'
      BY <1>5, <1>6 DEF Announced
    <2> QED
      BY <1>0, <1>6, <2>1, <2>2 DEF Announced
  <1>8. PointersIn(A)'
    <2>1. /\ boot \in [Nodes -> K] /\ pred \in [Nodes -> K]
          /\ finger \in [Nodes -> [Index -> K]] /\ anti \in [Nodes -> [Index -> K]]
          /\ succList \in [Nodes -> Seq(A)]
      BY <1>0 DEF KnownInv, PointersIn
    <2>2. pred' \in [Nodes -> K]
      BY <1>2, <2>1
    <2>3. PICK f \in [Index -> K] : finger' = [finger EXCEPT ![n] = f]
      BY <1>0, <1>2
    <2>4. finger' \in [Nodes -> [Index -> K]]
      <3> HIDE DEF K
      <3> QED
        BY <2>1, <2>3
    <2> QED
      BY <1>2, <2>1, <2>2, <2>4 DEF PointersIn
  <1>9. \A m \in Joined' : succ'[m] \in A
    BY <1>0, <1>1, <1>2, <1>6 DEF KnownInv, SuccessorsIn, Joined
  <1>10. ASSUME NEW u \in Threads PROVE ThreadIn(A, u, th[u])'
    <2>1. CASE u[1] = n
      <3>1. th'[u] = Idle
        BY <1>2, <1>3, <2>1
      <3> QED
        BY <1>0, <1>1, <2>1, <3>1, Fields DEF ThreadIn
    <2>2. CASE u[1] # n
      <3>1. ThreadIn(Announced, u, th[u]) /\ life'[u[1]] = life[u[1]] /\ th'[u] = th[u]
        BY <1>1, <1>2, <1>5, <2>2, ThreadKnows
      <3> QED
        BY <1>0, <2>2, <3>1 DEF ThreadIn
    <2> QED
      BY <2>1, <2>2
  <1>11. lst' \in [Threads -> Seq(A)]
    BY <1>0, <1>2 DEF KnownInv, ThreadsIn
  <1>12. PointersIn(Announced)' /\ SuccessorsIn(Announced)' /\ ThreadsIn(Announced)'
    BY <1>7, <1>8, <1>9, <1>10, <1>11 DEF PointersIn, SuccessorsIn, ThreadsIn, ThreadIn
  <1> QED
    BY <1>12 DEF KnownInv

\* A node is spawned, or stores a key.
LEMMA EnvironmentKnown ==
  ASSUME IInv, KnownInv, NEW n \in Nodes,
         CreateRing(n) \/ Spawn(n) \/ Put(n)
  PROVE  KnownInv'
  <1> USE Fields
  <1> DEFINE t == Main(n)
             K == Announced \cup {Nil}
  <1>1. /\ t \in Threads /\ t[1] = n /\ t[2] = "main"
        /\ th \in [Threads -> Record] /\ \A m \in Nodes : Main(m) \in Threads /\ Main(m)[1] = m
        /\ life \in [Nodes -> {"off", "joining", "member", "leaving", "gone", "refused"}]
        /\ \A u \in Threads : u[1] \in Nodes
    BY SetFacts DEF Main, IInv, NodeTypes
  <1>2. \A m \in Members : m \in Announced
    BY MembersAnnounced DEF Members
  <1>3. CASE Spawn(n)
    <2>1. PICK b \in Members : boot' = [boot EXCEPT ![n] = b] /\ Become(t, Call("joinSucc", b, 0))
      BY <1>3 DEF Spawn
    <2>2. PICK r : r = Call("joinSucc", b, 0)
      OBVIOUS
    <2>3. Become(t, r) /\ r.pc = "joinSucc" /\ r.at \in K /\ r.sv \in K
      BY <1>2, <2>1, <2>2
    <2>4. /\ life[n] = "off" /\ life' = [life EXCEPT ![n] = "joining"]
          /\ UNCHANGED <<succ, pred, finger, anti, succList, lst>>
      BY <1>3 DEF Spawn
    <2>5. \A m \in Nodes : IF m = n THEN life'[m] = "joining" /\ th'[Main(m)] = r
                           ELSE life'[m] = life[m] /\ th'[Main(m)] = th[Main(m)]
      BY <1>1, <2>3, <2>4 DEF Become
    <2>6. n \notin Joined /\ n \notin Announced
      BY <2>4 DEF Joined, Announced
    <2>7. Joined' = Joined
      BY <2>3, <2>5, <2>6 DEF Joined
    <2>8. Announced' = Announced
      <3>1. \A m \in Joined : m \in Announced' <=> m \in Announced
        BY <2>5, <2>6, <2>7 DEF Announced, Joined
      <3> QED
        BY <2>7, <3>1 DEF Announced
    <2>9. ASSUME NEW u \in Threads PROVE ThreadIn(Announced, u, th[u])'
      <3>1. CASE u = t
        <4>1. th'[u] = r
          BY <1>1, <2>3, <3>1 DEF Become
        <4>2. ThreadIn(Announced, u, r)'
          BY <1>1, <2>3, <2>5, <2>8, <3>1 DEF ThreadIn, EarlyPCs
        <4> QED
          BY <4>1, <4>2 DEF ThreadIn
      <3>2. CASE u # t
        <4>1. /\ th'[u] = th[u] /\ ThreadIn(Announced, u, th[u]) /\ u[1] \in Nodes
              /\ u[1] = n => th[u] = Idle
          BY <1>1, <2>3, <2>4, <2>6, <3>2, ThreadKnows DEF Become, ThreadIn
        <4> QED
          BY <2>5, <2>8, <4>1 DEF ThreadIn
      <3> QED
        BY <3>1, <3>2
    <2>10. boot' \in [Nodes -> K]
      BY <1>2, <2>1 DEF KnownInv, PointersIn
    <2> QED
      BY <2>4, <2>7, <2>8, <2>9, <2>10 DEF KnownInv, PointersIn, SuccessorsIn, ThreadsIn
  <1>4. CASE Put(n)
    <2>1. UNCHANGED <<life, boot, succ, pred, finger, anti, succList, th, lst>>
      BY <1>4 DEF Put, FindHandler, PutEntry
    <2> QED
      BY SMTT(30), <2>1 DEF KnownInv, PointersIn, SuccessorsIn, ThreadsIn, ThreadIn, Announced, Joined
  <1> QED
    BY <1>3, <1>4, CreateRingKnown

\* Every step names announced nodes only.
LEMMA KnownStep == IInv /\ KnownInv /\ [Next]_vars => KnownInv'
  <1> SUFFICES ASSUME IInv, KnownInv, [Next]_vars PROVE KnownInv'
    OBVIOUS
  <1>1. ASSUME NEW n \in Nodes, MainStep(n) PROVE KnownInv'
    <2>1. Main(n) \in Threads
      BY SetFacts
    <2> QED
      BY <1>1, <2>1, FindSuccessorKnown, JoinKnown, StabilizeKnown, FixFingersKnown DEF MainStep
  <1>2. CASE UNCHANGED vars
    BY <1>2 DEF vars, KnownInv, PointersIn, SuccessorsIn, ThreadsIn, ThreadIn, Announced, Joined
  <1> QED
    BY <1>1, <1>2, CheckPredecessorKnown, CheckSuccessorKnown, LeaveKnown, EnvironmentKnown
    DEF Next

\* The founder knows itself only.
LEMMA KnownInit == Init => KnownInv
  <1> SUFFICES ASSUME Init PROVE KnownInv
    OBVIOUS
  <1> USE Fields, NodeFacts
  <1>1. Joined = {First} /\ Announced = {First}
    BY SetFacts DEF Init, Announced, Joined
  <1>2. <<>> \in Seq(Announced)
    OBVIOUS
  <1>3. PointersIn(Announced) /\ SuccessorsIn(Announced)
    BY <1>1, <1>2 DEF Init, PointersIn, SuccessorsIn
  <1>4. ThreadsIn(Announced)
    BY <1>2 DEF Init, ThreadsIn, ThreadIn
  <1> QED
    BY <1>3, <1>4 DEF KnownInv

-----------------------------------------------------------------------------
(* One node leaves, the others stay and answer: no key is lost.            *)

\* x is the only node that may leave, it is not the founder, and no RPC is lost.
OneDeparture(x) ==
  /\ x \in Nodes \ {First}
  /\ CrashSet = {} /\ KillSet \subseteq {x} /\ MaxLosses = 0

\* What a thread about to run frame r knows when only x may leave.
LeaverThread(x, t, r) ==
  /\ t[2] = "main" /\ r.pc \in JoinPCs => life[t[1]] = "joining"
  /\ t[2] = "ctl" /\ t[1] = x /\ r.pc # "idle" => life[x] = "leaving"
  /\ t[2] = "ctl" /\ t[1] # x => r.pc = "idle"
  /\ t[2] = "cs" /\ t[1] = x => r.pc = "idle"
  /\ r.pc = "stabAlone" => t[1] # x
  /\ r.pc = "update" => r.at # t[1]
  /\ r.pc = "leaveTransfer" => r.sv # x

\* Nobody else leaves, and x has a successor that is another node.
OneLeaver(x) ==
  /\ \A n \in Nodes \ {x} : life[n] \notin {"leaving", "gone"}
  /\ life[First] = "member"
  /\ x \in Joined => succ[x] # x
  /\ \A t \in Threads : LeaverThread(x, t, th[t])

\* The departure is past the transfer of its keys.
PastPCs == {"leaveSucc", "leavePred", "stop"}

\* Keys are held by nodes that have joined, which also run the writes under way, and
\* those x holds once past the transfer came late or are held elsewhere too.
KeysKept(x) ==
  /\ \A n \in Nodes : store[n] # {} => n \in Joined
  /\ \A w \in puts : w[1] \in Joined
  /\ HandedOver(x) =>
       \A k \in store[x] : <<x, k>> \in late \/ \E m \in Nodes \ {x} : k \in store[m]

LeaverInv(x) == OneLeaver(x) /\ KeysKept(x)

\* No key is lost in a state of the invariant.
LEMMA KeptSurvive ==
  ASSUME IInv, NEW x \in Nodes, LeaverInv(x)
  PROVE  KeysSurvive
  <1> SUFFICES ASSUME NEW k \in Keys, NEW n \in Nodes, k \in store[n], <<n, k>> \notin late
               PROVE  \E m \in Nodes : k \in store[m] /\ life[m] \in {"joining", "member", "leaving"}
    BY DEF KeysSurvive
  <1>1. ASSUME NEW m \in Nodes \ {x}, k \in store[m]
        PROVE  life[m] \in {"joining", "member"}
    BY <1>1 DEF IInv, NodeTypes, LeaverInv, OneLeaver, KeysKept, Joined
  <1>2. CASE n # x
    BY <1>1, <1>2
  <1>3. CASE n = x /\ life[x] # "gone"
    BY <1>3 DEF IInv, NodeTypes, LeaverInv, KeysKept, Joined
  <1>4. CASE n = x /\ life[x] = "gone"
    <2>1. PICK m \in Nodes \ {x} : k \in store[m]
      BY <1>4 DEF LeaverInv, KeysKept, HandedOver, PastPCs
    <2> QED
      BY <1>1, <2>1
  <1> QED
    BY <1>2, <1>3, <1>4

\* One thread moves and nobody's life changes.
LEMMA LeaverMove ==
  ASSUME IInv, NEW x \in Nodes, OneLeaver(x), NEW t \in Threads, NEW r, Become(t, r),
         UNCHANGED life, LeaverThread(x, t, r), x \in Joined' => succ'[x] # x
  PROVE  OneLeaver(x)'
  <1>1. th \in [Threads -> Record]
    BY DEF IInv, NodeTypes
  <1>2. ASSUME NEW u \in Threads PROVE LeaverThread(x, u, th[u])'
    <2>1. (u = t /\ th'[u] = r) \/ th'[u] = th[u]
      BY <1>1 DEF Become
    <2>2. LeaverThread(x, u, th'[u])
      BY <2>1 DEF OneLeaver
    <2> QED
      BY <2>2 DEF LeaverThread
  <1> QED
    BY <1>2 DEF OneLeaver

\* Besides, no store changes and x does not get past its transfer.
LEMMA LeaverKeeps ==
  ASSUME IInv, NEW x \in Nodes, LeaverInv(x), NEW t \in Threads, NEW r, Become(t, r),
         UNCHANGED <<life, store>>, UNCHANGED client, LeaverThread(x, t, r),
         r.pc = "joinSucc" => th[t].pc = "joinSucc",
         t[2] = "ctl" /\ r.pc \in PastPCs => th[t].pc \in PastPCs,
         x \in Joined' => succ'[x] # x
  PROVE  LeaverInv(x)'
  <1>1. th \in [Threads -> Record] /\ \A n \in Nodes : Main(n) \in Threads
        /\ <<x, "ctl">> \in Threads
    BY SetFacts DEF IInv, NodeTypes, Roles
  <1>2. Joined \subseteq Joined'
    BY <1>1 DEF Joined, Become
  <1>3. HandedOver(x)' => HandedOver(x)
    BY <1>1 DEF HandedOver, PastPCs, Become
  <1>4. OneLeaver(x)'
    BY LeaverMove DEF LeaverInv
  <1> QED
    BY <1>2, <1>3, <1>4 DEF LeaverInv, KeysKept, client

\* The successors do not change either.
LEMMA LeaverStays ==
  ASSUME IInv, NEW x \in Nodes, LeaverInv(x), NEW t \in Threads, NEW r, Become(t, r),
         UNCHANGED <<life, store, succ>>, UNCHANGED client, LeaverThread(x, t, r),
         r.pc = "joinSucc" <=> th[t].pc = "joinSucc",
         t[2] = "ctl" /\ r.pc \in PastPCs => th[t].pc \in PastPCs
  PROVE  LeaverInv(x)'
  <1>1. th \in [Threads -> Record] /\ \A n \in Nodes : Main(n) \in Threads
    BY SetFacts DEF IInv, NodeTypes
  <1>2. \A n \in Nodes : th'[Main(n)].pc = "joinSucc" <=> th[Main(n)].pc = "joinSucc"
    BY <1>1 DEF Become
  <1>3. Joined' = Joined
    BY <1>2 DEF Joined
  <1>4. x \in Joined' => succ'[x] # x
    BY <1>3 DEF LeaverInv, OneLeaver
  <1> QED
    BY <1>4, LeaverKeeps

\* A node that answers RPCs, if it is not x.
LEMMA OthersRegistered ==
  ASSUME IInv, NEW x, OneLeaver(x), NEW m \in Announced, m # x
  PROVE  m \in Registered
  <1>1. m \in Nodes /\ life[m] \notin {"off", "refused", "leaving", "gone"}
    BY DEF OneLeaver, Announced, Joined
  <1> QED
    BY <1>1 DEF Registered, IInv, NodeTypes

\* FindSuccessor.
LEMMA FindSuccessorLeaver ==
  ASSUME IInv, NEW x \in Nodes, LeaverInv(x), NEW t \in Threads, FindSuccessor(t),
         UNCHANGED client
  PROVE  LeaverInv(x)'
  <1>1. th[t] \in Record /\ ThreadOK(t, th[t]) /\ LeaverThread(x, t, th[t])
    BY DEF IInv, NodeTypes, ThreadsOK, LeaverInv, OneLeaver
  <1>2. PICK r : Become(t, r) /\ r.pc = th[t].pc
    <2>1. CASE FindRead(t)
      <3> DEFINE s == succ[th[t].at]
                 v == IF IsInIntervalRightClosed(LookupID(t), th[t].at, s) THEN "found" ELSE "route"
      <3>1. PICK r : r = [th[t] EXCEPT !.sv = s, !.st = v]
        OBVIOUS
      <3>2. Become(t, r)
        BY <2>1, <3>1 DEF FindRead
      <3>3. r.pc = th[t].pc
        BY <1>1, <3>1 DEF Record
      <3> HIDE DEF s, v
      <3> QED
        BY <3>2, <3>3
    <2>2. CASE FindRoute(t)
      <3> DEFINE c == ClosestPrecedingNode(th[t].at, LookupID(t))
      <3>1. PICK r \in {[th[t] EXCEPT !.st = "found"],
                        [th[t] EXCEPT !.st = "read", !.at = c, !.sv = Nil]} : Become(t, r)
        BY <2>2 DEF FindRoute
      <3> HIDE DEF c
      <3> QED
        BY <1>1, <3>1 DEF Record
    <2>3. CASE FindFail(t)
      BY <1>1, <2>3 DEF FindFail, Record
    <2> QED
      BY <2>1, <2>2, <2>3 DEF FindSuccessor
  <1>3. th[t].pc \in LookupPCs /\ t[2] = "main"
    BY <1>1 DEF FindSuccessor, FindRead, FindRoute, FindFail, ThreadOK
  <1>4. LeaverThread(x, t, r)
    BY <1>1, <1>2, <1>3 DEF LeaverThread, LookupPCs
  <1>5. UNCHANGED <<life, store, succ>>
    BY DEF FindSuccessor, FindRead, FindRoute, FindFail
  <1> QED
    BY <1>1, <1>2, <1>3, <1>4, <1>5, LeaverStays

\* Join.
LEMMA JoinLeaver ==
  ASSUME NEW x, OneDeparture(x), IInv, KnownInv, LeaverInv(x), NEW n \in Nodes, Join(n),
         UNCHANGED client
  PROVE  LeaverInv(x)'
  <1> USE Fields
  <1> DEFINE t == Main(n)
             v == th[t].sv
             i == th[t].ix
  <1>1. /\ t \in Threads /\ t[1] = n /\ t[2] = "main" /\ th[t] \in Record /\ ThreadOK(t, th[t])
        /\ LeaverThread(x, t, th[t]) /\ x \in Nodes /\ x # First
        /\ th[t].pc \notin {"idle"} \cup EarlyPCs => n \in Announced
        /\ th[t].pc \in EarlyPCs \ {"joinSucc"} => n \in Joined
        /\ th[t].st = "found" => v \in Announced
        /\ th[t].pc \in HasTarget => th[t].at \in Announced
        /\ \A m \in Nodes : Main(m) \in Threads /\ Main(m)[1] = m
        /\ th \in [Threads -> Record] /\ succ \in [Nodes -> Nodes]
        /\ life \in [Nodes -> {"off", "joining", "member", "leaving", "gone", "refused"}]
        /\ store \in [Nodes -> SUBSET Keys]
    <2>1. t \in Threads
      BY SetFacts
    <2> QED
      BY SMTT(30), <2>1, SetFacts, ThreadKnows DEF Main, OneDeparture, LeaverInv, OneLeaver, IInv, NodeTypes
  <1>2. /\ \A m \in Nodes \ {x} : life[m] \notin {"leaving", "gone"}
        /\ life[First] = "member" /\ First \in Nodes
        /\ x \in Joined => succ[x] # x
    BY NodeFacts DEF LeaverInv, OneLeaver
  \* What the loops of Join continue with.
  <1>3. ASSUME NEW j,
               NEW r \in {AfterFinger(n, j), AfterAnti(n, j), OthersFrom(n, j), Idle,
                          Call("initAnti", boot[n], j), Call("initFinger", boot[n], j)}
        PROVE  /\ r.pc \notin {"joinSucc", "update", "stabAlone", "leaveTransfer"}
               /\ r.pc \in JoinPCs \/ r = Idle
    BY <1>3 DEF AfterFinger, AfterAnti, OthersFrom, JoinPCs
  <1> HIDE DEF t, v, i
  \* A step of a joiner that changes no successor.
  <1>4. ASSUME NEW r, Become(t, r), r.pc \notin {"joinSucc", "stabAlone", "leaveTransfer"},
               r.pc \in JoinPCs => life[n] = "joining", r.pc = "update" => r.at # n,
               th[t].pc # "joinSucc", UNCHANGED <<life, store, succ>>
        PROVE  LeaverInv(x)'
    <2>1. LeaverThread(x, t, r)
      BY <1>1, <1>4 DEF LeaverThread
    <2> QED
      BY <1>1, <1>4, <2>1, LeaverStays
  <1>5. CASE JoinFound(n)
    <2>1. PICK r : r = Call("initFinger", boot[n], 0)
      OBVIOUS
    <2>2. Become(t, r) /\ th[t].pc = "joinSucc" /\ succ' = [succ EXCEPT ![n] = v]
          /\ UNCHANGED <<life, store>> /\ v \in Announced /\ n \notin Announced
      BY <1>1, <1>5, <2>1 DEF JoinFound, Ended, Announced, Joined, t, v
    <2>3. LeaverThread(x, t, r)
      BY <1>1, <2>1, <2>2 DEF LeaverThread, JoinPCs
    <2>4. x # n /\ x \in Joined' => x \in Joined
      BY <1>1, <2>2 DEF Joined, Become, t, Main
    <2>5. x \in Joined' => succ'[x] # x
      BY <1>1, <1>2, <2>2, <2>4
    <2> QED
      BY <1>1, <2>1, <2>2, <2>3, <2>5, LeaverKeeps
  <1>6. CASE JoinFailed(n)
    <2>1. /\ th[t].pc = "joinSucc" /\ Become(t, Idle) /\ life' = [life EXCEPT ![n] = "refused"]
          /\ UNCHANGED <<store, succ>> /\ life[n] = "joining" /\ n \notin Joined
      BY <1>1, <1>6 DEF JoinFailed, Ended, LeaverThread, JoinPCs, Joined, t
    <2>2. \A m \in Nodes : m # n => th'[Main(m)] = th[Main(m)] /\ life'[m] = life[m]
      BY <1>1, <2>1 DEF Become, t
    <2>3. Joined' = Joined
      BY <1>1, <2>1, <2>2 DEF Joined
    <2>4. ASSUME NEW u \in Threads PROVE LeaverThread(x, u, th[u])'
      <3>1. CASE u = t
        BY <1>1, <2>1, <3>1 DEF LeaverThread, JoinPCs, Become
      <3>2. CASE u # t
        <4>1. th'[u] = th[u] /\ LeaverThread(x, u, th[u]) /\ u[1] \in Nodes
              /\ (u[2] = "main" => u[1] # n)
          BY <1>1, <2>1, <3>2 DEF Become, LeaverInv, OneLeaver, Threads, t, Main
        <4> QED
          BY <1>1, <2>1, <2>2, <4>1 DEF LeaverThread
      <3> QED
        BY <3>1, <3>2
    <2>5. OneLeaver(x)'
      BY <1>1, <1>2, <2>1, <2>2, <2>3, <2>4 DEF OneLeaver
    <2>6. <<x, "ctl">> \in Threads /\ <<x, "ctl">> # t
      BY <1>1, SetFacts DEF Roles
    <2>7. HandedOver(x)' => HandedOver(x)
      BY <1>1, <2>1, <2>6 DEF HandedOver, PastPCs, Become
    <2> QED
      BY <2>1, <2>3, <2>5, <2>7 DEF LeaverInv, KeysKept, client
  <1>7. CASE InitFingerFound(n)
    <2>1. PICK r : r = AfterFinger(n, i)
      OBVIOUS
    <2>2. /\ Become(t, r) /\ th[t].pc = "initFinger" /\ v \in Announced /\ n \notin Announced
          /\ n \in Joined /\ UNCHANGED <<life, store>>
          /\ succ' = [succ EXCEPT ![n] = v] \/ succ' = succ
      BY <1>1, <1>7, <2>1
      DEF InitFingerFound, Ended, LeaverThread, JoinPCs, Announced, EarlyPCs, LatePCs, t, v, i
    <2>3. LeaverThread(x, t, r) /\ r.pc # "joinSucc"
      BY <1>1, <1>3, <2>1, <2>2 DEF LeaverThread, JoinPCs
    <2>4. x \in Joined' => x \in Joined
      BY <1>1, <2>2, <2>3 DEF Joined, Become, t, Main
    <2>5. x \in Joined' => succ'[x] # x
      BY <1>1, <1>2, <2>2, <2>4
    <2> QED
      BY <1>1, <2>1, <2>2, <2>3, <2>5, LeaverKeeps
  <1>8. CASE InitFingerFailed(n) \/ InitFingerNext(n) \/ InitFingerCopy(n)
    <2>1. /\ life[n] = "joining" /\ th[t].pc # "joinSucc" /\ UNCHANGED <<life, store, succ>>
      <3>1. CASE InitFingerFailed(n)
        BY <1>1, <3>1 DEF InitFingerFailed, Ended, LeaverThread, JoinPCs, t
      <3>2. CASE InitFingerNext(n)
        BY <1>1, <3>2 DEF InitFingerNext, LeaverThread, JoinPCs, t
      <3>3. CASE InitFingerCopy(n)
        BY <1>1, <3>3 DEF InitFingerCopy, LeaverThread, JoinPCs, t
      <3> QED
        BY <1>8, <3>1, <3>2, <3>3
    <2>2. PICK r : Become(t, r) /\ r.pc \in {"initFinger", "initAnti", "fingerNext", "fingerCopy"}
      <3>1. CASE InitFingerFailed(n)
        BY <3>1 DEF InitFingerFailed, AfterFinger, t, i
      <3>2. CASE InitFingerNext(n)
        BY <3>2 DEF InitFingerNext, t, i
      <3>3. CASE InitFingerCopy(n)
        BY <3>3 DEF InitFingerCopy, AfterFinger, t, i
      <3> QED
        BY <1>8, <3>1, <3>2, <3>3
    <2> QED
      BY <1>4, <2>1, <2>2
  <1>9. CASE AntiFound(n) \/ AntiFailed(n) \/ AntiAsk(n) \/ AntiStore(n)
    <2>1. th[t].pc # "joinSucc" /\ UNCHANGED <<life, store, succ>>
      BY <1>9 DEF AntiFound, AntiFailed, AntiAsk, AntiStore, Ended, t
    <2>2. PICK r : /\ Become(t, r) /\ r.pc \in {"antiPred", "antiStore", "initAnti", "others", "migrate", "idle"}
                   /\ r.pc \in JoinPCs => life[n] = "joining"
      <3>1. CASE AntiFound(n)
        BY <3>1 DEF AntiFound, JoinPCs, t, i
      <3>2. CASE AntiFailed(n)
        <4>1. PICK r \in {AfterAnti(n, i), Idle} :
                Become(t, r) /\ (th[t].pc = "initAnti" \/ r = Idle)
          BY <3>2 DEF AntiFailed, t, i
        <4>2. th[t].pc = "initAnti" => life[n] = "joining"
          BY <1>1 DEF LeaverThread, JoinPCs
        <4> QED
          BY <4>1, <4>2 DEF AfterAnti, OthersFrom, JoinPCs
      <3>3. CASE AntiAsk(n)
        <4>1. PICK w : Become(t, Frame("antiStore", Nil, w, i))
          BY <3>3 DEF AntiAsk, t, i
        <4> QED
          BY <4>1 DEF JoinPCs
      <3>4. CASE AntiStore(n)
        <4>1. PICK r \in {AfterAnti(n, i), Idle} :
                Become(t, r) /\ (life[n] = "joining" \/ r = Idle)
          BY <3>4 DEF AntiStore, t, i
        <4> QED
          BY <4>1 DEF AfterAnti, OthersFrom, JoinPCs
      <3> QED
        BY <1>9, <3>1, <3>2, <3>3, <3>4
    <2> QED
      BY <1>4, <2>1, <2>2
  <1>10. CASE OthersFound(n) \/ OthersFailed(n)
    <2>1. th[t].pc = "others" /\ life[n] = "joining" /\ UNCHANGED <<life, store, succ>>
      BY <1>1, <1>10 DEF OthersFound, OthersFailed, Ended, LeaverThread, JoinPCs, t
    <2>2. PICK r \in {OthersFrom(n, i + 1), Frame("update", v, Nil, i)} :
            Become(t, r) /\ (r.pc = "update" => v # n)
      BY <1>10 DEF OthersFound, OthersFailed, OthersFrom, t, v, i
    <2>3. r.pc \in {"others", "migrate", "update"} /\ (r.pc = "update" => r.at # n)
      BY <2>2 DEF OthersFrom
    <2> QED
      BY <1>4, <2>1, <2>2, <2>3
  <1>11. CASE UpdateFingerTable(n)
    <2> DEFINE p == th[t].at
               q == pred[p]
    <2>1. /\ th[t].pc = "update" /\ p # n /\ life[n] = "joining" /\ UNCHANGED <<life, store>>
          /\ n \in Announced
      BY <1>1, <1>11 DEF UpdateFingerTable, LeaverThread, JoinPCs, EarlyPCs, t
    <2>2. PICK r \in {OthersFrom(n, i + 1), Frame("update", q, Nil, i)} :
            Become(t, r) /\ (r.pc = "update" => q # n)
      BY <1>11 DEF UpdateFingerTable, OthersFrom, t, i
    <2>3. succ' = succ \/ succ' = [succ EXCEPT ![p] = n]
      BY <1>11 DEF UpdateFingerTable, t
    <2> HIDE DEF p, q
    <2>4. r.pc \in {"others", "migrate", "update"} /\ (r.pc = "update" => r.at # n)
      BY <2>2 DEF OthersFrom
    <2>5. LeaverThread(x, t, r)
      BY <1>1, <2>1, <2>4 DEF LeaverThread
    <2>6. x \in Joined' => x \in Joined
      BY <1>1, <2>1, <2>2 DEF Joined, Become
    <2>7. x \in Joined' => succ'[x] # x
      BY <1>1, <1>2, <2>1, <2>3, <2>6
    <2> QED
      BY <1>1, <2>1, <2>2, <2>4, <2>5, <2>7, LeaverKeeps
  <1>12. CASE MigrateKeys(n) \/ PullKeys(n)
    <2>1. /\ th[t].pc \in LatePCs /\ life[n] = "joining" /\ n \in Announced /\ n \in Joined
          /\ succ' = succ
      BY <1>1, <1>12 DEF MigrateKeys, PullKeys, LeaverThread, JoinPCs, LatePCs, EarlyPCs, Announced, t
    <2>2. PICK r : Become(t, r) /\ r.pc \in {"idle", "pull"}
      BY <1>12 DEF MigrateKeys, PullKeys, t
    <2>3. CASE MigrateKeys(n) /\ UNCHANGED life
      BY <1>1, <1>4, <2>1, <2>2, <2>3 DEF MigrateKeys, LatePCs
    <2>4. CASE life' = [life EXCEPT ![n] = "member"] /\ Become(t, Idle)
      <3>1. \A m \in Nodes : life'[m] = IF m = n THEN "member" ELSE life[m]
        BY <1>1, <2>4
      <3>2. Joined' = Joined
        BY <1>1, <2>1, <2>4, <3>1 DEF Joined, Become, LatePCs, t
      <3>3. ASSUME NEW u \in Threads PROVE LeaverThread(x, u, th[u])'
        <4>1. /\ u[1] \in Nodes /\ LeaverThread(x, u, th[u])
              /\ u[2] = "main" /\ u[1] = n => u = t
          BY DEF LeaverInv, OneLeaver, Threads, t, Main
        <4>2. (u = t /\ th'[u] = Idle) \/ (u # t /\ th'[u] = th[u])
          BY <1>1, <2>4 DEF Become
        <4> QED
          BY <1>1, <2>1, <3>1, <4>1, <4>2 DEF LeaverThread, JoinPCs
      <3>4. OneLeaver(x)'
        BY <1>1, <1>2, <2>1, <3>1, <3>2, <3>3 DEF OneLeaver
      <3>5. <<x, "ctl">> \in Threads /\ <<x, "ctl">> # t
        BY <1>1, SetFacts DEF Roles
      <3>6. HandedOver(x)' => HandedOver(x)
        BY <1>1, <2>1, <2>4, <3>1, <3>5 DEF HandedOver, PastPCs, Become
      <3>7. PICK S : store' = store \/ store' = [store EXCEPT ![n] = @ \cup S]
        <4>1. CASE MigrateKeys(n)
          BY <4>1 DEF MigrateKeys
        <4>2. CASE PullKeys(n)
          <5>1. PICK S : S = {k \in store[th[t].at] : IsInIntervalRightClosed(k, th[t].sv, n)}
            OBVIOUS
          <5> QED
            BY <4>2, <5>1 DEF PullKeys, t
        <4> QED
          BY <1>12, <4>1, <4>2
      <3>8. \A m \in Nodes : store[m] \subseteq store'[m] /\ (m # n => store'[m] = store[m])
        BY <1>1, <3>7
      <3>9. HandedOver(x)' => x # n
        BY <1>1, <2>1, <3>5, <3>6, SetFacts
        DEF HandedOver, PastPCs, LeaverThread, LeaverInv, OneLeaver, Roles
      <3>10. \A m \in Nodes : store'[m] # {} => m \in Joined'
        BY <2>1, <3>2, <3>8 DEF LeaverInv, KeysKept
      <3>11. HandedOver(x)' =>
               \A k \in store'[x] : <<x, k>> \in late \/ \E m \in Nodes \ {x} : k \in store'[m]
        BY <1>1, <3>6, <3>8, <3>9 DEF LeaverInv, KeysKept, client
      <3> QED
        BY <3>2, <3>4, <3>10, <3>11 DEF LeaverInv, KeysKept, client
    <2> QED
      BY <1>12, <2>3, <2>4 DEF MigrateKeys, PullKeys, t
  <1> QED
    BY <1>5, <1>6, <1>7, <1>8, <1>9, <1>10, <1>11, <1>12 DEF Join

\* Stabilize.
LEMMA StabilizeLeaver ==
  ASSUME NEW x, OneDeparture(x), IInv, KnownInv, LeaverInv(x), NEW t \in Threads,
         t[2] \in {"main", "cs"}, Stabilize(t), UNCHANGED client
  PROVE  LeaverInv(x)'
  <1> USE Fields
  <1> DEFINE n == t[1]
             s == th[t].sv
  <1>1. /\ n \in Nodes /\ th[t] \in Record /\ ThreadOK(t, th[t]) /\ LeaverThread(x, t, th[t])
        /\ x \in Nodes /\ th \in [Threads -> Record] /\ succ \in [Nodes -> Nodes]
        /\ th[t].pc \notin {"idle"} \cup EarlyPCs => n \in Announced
        /\ \A m \in Nodes : Main(m) \in Threads
    BY SetFacts, ThreadKnows DEF OneDeparture, LeaverInv, OneLeaver, IInv, NodeTypes
  <1>2. UNCHANGED <<life, store>>
    BY DEF Stabilize, StabRead, StabAlone, StabAsk, StabAdopt, StabNotify, FetchSuccessorList,
           StoreSuccessorList
  <1>3. x \in Joined => succ[x] # x
    BY DEF LeaverInv, OneLeaver
  <1>4. n \in Joined /\ th[t].pc # "joinSucc"
    <2>1. th[t].pc # "joinSucc"
      BY <1>1 DEF Stabilize, StabRead, StabAlone, StabAsk, StabAdopt, StabNotify,
                  FetchSuccessorList, StoreSuccessorList
    <2>2. Running(n) => n \in Announced
      BY <1>1, MembersAnnounced DEF Running
    <2>3. th[t].pc \notin EarlyPCs /\ (th[t].pc = "idle" => Running(n))
      BY <1>1 DEF Stabilize, StabRead, StabAlone, StabAsk, StabAdopt, StabNotify,
                  FetchSuccessorList, StoreSuccessorList, EarlyPCs
    <2> QED
      BY <1>1, <2>1, <2>2, <2>3 DEF Announced
  <1>5. ~(n = x /\ t[2] = "cs")
    BY <1>1 DEF Stabilize, StabRead, StabAlone, StabAsk, StabAdopt, StabNotify,
                FetchSuccessorList, StoreSuccessorList, LeaverThread
  <1> HIDE DEF n, s
  <1>6. ASSUME NEW r, Become(t, r),
               r.pc \in {"stabAlone", "stabAsk", "stabAdopt", "stabNotify", "stabList",
                        "stabStore", "idle"},
               r.pc = "stabAlone" => n # x,
               NEW w \in Nodes, n = x => w # x,
               succ' = succ \/ succ' = [succ EXCEPT ![n] = w]
        PROVE  LeaverInv(x)'
    <2>1. LeaverThread(x, t, r)
      BY <1>5, <1>6 DEF LeaverThread, JoinPCs, n
    <2>2. x \in Joined' => x \in Joined
      BY <1>1, <1>2, <1>4, <1>6 DEF Joined, Become
    <2>3. x \in Joined' => succ'[x] # x
      BY <1>1, <1>3, <1>6, <2>2
    <2> QED
      BY <1>1, <1>2, <1>6, <2>1, <2>3, LeaverKeeps
  <1>7. PICK o \in Nodes : o # x
    BY NodeFacts DEF OneDeparture
  <1>8. CASE StabRead(t)
    <2>1. PICK r \in {Frame("stabAlone", Nil, Nil, 0), Frame("stabAsk", Nil, succ[n], 0)} :
            Become(t, r) /\ (r.pc = "stabAlone" => succ[n] = n)
      BY <1>8 DEF StabRead, Alone, n
    <2>2. r.pc = "stabAlone" => n # x
      BY <1>3, <1>4, <2>1
    <2>3. succ' = succ
      BY <1>8 DEF StabRead
    <2> QED
      BY <1>6, <1>7, <2>1, <2>2, <2>3
  <1>9. CASE StabAlone(t)
    <2>1. n # x /\ Become(t, Idle) /\ succ' = [succ EXCEPT ![n] = n]
      BY <1>1, <1>9 DEF StabAlone, LeaverThread, n
    <2> QED
      BY <1>1, <1>6, <2>1
  <1>10. CASE StabAsk(t)
    <2>1. PICK r \in {Frame("stabAdopt", Nil, pred[s], 0), Frame("stabNotify", Nil, s, 0)} : Become(t, r)
      BY <1>10 DEF StabAsk, s
    <2>2. succ' = succ
      BY <1>10 DEF StabAsk
    <2> QED
      BY <1>6, <1>7, <2>1, <2>2
  <1>11. CASE StabAdopt(t)
    <2>1. PICK r : r = Frame("stabNotify", Nil, s, 0)
      OBVIOUS
    <2>2. Become(t, r) /\ succ' = [succ EXCEPT ![n] = s] /\ s \in Nodes /\ s # n
      BY <1>1, <1>11, <2>1 DEF StabAdopt, ThreadOK, HasNode, n, s
    <2>3. PICK w \in Nodes : w # n /\ succ' = [succ EXCEPT ![n] = w]
      BY <2>2
    <2>4. r.pc = "stabNotify"
      BY <2>1
    <2> QED
      BY <1>6, <2>2, <2>3, <2>4
  <1>12. CASE StabNotify(t)
    <2>1. PICK r : r = [th[t] EXCEPT !.pc = "stabList"]
      OBVIOUS
    <2>2. Become(t, r) /\ succ' = succ /\ r.pc = "stabList"
      BY <1>1, <1>12, <2>1 DEF StabNotify, Record
    <2> QED
      BY <1>6, <1>7, <2>2
  <1>13. CASE FetchSuccessorList(t)
    <2>1. PICK r \in {Frame("stabStore", Nil, s, 0), Idle} : Become(t, r)
      BY <1>13 DEF FetchSuccessorList, s
    <2>2. succ' = succ
      BY <1>13 DEF FetchSuccessorList
    <2> QED
      BY <1>6, <1>7, <2>1, <2>2
  <1>14. CASE StoreSuccessorList(t)
    <2>1. Become(t, Idle) /\ succ' = succ
      BY <1>14 DEF StoreSuccessorList
    <2> QED
      BY <1>6, <1>7, <2>1
  <1> QED
    BY <1>8, <1>9, <1>10, <1>11, <1>12, <1>13, <1>14 DEF Stabilize

\* The ticker of runStabilize.
LEMMA FixFingersLeaver ==
  ASSUME NEW x \in Nodes, IInv, LeaverInv(x), NEW n \in Nodes, FixFinger(n) \/ FixFingerDone(n),
         UNCHANGED client
  PROVE  LeaverInv(x)'
  <1> USE Fields
  <1> DEFINE t == Main(n)
  <1>1. t \in Threads /\ t[1] = n /\ t[2] = "main"
    BY SetFacts DEF Main
  <1>2. /\ \E i : Become(t, Call("fixFinger", n, i)) \/ Become(t, Call("fixAnti", n, i))
        /\ th[t].pc # "joinSucc" /\ UNCHANGED <<life, store, succ>>
    BY DEF FixFinger, FixFingerDone, Ended
  <1>3. PICK r : Become(t, r) /\ r.pc \in {"fixFinger", "fixAnti"}
    BY <1>2
  <1>4. LeaverThread(x, t, r)
    BY <1>1, <1>3 DEF LeaverThread, JoinPCs
  <1> HIDE DEF t
  <1> QED
    BY <1>1, <1>2, <1>3, <1>4, LeaverStays

\* The failure detectors: x has no reason to ping its successor.
LEMMA DetectorsLeaver ==
  ASSUME NEW x, OneDeparture(x), IInv, KnownInv, LeaverInv(x), NEW n \in Nodes,
         CheckPredecessor(n) \/ CheckSuccessor(n)
  PROVE  LeaverInv(x)'
  <1> USE Fields
  <1>1. /\ x \in Nodes /\ losses = 0 /\ \A m : MayFail(m) => m = x
        /\ x \in Joined => succ[x] # x
        /\ th \in [Threads -> Record] /\ succ \in [Nodes -> Nodes]
    BY DEF OneDeparture, IInv, NodeTypes, MayFail, LeaverInv, OneLeaver
  <1>2. CASE CheckPredecessor(n)
    <2> DEFINE t == <<n, "cp">>
    <2>1. t \in Threads /\ t[1] = n /\ t[2] = "cp"
      BY SetFacts DEF Roles
    <2>2. /\ \E r \in {Frame("ping", Nil, pred[n], 0), Idle} : Become(t, r)
          /\ th[t].pc # "joinSucc" /\ UNCHANGED <<life, store, succ>> /\ UNCHANGED client
      BY <1>2 DEF CheckPredecessor, CheckPredRead, CheckPredPing
    <2>3. PICK r : Become(t, r) /\ r.pc \in {"ping", "idle"}
      BY <2>2
    <2>4. LeaverThread(x, t, r)
      BY <2>1, <2>3 DEF LeaverThread
    <2> HIDE DEF t
    <2> QED
      BY <1>1, <2>1, <2>2, <2>3, <2>4, LeaverStays
  <1>3. CASE CheckSuccessor(n)
    <2> DEFINE t == <<n, "cs">>
    <2>1. /\ t \in Threads /\ t[1] = n /\ t[2] = "cs" /\ LeaverThread(x, t, th[t])
          /\ ThreadOK(t, th[t]) /\ th[t] \in Record
      <3>1. t \in Threads
        BY SetFacts DEF Roles
      <3> QED
        BY <3>1 DEF IInv, NodeTypes, ThreadsOK, LeaverInv, OneLeaver
    <2>2. CASE Stabilize(t)
      BY <1>3, <2>1, <2>2, StabilizeLeaver DEF CheckSuccessor
    <2>3. CASE ~Stabilize(t)
      <3>1. n # x
        <4>1. SUFFICES ASSUME n = x PROVE FALSE
          OBVIOUS
        <4>2. th[t].pc = "idle"
          BY <2>1, <4>1 DEF LeaverThread
        <4>3. Running(x) /\ MayFail(succ[x]) /\ succ[x] # x
          BY <1>3, <2>3, <4>1, <4>2 DEF CheckSuccessor, CheckSuccRead, CheckSuccPing, CheckSuccWalk,
                                        CheckSuccGiveUp, CheckSuccTake
        <4> QED
          BY <1>1, <4>3
      <3>2. th[t].pc # "joinSucc" /\ UNCHANGED <<life, store>> /\ succ'[x] = succ[x]
            /\ UNCHANGED client
        <4>1. th[t].pc # "joinSucc" /\ UNCHANGED <<life, store>> /\ UNCHANGED client
          BY <1>3, <2>3 DEF CheckSuccessor, CheckSuccRead, CheckSuccPing, CheckSuccWalk,
                            CheckSuccGiveUp, CheckSuccTake
        <4>2. succ' = succ \/ succ' = [succ EXCEPT ![n] = th[t].sv]
          BY <1>3, <2>3 DEF CheckSuccessor, CheckSuccRead, CheckSuccPing, CheckSuccWalk,
                            CheckSuccGiveUp, CheckSuccTake
        <4> QED
          BY <1>1, <3>1, <4>1, <4>2
      <3>3. PICK r : Become(t, r) /\ r.pc \in {"csPing", "csWalk", "csTake", "stabRead", "idle"}
        <4>1. CASE CheckSuccRead(n)
          BY <4>1 DEF CheckSuccRead
        <4>2. CASE CheckSuccPing(n)
          BY <4>2 DEF CheckSuccPing
        <4>3. CASE CheckSuccWalk(n)
          <5>1. Become(t, th[t]) \/ Become(t, Frame("csTake", Nil, Head(lst[t]), 0))
            BY <1>1, <2>1, <4>3 DEF CheckSuccWalk, Become
          <5>2. th[t].pc = "csWalk"
            BY <4>3 DEF CheckSuccWalk
          <5> QED
            BY <5>1, <5>2
        <4>4. CASE CheckSuccGiveUp(n)
          BY <4>4 DEF CheckSuccGiveUp
        <4>5. CASE CheckSuccTake(n)
          BY <4>5 DEF CheckSuccTake
        <4> QED
          BY <1>3, <2>3, <4>1, <4>2, <4>3, <4>4, <4>5 DEF CheckSuccessor
      <3>4. LeaverThread(x, t, r)
        BY <2>1, <3>1, <3>3 DEF LeaverThread
      <3> HIDE DEF t
      <3>5. Main(x) # t
        BY <2>1 DEF Main
      <3>6. x \in Joined' => x \in Joined
        BY <1>1, <3>2, <3>3, <3>5 DEF Joined, Become
      <3>7. x \in Joined' => succ'[x] # x
        BY <1>1, <3>2, <3>6
      <3> QED
        BY <1>1, <2>1, <3>2, <3>3, <3>4, <3>7, LeaverKeeps
    <2> QED
      BY <2>2, <2>3
  <1> QED
    BY <1>2, <1>3

\* x leaves: its successor, which answers, holds its keys from the transfer on.
LEMMA LeaveLeaver ==
  ASSUME NEW x, OneDeparture(x), IInv, KnownInv, LeaverInv(x), NEW n \in Nodes,
         Leave(n) \/ CrashNode(n) \/ KillNode(n)
  PROVE  LeaverInv(x)'
  <1> USE Fields
  <1> DEFINE t == <<x, "ctl">>
             s == th[t].sv
  <1>1. /\ x \in Nodes /\ x # First /\ t \in Threads /\ t[1] = x /\ t[2] = "ctl"
        /\ th[t] \in Record /\ ThreadOK(t, th[t]) /\ LeaverThread(x, t, th[t])
        /\ th \in [Threads -> Record] /\ succ \in [Nodes -> Nodes]
        /\ life \in [Nodes -> {"off", "joining", "member", "leaving", "gone", "refused"}]
        /\ store \in [Nodes -> SUBSET Keys] /\ losses = 0
    <2>1. t \in Threads /\ x \in Nodes /\ x # First
      BY SetFacts DEF OneDeparture, Roles
    <2>2. losses = 0
      BY DEF OneDeparture, IInv, NodeTypes
    <2> QED
      BY <2>1, <2>2 DEF IInv, NodeTypes, ThreadsOK, LeaverInv, OneLeaver
  <1>2. n = x /\ ~CrashNode(n)
    <2>1. ASSUME n # x PROVE th[<<n, "ctl">>].pc = "idle"
      <3>1. <<n, "ctl">> \in Threads
        BY SetFacts DEF Roles
      <3> QED
        BY <2>1, <3>1 DEF LeaverInv, OneLeaver, LeaverThread
    <2> QED
      BY <2>1 DEF OneDeparture, Leave, LeaveRead, LeaveTransfer, LeaveNotifySucc, LeaveNotifyPred,
                  Stop, CrashNode, KillNode
  <1>3. th[t].pc # "joinSucc"
    BY <1>1 DEF ThreadOK, LookupPCs
  <1> HIDE DEF t, s
  \* x begins to leave, or stops: its other threads need nothing of its life.
  <1>4. ASSUME NEW v \in {"leaving", "gone"}, NEW r, Become(t, r), r.pc \in {"leaveRead", "idle"},
               life' = [life EXCEPT ![x] = v], r.pc = "leaveRead" => v = "leaving",
               life[x] \in {"member", "leaving"}, UNCHANGED <<succ, store>>, UNCHANGED client,
               v = "gone" => th[t].pc \in PastPCs
        PROVE  LeaverInv(x)'
    <2>1. \A m \in Nodes : life'[m] = IF m = x THEN v ELSE life[m]
      BY <1>1, <1>4
    <2>2. \A m \in Nodes : Main(m) \in Threads /\ Main(m) # t
      <3>1. \A m \in Nodes : Main(m) \in Threads
        BY SetFacts
      <3>2. \A m : Main(m)[2] = "main"
        BY DEF Main
      <3> QED
        BY <1>1, <3>1, <3>2
    <2>3. Joined' = Joined
      BY <1>1, <1>4, <2>1, <2>2 DEF Joined, Become
    <2>4. ASSUME NEW u \in Threads PROVE LeaverThread(x, u, th[u])'
      <3>1. (u = t /\ th'[u] = r) \/ (u # t /\ th'[u] = th[u])
        BY <1>1, <1>4 DEF Become
      <3>2. LeaverThread(x, u, th[u]) /\ u[1] \in Nodes
        BY SetFacts DEF LeaverInv, OneLeaver
      <3>3. u[2] = "ctl" /\ u[1] = x => u = t
        BY DEF Threads, t
      <3> QED
        BY <1>1, <1>4, <2>1, <3>1, <3>2, <3>3 DEF LeaverThread
    <2>5. OneLeaver(x)'
      BY <1>1, <1>4, <2>1, <2>3, <2>4 DEF LeaverInv, OneLeaver
    <2>6. HandedOver(x)' => HandedOver(x)
      <3>1. th'[t] = r
        BY <1>1, <1>4 DEF Become
      <3> QED
        BY <1>1, <1>4, <2>1, <3>1 DEF HandedOver, PastPCs, t
    <2> QED
      BY <1>4, <2>3, <2>5, <2>6 DEF LeaverInv, KeysKept, client
  <1>5. CASE KillNode(n)
    <2>1. PICK r : r = Frame("leaveRead", Nil, Nil, 0)
      OBVIOUS
    <2>2. Become(t, r) /\ life' = [life EXCEPT ![x] = "leaving"] /\ UNCHANGED <<succ, store>>
          /\ life[x] = "member" /\ UNCHANGED client
      BY <1>2, <1>5, <2>1 DEF KillNode, t
    <2> QED
      BY <1>4, <2>1, <2>2
  <1>6. CASE Stop(n) /\ UNCHANGED client
    <2>1. Become(t, Idle) /\ life' = [life EXCEPT ![x] = "gone"] /\ UNCHANGED <<succ, store>>
          /\ th[t].pc = "stop"
      BY <1>2, <1>6 DEF Stop, t
    <2>2. life[x] = "leaving"
      BY <1>1, <2>1 DEF LeaverThread
    <2> QED
      BY <1>4, <1>6, <2>1, <2>2 DEF PastPCs
  <1>7. CASE LeaveRead(n) /\ UNCHANGED client
    <2>1. life[x] = "leaving"
      BY <1>1, <1>2, <1>7 DEF LeaveRead, LeaverThread, t
    <2>2. x \in Announced /\ x \in Joined /\ succ[x] # x
      BY <1>1, <2>1, MembersAnnounced DEF Announced, LeaverInv, OneLeaver
    <2>3. PICK r : r = Frame("leaveTransfer", pred[x], succ[x], 0)
      OBVIOUS
    <2>4. Become(t, r) /\ UNCHANGED <<life, store, succ>>
      BY <1>2, <1>7, <2>2, <2>3 DEF LeaveRead, t
    <2>5. LeaverThread(x, t, r)
      BY <1>1, <2>1, <2>2, <2>3 DEF LeaverThread
    <2> QED
      BY <1>1, <1>3, <1>7, <2>3, <2>4, <2>5, LeaverStays DEF PastPCs
  <1>8. CASE LeaveTransfer(n) /\ UNCHANGED client
    <2>1. /\ th[t].pc = "leaveTransfer" /\ life[x] = "leaving" /\ s # x /\ s \in Announced
          /\ UNCHANGED <<life, succ>>
      BY <1>1, <1>2, <1>8, ThreadKnows DEF LeaveTransfer, LeaverThread, HasNode, t, s
    <2>2. s \in Nodes /\ s \in Joined /\ s \in Registered
      BY <2>1, OthersRegistered DEF LeaverInv, Announced, Joined
    <2>3. PICK r : r = [th[t] EXCEPT !.pc = "leaveSucc"]
      OBVIOUS
    <2>4. Become(t, r) /\ r.pc = "leaveSucc"
      BY <1>1, <1>2, <1>8, <2>3 DEF LeaveTransfer, Record, t
    <2>5. LeaverThread(x, t, r)
      BY <1>1, <2>1, <2>4 DEF LeaverThread
    <2>6. OneLeaver(x)' /\ Joined' = Joined
      <3>1. Joined' = Joined
        BY <1>1, <2>1, <2>4, SetFacts DEF Joined, Become, Main
      <3>2. x \in Joined' => succ'[x] # x
        BY <2>1, <3>1 DEF LeaverInv, OneLeaver
      <3> QED
        BY <1>1, <2>1, <2>4, <2>5, <3>1, <3>2, LeaverMove DEF LeaverInv
    <2>7. (store[x] = {} /\ store' = store) \/ store' = [store EXCEPT ![s] = store[s] \cup store[x]]
      <3>1. ~Rpc(s, FALSE)
        BY <1>1, <2>2 DEF Rpc, OneDeparture
      <3> QED
        BY <1>2, <1>8, <3>1 DEF LeaveTransfer, HandleTransferKeys, t, s
    <2>8. \A m \in Nodes : store'[m] # {} => m \in Joined
      BY <1>1, <2>2, <2>7 DEF LeaverInv, KeysKept
    <2>9. \A k \in store'[x] : \E m \in Nodes \ {x} : k \in store'[m]
      <3>1. CASE store[x] = {} /\ store' = store
        BY <3>1
      <3>2. CASE store' = [store EXCEPT ![s] = store[s] \cup store[x]]
        <4>1. store'[x] = store[x] /\ store[x] \subseteq store'[s]
          BY <1>1, <2>1, <2>2, <3>2
        <4> QED
          BY <2>1, <2>2, <4>1
      <3> QED
        BY <2>7, <3>1, <3>2
    <2> QED
      BY <1>8, <2>6, <2>8, <2>9 DEF LeaverInv, KeysKept, client
  <1>9. CASE (LeaveNotifySucc(n) \/ LeaveNotifyPred(n)) /\ UNCHANGED client
    <2>1. PICK p \in {"leavePred", "stop"} : Become(t, [th[t] EXCEPT !.pc = p])
      BY <1>2, <1>9 DEF LeaveNotifySucc, LeaveNotifyPred, t
    <2>2. PICK r : r = [th[t] EXCEPT !.pc = p]
      OBVIOUS
    <2>3. Become(t, r) /\ r.pc = p
      BY <1>1, <2>1, <2>2 DEF Record
    <2>4. UNCHANGED <<life, store, succ>> /\ th[t].pc \in {"leaveSucc", "leavePred"}
      BY <1>2, <1>9 DEF LeaveNotifySucc, LeaveNotifyPred, t
    <2>5. LeaverThread(x, t, r)
      BY <1>1, <2>1, <2>3, <2>4 DEF LeaverThread
    <2> QED
      BY <1>1, <1>3, <1>9, <2>1, <2>3, <2>4, <2>5, LeaverStays DEF PastPCs
  <1> QED
    BY <1>2, <1>5, <1>6, <1>7, <1>8, <1>9 DEF Leave

\* A node is spawned, or stores a key.
LEMMA EnvironmentLeaver ==
  ASSUME NEW x, OneDeparture(x), IInv, KnownInv, LeaverInv(x), NEW n \in Nodes,
         CreateRing(n) \/ Spawn(n) \/ Put(n)
  PROVE  LeaverInv(x)'
  <1> USE Fields
  <1> DEFINE t == Main(n)
  <1>1. /\ x \in Nodes /\ x # First /\ t \in Threads /\ t[1] = n /\ t[2] = "main"
        /\ th \in [Threads -> Record] /\ succ \in [Nodes -> Nodes]
        /\ life \in [Nodes -> {"off", "joining", "member", "leaving", "gone", "refused"}]
        /\ store \in [Nodes -> SUBSET Keys] /\ <<x, "ctl">> \in Threads
        /\ \A m \in Nodes : Main(m) \in Threads /\ Main(m)[1] = m
    BY SetFacts DEF OneDeparture, Roles, IInv, NodeTypes, Main
  <1>2. ~CreateRing(n)
    BY NodeFacts DEF CreateRing, Members, LeaverInv, OneLeaver
  <1>3. CASE Spawn(n)
    <2>1. PICK b : Become(t, Call("joinSucc", b, 0))
      BY <1>3 DEF Spawn
    <2>2. PICK r : r = Call("joinSucc", b, 0)
      OBVIOUS
    <2>3. Become(t, r) /\ r.pc = "joinSucc"
      BY <2>1, <2>2
    <2>4. life[n] = "off" /\ life' = [life EXCEPT ![n] = "joining"] /\ UNCHANGED <<succ, store>>
          /\ UNCHANGED client
      BY <1>3 DEF Spawn
    <2>5. \A m \in Nodes : IF m = n THEN life'[m] = "joining" /\ th'[Main(m)] = r
                           ELSE life'[m] = life[m] /\ th'[Main(m)] = th[Main(m)]
      BY <1>1, <2>3, <2>4 DEF Become
    <2>6. n \notin Joined
      BY <2>4 DEF Joined
    <2>7. Joined' = Joined
      BY <2>3, <2>5, <2>6 DEF Joined
    <2>8. ASSUME NEW u \in Threads PROVE LeaverThread(x, u, th[u])'
      <3>1. (u = t /\ th'[u] = r) \/ (u # t /\ th'[u] = th[u])
        BY <1>1, <2>3 DEF Become
      <3>2. LeaverThread(x, u, th[u]) /\ u[1] \in Nodes
        BY SetFacts DEF LeaverInv, OneLeaver
      <3>3. u[2] = "main" /\ u[1] = n => u = t
        BY DEF Threads, Main
      <3> HIDE DEF t
      <3> QED
        BY <1>1, <2>3, <2>4, <2>5, <3>1, <3>2, <3>3 DEF LeaverThread, JoinPCs
    <2>9. OneLeaver(x)'
      BY <1>1, <2>4, <2>5, <2>7, <2>8 DEF LeaverInv, OneLeaver
    <2>10. HandedOver(x)' => HandedOver(x)
      BY <1>1, <2>3, <2>5 DEF HandedOver, PastPCs, Become
    <2> QED
      BY <2>4, <2>7, <2>9, <2>10 DEF LeaverInv, KeysKept, client
  <1>4. ASSUME NEW k \in Keys, FindHandler(n, k) PROVE LeaverInv(x)'
    <2>1. UNCHANGED <<life, th, succ, store, late>> /\ puts' = puts \cup {<<n, k>>} /\ n \in Members
      BY <1>4 DEF FindHandler
    <2>2. Joined' = Joined /\ (HandedOver(x)' <=> HandedOver(x)) /\ OneLeaver(x)'
      BY <2>1 DEF Joined, HandedOver, LeaverInv, OneLeaver, LeaverThread
    <2>3. n \in Joined
      BY <2>1, MembersAnnounced DEF Announced, Members
    <2> QED
      BY <2>1, <2>2, <2>3 DEF LeaverInv, KeysKept
  <1>5. ASSUME NEW k \in Keys, PutEntry(n, k) PROVE LeaverInv(x)'
    <2>1. store' = [store EXCEPT ![n] = @ \cup {k}] /\ UNCHANGED <<life, th, succ>>
          /\ puts' \subseteq puts /\ <<n, k>> \in puts /\ late \subseteq late'
          /\ (k \notin store[n] /\ HandedOver(n) => <<n, k>> \in late')
      BY <1>5 DEF PutEntry
    <2>2. Joined' = Joined /\ (HandedOver(x)' <=> HandedOver(x)) /\ OneLeaver(x)'
      BY <2>1 DEF Joined, HandedOver, LeaverInv, OneLeaver, LeaverThread
    <2>3. n \in Joined
      BY <2>1 DEF LeaverInv, KeysKept
    <2>4. \A m \in Nodes : store[m] \subseteq store'[m] /\ (m # n => store'[m] = store[m])
                           /\ store'[m] \subseteq store[m] \cup {k}
      BY <1>1, <2>1
    <2>5. \A m \in Nodes : store'[m] # {} => m \in Joined
      BY <2>3, <2>4 DEF LeaverInv, KeysKept
    <2>6. ASSUME HandedOver(x), NEW j \in store'[x]
          PROVE  <<x, j>> \in late' \/ \E m \in Nodes \ {x} : j \in store'[m]
      <3>1. CASE j \in store[x]
        BY <1>1, <2>1, <2>4, <2>6, <3>1 DEF LeaverInv, KeysKept
      <3>2. CASE j \notin store[x]
        <4>1. x = n /\ j = k
          BY <1>1, <2>4, <3>2
        <4> QED
          BY <2>1, <2>6, <3>2, <4>1
      <3> QED
        BY <3>1, <3>2
    <2> QED
      BY <2>1, <2>2, <2>5, <2>6 DEF LeaverInv, KeysKept
  <1> QED
    BY <1>2, <1>3, <1>4, <1>5 DEF Put

\* The invariant is inductive, and holds of the founder alone.
LEMMA LeaverStep ==
  ASSUME NEW x, OneDeparture(x)
  PROVE  IInv /\ KnownInv /\ LeaverInv(x) /\ [Next]_vars => LeaverInv(x)'
  <1> SUFFICES ASSUME IInv, KnownInv, LeaverInv(x), [Next]_vars PROVE LeaverInv(x)'
    OBVIOUS
  <1>1. x \in Nodes
    BY DEF OneDeparture
  <1>2. ASSUME NEW n \in Nodes, MainStep(n) PROVE LeaverInv(x)'
    <2>1. Main(n) \in Threads /\ Main(n)[2] = "main"
      BY SetFacts DEF Main
    <2> QED
      BY <1>1, <1>2, <2>1, FindSuccessorLeaver, JoinLeaver, StabilizeLeaver, FixFingersLeaver
      DEF MainStep
  <1>3. CASE UNCHANGED vars
    BY <1>3 DEF vars, client, LeaverInv, OneLeaver, LeaverThread, KeysKept, HandedOver, PastPCs, Joined
  <1> QED
    BY <1>2, <1>3, DetectorsLeaver, LeaveLeaver, EnvironmentLeaver DEF Next

LEMMA LeaverInit ==
  ASSUME NEW x, OneDeparture(x)
  PROVE  Init => LeaverInv(x)
  <1> USE Fields
  <1>1. /\ x \in Nodes /\ x # First /\ First \in Nodes /\ <<x, "ctl">> \in Threads
        /\ \A t \in Threads : t[1] \in Nodes
    BY NodeFacts, SetFacts DEF OneDeparture, Roles
  <1>2. Idle.pc \notin JoinPCs \cup PastPCs
    BY DEF JoinPCs, PastPCs
  <1> QED
    BY <1>1, <1>2 DEF Init, LeaverInv, OneLeaver, LeaverThread, KeysKept, HandedOver, PastPCs, Joined

\* Leave hands every key of the leaving node to a node that stays, whatever joins,
\* repairs and writes interleave with it, as long as nobody else leaves and every RPC
\* to a registered node is answered.  KeysSurvive excuses a write that has looked the
\* node up before it was deregistered and stores after Leave has read Store.All.
THEOREM LeaveKeepsKeys ==
  ASSUME NEW x, OneDeparture(x)
  PROVE  Spec => []KeysSurvive
  <1>1. Spec => [](IInv /\ KnownInv)
    BY InitOK, NextOK, KnownInit, KnownStep, PTL DEF Spec
  <1>2. IInv /\ LeaverInv(x) => KeysSurvive
    BY KeptSurvive DEF OneDeparture
  <1> QED
    BY <1>1, <1>2, LeaverInit, LeaverStep, PTL DEF Spec

-----------------------------------------------------------------------------
(* The stable ring.                                                        *)

\* A measure has a least value on a set that is not empty.
LEMMA Least ==
  ASSUME NEW S, S # {}, NEW f \in [S -> Nat]
  PROVE  \E n \in S : \A m \in S : f[n] <= f[m]
  <1> DEFINE T == {f[m] : m \in S}
  <1>1. T \subseteq Nat /\ T # {}
    OBVIOUS
  <1>2. PICK k \in T : \A y \in T : ~(<<y, k>> \in OpToRel(<, Nat))
    BY <1>1, WFMin, NatLessThanWellFounded
  <1>3. \A y \in T : ~(y < k)
    BY <1>1, <1>2 DEF OpToRel
  <1>4. PICK n \in S : f[n] = k
    OBVIOUS
  <1>5. ASSUME NEW m \in S PROVE f[n] <= f[m]
    <2>1. f[m] \in T
      OBVIOUS
    <2> HIDE DEF T
    <2> QED
      BY <1>1, <1>3, <1>4, <2>1
  <1> QED
    BY <1>5

\* Distances are below Size, and tell identifiers apart.
LEMMA DistFacts ==
  ASSUME NEW a \in ID, NEW b \in ID
  PROVE  /\ Dist(a, b) \in 0 .. Size - 1 /\ Dist(a, a) = 0
         /\ \A c \in ID : Dist(a, b) = Dist(a, c) => b = c
  BY BitsAssumption DEF ID, Dist

LEMMA SettledFacts ==
  /\ Settled \subseteq Nodes /\ Settled \subseteq ID /\ Settled \subseteq Int
  /\ First \in Settled /\ Nil \notin Settled /\ Late \subseteq Nodes
  /\ IsFiniteSet(Settled)
  <1>1. Settled \subseteq Nodes /\ First \in Settled /\ Late \subseteq Nodes
    BY StableAssumption, NodeFacts DEF Settled
  <1>2. IsFiniteSet(Settled)
    <2>1. IsFiniteSet(0 .. Size - 1)
      BY BitsAssumption, FS_Interval
    <2> QED
      BY <1>1, <2>1, NodeFacts, FS_Subset DEF ID
  <1> QED
    BY <1>1, <1>2, NodeFacts

\* The owner of an identifier is the settled node nearest to it, clockwise.
LEMMA OwnerFacts ==
  ASSUME NEW id \in ID
  PROVE  Owner(id) \in Settled /\ \A m \in Settled : Dist(id, Owner(id)) <= Dist(id, m)
  <1> DEFINE f == [m \in Settled |-> Dist(id, m)]
  <1>1. f \in [Settled -> Nat]
    BY SettledFacts, DistFacts
  <1>2. \E n \in Settled : \A m \in Settled : f[n] <= f[m]
    <2> HIDE DEF f
    <2> QED
      BY <1>1, SettledFacts, Least
  <1> QED
    BY <1>2 DEF Owner

\* A measure has a greatest value on a set of nodes.
LEMMA Furthest ==
  ASSUME NEW S \in SUBSET Nodes, S # {}
  PROVE  \E n \in S : \A m \in S : Pos(m) <= Pos(n)
  <1> DEFINE f == [m \in S |-> Size - Pos(m)]
  <1>1. \A m \in S : Pos(m) \in 0 .. Size - 1
    BY NodeFacts, DistFacts DEF Pos
  <1>2. f \in [S -> Nat]
    BY <1>1, BitsAssumption
  <1>3. PICK n \in S : \A m \in S : f[n] <= f[m]
    <2> HIDE DEF f
    <2> QED
      BY <1>2, Least
  <1> QED
    BY <1>1, <1>3, BitsAssumption

LEMMA LastFacts == Last \in Settled /\ \A m \in Settled : Pos(m) <= Pos(Last)
  BY SettledFacts, Furthest DEF Last

\* What positions say of intervals.
LEMMA PosFacts ==
  ASSUME NEW a \in Nodes, NEW b \in Nodes
  PROVE  /\ Pos(a) \in 0 .. Size - 1 /\ (Pos(a) = 0 <=> a = First)
         /\ Pos(a) = Pos(b) => a = b
         /\ \A c \in Nodes \ {First} :
              /\ IsInInterval(c, a, b) /\ Pos(a) < Pos(b) => Pos(a) < Pos(c) /\ Pos(c) < Pos(b)
              /\ Pos(a) < Pos(c) /\ Pos(c) < Pos(b) => IsInInterval(c, a, b)
              /\ IsInInterval(c, a, First) <=> Pos(a) < Pos(c) /\ a # First
  BY NodeFacts, BitsAssumption DEF ID, Pos, Dist, IsInInterval

\* The position of a node on the chain, which ends at First, and the nodes after n on it.
Rank(m) == IF m = First THEN Size ELSE Pos(m)
After(n) == IF n = First THEN {} ELSE {m \in Settled : Rank(m) > Pos(n)}

\* The first identifier after n, and how far it is to the others.
LEMMA NextID ==
  ASSUME NEW n \in ID
  PROVE  /\ (n + 1) % Size \in ID /\ fingerStart(n, 0) = (n + 1) % Size
         /\ \A m \in ID : Dist((n + 1) % Size, m) = IF m = n THEN Size - 1 ELSE Dist(n, m) - 1
  <1>1. n \in 0 .. Size - 1 /\ Size \in Nat \ {0}
    BY BitsAssumption DEF ID
  <1>2. (n + 1) % Size = IF n + 1 = Size THEN 0 ELSE n + 1
    BY <1>1
  <1>3. 2^0 = 1
    OBVIOUS
  <1> QED
    BY <1>1, <1>2, <1>3 DEF ID, Dist, fingerStart

\* The distance to a node further down the chain, and to one that is not.
LEMMA DistOnChain ==
  ASSUME NEW n \in Nodes \ {First}, NEW m \in Nodes
  PROVE  Dist(n, m) = IF Pos(n) <= Rank(m) THEN Rank(m) - Pos(n) ELSE Pos(m) - Pos(n) + Size
  BY NodeFacts, BitsAssumption DEF ID, Rank, Pos, Dist

\* The stable successor is the next settled node on the chain.
LEMMA SuccFacts ==
  ASSUME NEW n \in Settled
  PROVE  /\ StableSucc(n) \in Settled /\ (n = First => StableSucc(n) = First)
         /\ n # First =>
              /\ StableSucc(n) # n /\ Pos(n) < Rank(StableSucc(n))
              /\ \A m \in Settled : Pos(n) < Rank(m) => Rank(StableSucc(n)) <= Rank(m)
  <1>1. CASE n = First
    BY <1>1, SettledFacts DEF StableSucc
  <1>2. CASE n # First
    <2> DEFINE s == StableSucc(n)
    <2>1. n \in Nodes /\ n \in ID
      BY SettledFacts
    <2>2. s \in Settled /\ \A m \in Settled : Dist((n + 1) % Size, s) <= Dist((n + 1) % Size, m)
      BY <1>2, <2>1, NextID, OwnerFacts DEF StableSucc
    <2> HIDE DEF s
    <2>3. \A m \in Settled : /\ Pos(m) \in 0 .. Size - 1 /\ (Pos(m) = 0 <=> m = First)
                            /\ (Pos(m) = Pos(n) => m = n)
      BY <2>1, SettledFacts, PosFacts
    <2>4. \A m \in Settled : Dist((n + 1) % Size, m) = IF m = n THEN Size - 1 ELSE Dist(n, m) - 1
      BY <2>1, SettledFacts, NextID
    <2>5. \A m \in Settled :
            Dist(n, m) = IF Pos(n) <= Rank(m) THEN Rank(m) - Pos(n) ELSE Pos(m) - Pos(n) + Size
      BY <1>2, <2>1, SettledFacts, DistOnChain
    <2>6. \A m \in Settled : Rank(m) \in 0 .. Size /\ (m # First => Rank(m) = Pos(m))
                            /\ (m = First => Rank(m) = Size)
      BY <2>3, BitsAssumption DEF Rank
    <2>7. Pos(n) \in 1 .. Size - 1 /\ Size \in Nat
      BY <1>2, <2>3, BitsAssumption
    <2>8. Dist(n, First) = Size - Pos(n) /\ Dist((n + 1) % Size, First) = Size - Pos(n) - 1
      BY <1>2, <2>4, <2>5, <2>6, <2>7, SettledFacts
    <2>9. Dist((n + 1) % Size, s) <= Size - Pos(n) - 1
      BY <2>2, <2>8, SettledFacts
    <2>10. s # n
      BY <2>4, <2>7, <2>9
    <2>11. Pos(n) < Rank(s)
      <3>1. Dist((n + 1) % Size, s) = Dist(n, s) - 1
        BY <2>2, <2>4, <2>10
      <3>2. Pos(s) # Pos(n)
        BY <2>2, <2>3, <2>10
      <3>3. CASE Pos(n) <= Rank(s)
        BY <2>2, <2>6, <2>7, <3>2, <3>3
      <3>4. CASE ~(Pos(n) <= Rank(s))
        <4>1. Dist(n, s) = Pos(s) - Pos(n) + Size
          BY <2>2, <2>5, <3>4
        <4>2. s # First
          BY <2>2, <2>6, <2>7, <3>4
        <4> QED
          BY <2>2, <2>3, <2>7, <2>9, <3>1, <4>1, <4>2
      <3> QED
        BY <3>3, <3>4
    <2>12. ASSUME NEW m \in Settled, Pos(n) < Rank(m) PROVE Rank(s) <= Rank(m)
      <3>1. m # n
        BY <1>2, <2>6, <2>7, <2>12
      <3>2. Dist((n + 1) % Size, m) = Rank(m) - Pos(n) - 1
        BY <2>4, <2>5, <2>6, <2>7, <2>12, <3>1
      <3>3. Dist((n + 1) % Size, s) = Rank(s) - Pos(n) - 1
        BY <2>2, <2>4, <2>5, <2>6, <2>7, <2>10, <2>11
      <3> QED
        BY <2>2, <2>6, <2>7, <3>2, <3>3
    <2> QED
      BY <1>2, <2>2, <2>10, <2>11, <2>12 DEF s
  <1> QED
    BY <1>1, <1>2

\* The stable predecessor, and that it is the converse of the successor.
LEMMA PredFacts ==
  ASSUME NEW n \in Settled
  PROVE  StablePred(n) \in Settled \cup {Nil} /\ StablePred(n) # n
  <1>0. Nil # n
    BY SettledFacts
  <1> DEFINE Nearer == {m \in Settled \ {First} : Pos(m) < Pos(n)}
  <1>1. CASE n = First
    BY <1>0, <1>1, LastFacts DEF StablePred
  <1>2. CASE n # First /\ Nearer # {}
    <2>1. \E m \in Nearer : \A k \in Nearer : Pos(k) <= Pos(m)
      BY <1>2, Furthest, SettledFacts
    <2>2. StablePred(n) = CHOOSE m \in Nearer : \A k \in Nearer : Pos(k) <= Pos(m)
      BY <1>2 DEF StablePred
    <2>3. Pos(n) \in Nat
      BY SettledFacts, PosFacts
    <2> QED
      BY <2>1, <2>2, <2>3
  <1>3. CASE n # First /\ Nearer = {}
    BY <1>0, <1>3 DEF StablePred
  <1> QED
    BY <1>1, <1>2, <1>3

LEMMA PredOfSucc ==
  ASSUME NEW n \in Settled \ {First}
  PROVE  StablePred(StableSucc(n)) = n
  <1> DEFINE s == StableSucc(n)
             Nearer == {m \in Settled \ {First} : Pos(m) < Pos(s)}
  <1>1. /\ s \in Settled /\ s # n /\ Pos(n) < Rank(s)
        /\ \A m \in Settled : Pos(n) < Rank(m) => Rank(s) <= Rank(m)
    BY SuccFacts
  <1>2. \A m \in Settled : /\ Pos(m) \in 0 .. Size - 1 /\ (Pos(m) = 0 <=> m = First)
                          /\ \A k \in Settled : Pos(m) = Pos(k) => m = k
    BY SettledFacts, PosFacts
  <1>3. \A m \in Settled : IF m = First THEN Rank(m) = Size ELSE Rank(m) = Pos(m)
    BY DEF Rank
  <1> HIDE DEF s
  <1>4. CASE s = First
    <2>1. Last \in Settled /\ Pos(n) <= Pos(Last)
      BY LastFacts
    <2>2. Last # First
      BY <1>2, <2>1
    <2>3. ~(Pos(n) < Pos(Last))
      BY <1>1, <1>2, <1>3, <1>4, <2>1, <2>2, BitsAssumption
    <2>4. Last = n
      BY <1>2, <2>1, <2>3
    <2> QED
      BY <1>4, <2>2, <2>4 DEF StablePred, s
  <1>5. CASE s # First
    <2>1. n \in Nearer
      BY <1>1, <1>3, <1>5
    <2>2. \A k \in Nearer : Pos(k) <= Pos(n)
      BY <1>1, <1>2, <1>3, <1>5
    <2>3. \A m \in Nearer : (\A k \in Nearer : Pos(k) <= Pos(m)) => m = n
      <3> SUFFICES ASSUME NEW m \in Nearer, \A k \in Nearer : Pos(k) <= Pos(m) PROVE m = n
        OBVIOUS
      <3>1. Pos(n) <= Pos(m) /\ Pos(m) <= Pos(n)
        BY <2>1, <2>2
      <3> QED
        BY <1>2, <3>1
    <2>4. StablePred(s) = CHOOSE m \in Nearer : \A k \in Nearer : Pos(k) <= Pos(m)
      BY <1>5, <2>1 DEF StablePred
    <2> HIDE DEF Nearer
    <2>5. \E m \in Nearer : \A k \in Nearer : Pos(k) <= Pos(m)
      BY <2>1, <2>2
    <2> QED
      BY <2>3, <2>4, <2>5 DEF s
  <1> QED
    BY <1>4, <1>5

\* How many nodes after n come before m, and the k-th node after n.
Before(n, m) == {j \in After(n) : Rank(j) < Rank(m)}
Nth(n, k) == CHOOSE m \in After(n) : Cardinality(Before(n, m)) = k - 1
Cut(k) == IF k < SuccessorListSize THEN k ELSE SuccessorListSize

LEMMA RankFacts ==
  ASSUME NEW n \in Settled
  PROVE  /\ Rank(n) \in 1 .. Size /\ Rank(First) = Size /\ Size \in Nat
         /\ n # First => Rank(n) = Pos(n) /\ Rank(n) < Size
         /\ \A m \in Settled : Rank(m) = Rank(n) => m = n
  BY SettledFacts, PosFacts, BitsAssumption DEF Rank

LEMMA AfterFinite ==
  ASSUME NEW n \in Settled
  PROVE  /\ IsFiniteSet(After(n)) /\ After(n) \subseteq Settled
         /\ \A m : IsFiniteSet(Before(n, m))
  <1>1. After(n) \subseteq Settled
    BY DEF After
  <1>2. IsFiniteSet(After(n))
    BY <1>1, SettledFacts, FS_Subset
  <1>3. ASSUME NEW m PROVE IsFiniteSet(Before(n, m))
    <2>1. Before(n, m) \subseteq After(n)
      BY DEF Before
    <2> QED
      BY <1>2, <2>1, FS_Subset
  <1> QED
    BY <1>1, <1>2, <1>3

\* The nodes after n are its successor and those after that.
LEMMA AfterSucc ==
  ASSUME NEW n \in Settled \ {First}
  PROVE  /\ After(n) = After(StableSucc(n)) \cup {StableSucc(n)}
         /\ StableSucc(n) \notin After(StableSucc(n))
         /\ Before(n, StableSucc(n)) = {}
         /\ \A m \in After(StableSucc(n)) :
              /\ Before(n, m) = Before(StableSucc(n), m) \cup {StableSucc(n)}
              /\ StableSucc(n) \notin Before(StableSucc(n), m)
  <1>1. PICK s \in Settled : s = StableSucc(n)
    BY SuccFacts
  <1>2. Pos(n) < Rank(s) /\ \A m \in Settled : Pos(n) < Rank(m) => Rank(s) <= Rank(m)
    BY <1>1, SuccFacts
  <1>3. \A m \in Settled : /\ Rank(m) \in 1 .. Size /\ (m # First => Rank(m) = Pos(m) /\ Rank(m) < Size)
                           /\ \A k \in Settled : Rank(m) = Rank(k) => m = k
    BY RankFacts
  <1>4. Rank(First) = Size /\ Size \in Nat /\ Pos(n) \in Nat
    BY <1>3, RankFacts
  <1>5. \A m \in Settled : m \in After(n) <=> Rank(m) > Pos(n)
    BY DEF After
  <1>6. \A m \in Settled : m \in After(s) <=> Rank(m) > Rank(s)
    <2>1. CASE s = First
      BY <1>3, <1>4, <2>1 DEF After
    <2>2. CASE s # First
      BY <1>1, <1>3, <2>2 DEF After
    <2> QED
      BY <2>1, <2>2
  <1>7. After(n) \subseteq Settled /\ After(s) \subseteq Settled
    BY <1>1 DEF After
  <1>8. s \in After(n) /\ s \notin After(s)
    BY <1>1, <1>2, <1>3, <1>5, <1>6
  <1>9. \A m \in Settled : m \in After(n) <=> m \in After(s) \/ m = s
    BY <1>1, <1>2, <1>3, <1>4, <1>5, <1>6
  <1>10. Before(n, s) = {}
    BY <1>1, <1>2, <1>3, <1>4, <1>5, <1>7 DEF Before
  <1>11. ASSUME NEW m \in After(s)
         PROVE  Before(n, m) = Before(s, m) \cup {s} /\ s \notin Before(s, m)
    <2>1. Rank(s) < Rank(m)
      BY <1>6, <1>7
    <2> QED
      BY <1>7, <1>8, <1>9, <2>1 DEF Before
  <1> QED
    BY <1>1, <1>7, <1>8, <1>9, <1>10, <1>11

\* How many nodes lie after n, and how many of those before each of them.
LEMMA AfterCount ==
  ASSUME NEW n \in Settled \ {First}
  PROVE  /\ Cardinality(After(n)) = Cardinality(After(StableSucc(n))) + 1
         /\ Cardinality(After(StableSucc(n))) \in Nat
         /\ Cardinality(Before(n, StableSucc(n))) = 0
         /\ \A m \in After(StableSucc(n)) :
              /\ Cardinality(Before(n, m)) = Cardinality(Before(StableSucc(n), m)) + 1
              /\ Cardinality(Before(StableSucc(n), m)) \in Nat
  <1>1. PICK s \in Settled : s = StableSucc(n)
    BY SuccFacts
  <1>2. IsFiniteSet(After(s)) /\ \A m : IsFiniteSet(Before(s, m))
    BY AfterFinite
  <1>3. Cardinality(After(s)) \in Nat /\ Cardinality(After(n)) = Cardinality(After(s)) + 1
    BY <1>1, <1>2, AfterSucc, FS_AddElement, FS_CardinalityType
  <1>4. Cardinality(Before(n, s)) = 0
    BY <1>1, AfterSucc, FS_EmptySet
  <1>5. ASSUME NEW m \in After(s)
        PROVE  /\ Cardinality(Before(n, m)) = Cardinality(Before(s, m)) + 1
               /\ Cardinality(Before(s, m)) \in Nat
    BY <1>1, <1>2, AfterSucc, FS_AddElement, FS_CardinalityType
  <1> QED
    BY <1>1, <1>3, <1>4, <1>5

\* Every place on the rest of the chain is taken by one node.
Placed(n) ==
  \A k \in 1 .. Cardinality(After(n)) :
    \E m \in After(n) : /\ Cardinality(Before(n, m)) = k - 1
                        /\ \A j \in After(n) : Cardinality(Before(n, j)) = k - 1 => j = m

LEMMA PlacedStep ==
  ASSUME NEW n \in Settled \ {First}, Placed(StableSucc(n))
  PROVE  Placed(n)
  <1>1. PICK s \in Settled : s = StableSucc(n)
    BY SuccFacts
  <1>2. After(n) = After(s) \cup {s} /\ s \notin After(s)
    BY <1>1, AfterSucc
  <1>3. /\ Cardinality(After(n)) = Cardinality(After(s)) + 1 /\ Cardinality(After(s)) \in Nat
        /\ Cardinality(Before(n, s)) = 0
        /\ \A m \in After(s) : /\ Cardinality(Before(n, m)) = Cardinality(Before(s, m)) + 1
                               /\ Cardinality(Before(s, m)) \in Nat
    BY <1>1, AfterCount
  <1>4. ASSUME NEW k \in 1 .. Cardinality(After(n))
        PROVE  \E m \in After(n) :
                 /\ Cardinality(Before(n, m)) = k - 1
                 /\ \A j \in After(n) : Cardinality(Before(n, j)) = k - 1 => j = m
    <2>1. CASE k = 1
      BY <1>2, <1>3, <2>1
    <2>2. CASE k # 1
      <3>1. k - 1 \in 1 .. Cardinality(After(s))
        BY <1>3, <2>2
      <3>2. PICK m \in After(s) :
              /\ Cardinality(Before(s, m)) = (k - 1) - 1
              /\ \A j \in After(s) : Cardinality(Before(s, j)) = (k - 1) - 1 => j = m
        BY <1>1, <3>1 DEF Placed
      <3> QED
        BY <1>2, <1>3, <2>2, <3>2
    <2> QED
      BY <2>1, <2>2
  <1> QED
    BY <1>4 DEF Placed

LEMMA AllPlaced == \A n \in Settled : Placed(n)
  <1> DEFINE Bad == {n \in Settled : ~Placed(n)}
             f == [n \in Bad |-> Size - Rank(n)]
  <1>1. SUFFICES ASSUME Bad # {} PROVE FALSE
    OBVIOUS
  <1>2. f \in [Bad -> Nat]
    BY RankFacts
  <1>3. \E n \in Bad : \A m \in Bad : f[n] <= f[m]
    <2> HIDE DEF Bad, f
    <2> QED
      BY <1>1, <1>2, Least
  <1>4. PICK n \in Bad : \A m \in Bad : Size - Rank(n) <= Size - Rank(m)
    BY <1>3
  <1>5. n # First
    <2>1. Cardinality(After(First)) = 0
      BY FS_EmptySet DEF After
    <2>2. Placed(First)
      BY <2>1 DEF Placed
    <2> QED
      BY <1>4, <2>2
  <1>6. PICK s \in Settled : s = StableSucc(n) /\ Pos(n) < Rank(s)
    BY <1>4, <1>5, SuccFacts
  <1>7. Rank(n) = Pos(n) /\ Rank(n) \in 1 .. Size /\ Rank(s) \in 1 .. Size /\ Size \in Nat
    BY <1>4, <1>5, RankFacts
  <1>8. s \notin Bad
    BY <1>4, <1>6, <1>7
  <1> QED
    BY <1>4, <1>5, <1>6, <1>8, PlacedStep

\* The first node after n is its successor; the others follow that one.
LEMMA NthFacts ==
  ASSUME NEW n \in Settled
  PROVE  /\ Cardinality(After(n)) \in Nat
         /\ \A k \in 1 .. Cardinality(After(n)) :
              /\ Nth(n, k) \in After(n) /\ Cardinality(Before(n, Nth(n, k))) = k - 1
              /\ \A j \in After(n) : Cardinality(Before(n, j)) = k - 1 => j = Nth(n, k)
  <1>1. Cardinality(After(n)) \in Nat
    BY AfterFinite, FS_CardinalityType
  <1>2. ASSUME NEW k \in 1 .. Cardinality(After(n))
        PROVE  /\ Nth(n, k) \in After(n) /\ Cardinality(Before(n, Nth(n, k))) = k - 1
               /\ \A j \in After(n) : Cardinality(Before(n, j)) = k - 1 => j = Nth(n, k)
    <2>1. PICK m \in After(n) : /\ Cardinality(Before(n, m)) = k - 1
                                /\ \A j \in After(n) : Cardinality(Before(n, j)) = k - 1 => j = m
      BY AllPlaced DEF Placed
    <2>2. Nth(n, k) = m
      BY <2>1 DEF Nth
    <2> QED
      BY <2>1, <2>2
  <1> QED
    BY <1>1, <1>2

LEMMA NthSucc ==
  ASSUME NEW n \in Settled \ {First}
  PROVE  /\ Nth(n, 1) = StableSucc(n)
         /\ \A k \in 1 .. Cardinality(After(StableSucc(n))) :
              Nth(n, k + 1) = Nth(StableSucc(n), k)
  <1>1. PICK s \in Settled : s = StableSucc(n)
    BY SuccFacts
  <1>2. After(n) = After(s) \cup {s}
    BY <1>1, AfterSucc
  <1>3. /\ Cardinality(After(n)) = Cardinality(After(s)) + 1 /\ Cardinality(After(s)) \in Nat
        /\ Cardinality(Before(n, s)) = 0
        /\ \A m \in After(s) : Cardinality(Before(n, m)) = Cardinality(Before(s, m)) + 1
    BY <1>1, AfterCount
  <1>4. Nth(n, 1) = s
    <2>1. 1 \in 1 .. Cardinality(After(n))
      BY <1>3
    <2>2. s \in After(n) /\ Cardinality(Before(n, s)) = 1 - 1
      BY <1>2, <1>3
    <2> QED
      BY <2>1, <2>2, NthFacts
  <1>5. ASSUME NEW k \in 1 .. Cardinality(After(s)) PROVE Nth(n, k + 1) = Nth(s, k)
    <2>1. Nth(s, k) \in After(s) /\ Cardinality(Before(s, Nth(s, k))) = k - 1
      BY NthFacts
    <2>2. k + 1 \in 1 .. Cardinality(After(n))
      BY <1>3
    <2>3. Cardinality(Before(n, Nth(s, k))) = (k + 1) - 1 /\ Nth(s, k) \in After(n)
      BY <1>2, <1>3, <2>1
    <2> QED
      BY <2>2, <2>3, NthFacts
  <1> QED
    BY <1>1, <1>4, <1>5

LEMMA ListFacts ==
  ASSUME NEW n \in Settled
  PROVE  /\ StableList(n) \in Seq(Settled) /\ StableList(n) \in Seq(Nodes)
         /\ Len(StableList(n)) = Cut(Cardinality(After(n)))
         /\ \A k \in 1 .. Cut(Cardinality(After(n))) : StableList(n)[k] = Nth(n, k)
  <1>1. Cardinality(After(n)) \in Nat /\ SuccessorListSize \in Nat \ {0}
    BY NthFacts, ChordAssumption
  <1>2. StableList(n) = [k \in 1 .. Cut(Cardinality(After(n))) |-> Nth(n, k)]
    BY DEF StableList, Cut, Nth, Before, After, Rank
  <1>3. Cut(Cardinality(After(n))) \in Nat
    BY <1>1 DEF Cut
  <1>4. \A k \in 1 .. Cut(Cardinality(After(n))) : Nth(n, k) \in Settled
    BY <1>1, NthFacts, AfterFinite DEF Cut
  <1>5. StableList(n) \in Seq(Settled) /\ Len(StableList(n)) = Cut(Cardinality(After(n)))
    BY <1>2, <1>3, <1>4
  <1>6. StableList(n) \in Seq(Nodes)
    <2>1. \A k \in 1 .. Cut(Cardinality(After(n))) : Nth(n, k) \in Nodes
      BY <1>4, SettledFacts
    <2> QED
      BY <1>2, <1>3, <2>1
  <1> QED
    BY <1>2, <1>3, <1>5, <1>6

\* What updateSuccessorList makes of the successor's list is the node's own again.
LEMMA ListStable ==
  ASSUME NEW n \in Settled \ {First}
  PROVE  Extended(StableSucc(n), StableList(StableSucc(n))) = StableList(n)
  <1>1. PICK s \in Settled : s = StableSucc(n)
    BY SuccFacts
  <1>2. PICK c \in Nat : c = Cardinality(After(s)) /\ Cardinality(After(n)) = c + 1
    BY <1>1, AfterCount
  <1>3. PICK L \in Seq(Settled) : L = StableList(s)
    BY ListFacts
  <1>4. Len(L) = Cut(c) /\ \A k \in 1 .. Cut(c) : L[k] = Nth(s, k)
    BY <1>2, <1>3, ListFacts
  <1>5. /\ StableList(n) \in Seq(Settled) /\ Len(StableList(n)) = Cut(c + 1)
        /\ \A k \in 1 .. Cut(c + 1) : StableList(n)[k] = Nth(n, k)
    BY <1>2, ListFacts
  <1>6. Nth(n, 1) = s /\ \A k \in 1 .. c : Nth(n, k + 1) = Nth(s, k)
    BY <1>1, <1>2, NthSucc
  <1>7. SuccessorListSize \in Nat \ {0}
    BY ChordAssumption
  <1>8. PICK l : l = <<s>> \o L
    OBVIOUS
  <1>9. /\ l \in Seq(Settled) /\ Len(l) = Cut(c) + 1 /\ l[1] = s
        /\ \A k \in 1 .. Cut(c) : l[k + 1] = L[k]
    BY <1>4, <1>7, <1>8 DEF Cut
  <1>10. \A k \in 2 .. Cut(c) + 1 : l[k] = Nth(n, k)
    <2>1. ASSUME NEW k \in 2 .. Cut(c) + 1 PROVE l[k] = Nth(n, k)
      <3>1. k - 1 \in 1 .. Cut(c) /\ k - 1 \in 1 .. c /\ (k - 1) + 1 = k
        BY <1>7 DEF Cut
      <3> QED
        BY <1>4, <1>6, <1>9, <3>1
    <2> QED
      BY <2>1
  <1>11. Cut(Len(l)) = Cut(c + 1) /\ Cut(c + 1) \in 1 .. Len(l) /\ Len(l) \in Nat
    BY <1>7, <1>9 DEF Cut
  <1>12. PICK e : e = SubSeq(l, 1, Cut(Len(l)))
    OBVIOUS
  <1>13. /\ e \in Seq(Settled) /\ Len(e) = Cut(c + 1)
         /\ \A k \in 1 .. Cut(c + 1) : e[k] = l[k]
    <2>1. PICK d \in 1 .. Len(l) : d = Cut(Len(l)) /\ d = Cut(c + 1)
      BY <1>11
    <2>2. \A i \in 1 .. d : l[i] \in Settled
      BY <1>9, <1>11, <2>1
    <2>3. /\ SubSeq(l, 1, d) \in Seq(Settled)
          /\ Len(SubSeq(l, 1, d)) = IF 1 <= d THEN d - 1 + 1 ELSE 0
          /\ \A i \in 1 .. d - 1 + 1 : SubSeq(l, 1, d)[i] = l[1 + i - 1]
      BY <1>11, <2>1, <2>2, SubSeqProperties
    <2>4. e = SubSeq(l, 1, d)
      BY <1>12, <2>1
    <2>5. \A i \in 1 .. d : e[i] = l[i]
      BY <1>11, <2>1, <2>3, <2>4
    <2> QED
      BY <1>11, <2>1, <2>3, <2>4, <2>5
  <1>14. \A k \in 1 .. Cut(c + 1) : e[k] = StableList(n)[k]
    BY <1>5, <1>6, <1>7, <1>9, <1>10, <1>13 DEF Cut
  <1>15. e = StableList(n)
    BY <1>5, <1>13, <1>14, SeqEqual
  <1> QED
    BY <1>1, <1>3, <1>8, <1>12, <1>15 DEF Extended, Cut

-----------------------------------------------------------------------------
(* The invariants hold of the stable ring.                                 *)

LEMMA AnswerSettled ==
  ASSUME NEW n \in Settled, NEW id \in ID
  PROVE  Answer(n, id) \in Settled
  BY SettledFacts, OwnerFacts DEF Answer

LEMMA TablesSettled ==
  ASSUME NEW n \in Settled, NEW i \in Index
  PROVE  Answer(n, fingerStart(n, i)) \in Settled /\ StableAnti(n, i) \in Settled
  <1>1. fingerStart(n, i) \in ID /\ antiFingerStart(n, i) \in ID
    BY SettledFacts, StartInID
  <1>2. \A a \in Settled : StablePred(a) \in Settled \cup {Nil}
    BY PredFacts
  <1> QED
    BY <1>1, <1>2, AnswerSettled DEF StableAnti

\* The nodes a stable ring knows of are the settled ones.
LEMMA StableAnnounced == StableInit => Joined = Settled /\ Announced = Settled
  <1> SUFFICES ASSUME StableInit PROVE Joined = Settled /\ Announced = Settled
    OBVIOUS
  <1>1. \A n \in Nodes : th[Main(n)].pc = "idle" /\ life[n] = IF n \in Late THEN "off" ELSE "member"
    BY SetFacts, Fields DEF StableInit
  <1> QED
    BY <1>1 DEF Joined, Announced, Settled

LEMMA StableTyped == StableInit => NodeTypes
  <1> SUFFICES ASSUME StableInit PROVE NodeTypes
    OBVIOUS
  <1> USE DEF StableInit
  <1>1. Settled \subseteq Nodes /\ Settled = Nodes \ Late /\ Late \subseteq Nodes
    BY SettledFacts DEF Settled
  <1>2. \A n \in Nodes : n \notin Late => n \in Settled
    BY <1>1
  <1>3. life \in [Nodes -> {"off", "joining", "member", "leaving", "gone", "refused"}]
    OBVIOUS
  <1>4. boot \in [Nodes -> Refs]
    BY NodeFacts
  <1>5. succ \in [Nodes -> Nodes]
    BY <1>1, <1>2, SuccFacts
  <1>6. pred \in [Nodes -> Refs]
    <2>1. \A n \in Settled : StablePred(n) \in Refs
      BY <1>1, PredFacts, NodeFacts
    <2> QED
      BY <1>2, <2>1, NodeFacts
  <1>7. finger \in [Nodes -> [Index -> Refs]] /\ anti \in [Nodes -> [Index -> Refs]]
    <2>1. \A n \in Settled, i \in Index :
            Answer(n, fingerStart(n, i)) \in Refs /\ StableAnti(n, i) \in Refs
      BY <1>1, TablesSettled, NodeFacts
    <2> QED
      BY <1>2, <2>1, NodeFacts
  <1>8. succList \in [Nodes -> Seq(Nodes)]
    <2>1. \A n \in Settled : StableList(n) \in Seq(Nodes)
      BY ListFacts
    <2> QED
      BY <1>2, <2>1
  <1>9. store \in [Nodes -> SUBSET Keys]
    OBVIOUS
  <1>10. /\ fingerIdx \in [Nodes -> Index] /\ antiIdx \in [Nodes -> Index]
         /\ ticks \in [Nodes -> 0 .. MaxTicks] /\ losses \in 0 .. MaxLosses
    <2>1. 1 \in Index /\ 0 \in Index /\ 0 \in 0 .. MaxTicks /\ {0, MaxLosses} \subseteq 0 .. MaxLosses
      BY BitsAssumption, ChordAssumption DEF Index
    <2> QED
      BY <2>1
  <1>11. th \in [Threads -> Record] /\ lst \in [Threads -> Seq(Nodes)]
    <2>1. \A t \in Threads : Idle \in Record
      BY IdleOK
    <2>2. <<>> \in Seq(Nodes)
      OBVIOUS
    <2> QED
      BY <2>1, <2>2
  <1> QED
    BY <1>3, <1>4, <1>5, <1>6, <1>7, <1>8, <1>9, <1>10, <1>11 DEF NodeTypes

LEMMA StableOK == StableInit => IInv /\ KnownInv
  <1> SUFFICES ASSUME StableInit PROVE IInv /\ KnownInv
    OBVIOUS
  <1>1. \A t \in Threads : th[t] = Idle /\ Idle \in Record /\ ThreadOK(t, Idle) /\ Idle.pc = "idle"
    BY IdleOK, Fields DEF StableInit
  <1>2. \A n \in Nodes : th[Main(n)] = Idle
    BY <1>1, SetFacts
  <1>3. IInv
    <2>1. ThreadsOK /\ OffIsIdle
      BY <1>1, <1>2 DEF ThreadsOK, OffIsIdle
    <2>2. BootOK
      <3>1. \A n \in Nodes : life[n] # "joining"
        BY DEF StableInit
      <3>2. \A n \in Nodes : th[Main(n)].pc = "idle"
        BY <1>1, <1>2, SetFacts
      <3> QED
        BY <3>1, <3>2 DEF BootOK, JoinPCs
    <2>3. IndexOK
      BY DEF IndexOK, StableInit
    <2> QED
      BY <2>1, <2>2, <2>3, StableTyped DEF IInv
  <1>4. PICK A : A = Settled
    OBVIOUS
  <1>5. Joined = A /\ Announced = A /\ A = Nodes \ Late /\ First \in A /\ <<>> \in Seq(A)
    BY <1>4, StableAnnounced, SettledFacts DEF Settled
  <1>6. \A n \in Nodes : n \notin Late =>
          /\ StableSucc(n) \in A /\ StablePred(n) \in A \cup {Nil} /\ StableList(n) \in Seq(A)
          /\ \A i \in Index : Answer(n, fingerStart(n, i)) \in A /\ StableAnti(n, i) \in A
    BY <1>4, <1>5, SuccFacts, PredFacts, ListFacts, TablesSettled
  <1>7. PointersIn(A)
    BY <1>5, <1>6 DEF PointersIn, StableInit
  <1>8. SuccessorsIn(A)
    BY <1>5, <1>6 DEF SuccessorsIn, StableInit
  <1>9. ThreadsIn(A)
    <2>1. \A t \in Threads : ThreadIn(A, t, Idle)
      BY Fields DEF ThreadIn
    <2> QED
      BY <1>1, <1>5, <2>1 DEF ThreadsIn, StableInit
  <1> QED
    BY <1>3, <1>5, <1>7, <1>8, <1>9 DEF KnownInv

LEMMA StableInductive == StableSpec => [](IInv /\ KnownInv)
  BY StableOK, NextOK, KnownStep, PTL DEF StableSpec

-----------------------------------------------------------------------------
(* The theorems about rings that start in the stable state.                *)

\* The types hold of every ring that starts in the stable state as well.
THEOREM StableTypeCorrect == StableSpec => []TypeOK
  <1>1. StableInit => ClientsOK
    BY DEF StableInit, ClientsOK
  <1>2. IInv /\ ClientsOK => TypeOK
    BY DEF IInv, ClientsOK, TypeOK
  <1> QED
    BY <1>1, <1>2, StableInductive, ClientsStep, PTL DEF StableSpec

\* No node of a stable ring, or that joins one, comes to be its own predecessor as
\* long as nodes crash rather than leave.
THEOREM StableNeverOwnPredecessor ==
  ASSUME KillSet = {}
  PROVE  StableSpec => []PredNotSelf
  <1>1. StableInit => NoDeparture /\ PredNotSelf
    <2> SUFFICES ASSUME StableInit PROVE NoDeparture /\ PredNotSelf
      OBVIOUS
    <2>1. NoDeparture
      BY Fields DEF StableInit, NoDeparture
    <2>2. \A n \in Nodes : n \notin Late => StablePred(n) # n
      BY PredFacts DEF Settled
    <2> QED
      BY <2>1, <2>2, NodeFacts DEF StableInit, PredNotSelf
  <1>2. IInv /\ NoDeparture /\ [Next]_vars => NoDeparture'
    BY NoDepartureStep
  <1>3. IInv /\ NoDeparture /\ PredNotSelf /\ [Next]_vars => PredNotSelf'
    BY PredNotSelfStep
  <1> QED
    BY <1>1, <1>2, <1>3, StableInductive, PTL DEF StableSpec

LEMMA StableLeaver ==
  ASSUME NEW x, OneDeparture(x)
  PROVE  StableInit => LeaverInv(x)
  <1> SUFFICES ASSUME StableInit PROVE LeaverInv(x)
    OBVIOUS
  <1> USE Fields
  <1>1. /\ x \in Nodes /\ x # First /\ First \in Nodes /\ <<x, "ctl">> \in Threads
        /\ \A t \in Threads : t[1] \in Nodes
    BY NodeFacts, SetFacts DEF OneDeparture, Roles
  <1>2. Idle.pc \notin JoinPCs \cup PastPCs
    BY DEF JoinPCs, PastPCs
  <1>3. Joined = Settled /\ Settled = Nodes \ Late /\ First \in Settled /\ Holders \subseteq Settled
    BY StableAnnounced, SettledFacts, StableAssumption DEF Settled
  <1>4. \A t \in Threads : LeaverThread(x, t, th[t])
    BY <1>1, <1>2 DEF StableInit, LeaverThread
  <1>5. x \in Joined => succ[x] # x
    BY <1>1, <1>3, SuccFacts DEF StableInit
  <1>6. OneLeaver(x)
    BY <1>1, <1>3, <1>4, <1>5 DEF StableInit, OneLeaver
  <1>7. KeysKept(x)
    BY <1>1, <1>2, <1>3 DEF StableInit, KeysKept, HandedOver, PastPCs
  <1> QED
    BY <1>6, <1>7 DEF LeaverInv

\* The same, with the same exception, of a ring that is stable when the departure begins.
THEOREM StableLeaveKeepsKeys ==
  ASSUME NEW x, OneDeparture(x)
  PROVE  StableSpec => []KeysSurvive
  <1>1. IInv /\ LeaverInv(x) => KeysSurvive
    BY KeptSurvive DEF OneDeparture
  <1> QED
    BY <1>1, StableInductive, StableLeaver, LeaverStep, PTL DEF StableSpec

-----------------------------------------------------------------------------
(* A ring everybody stays in is a fixpoint of the background loops.        *)

\* Nobody is joining, and nobody who has left comes back.
Grounded ==
  \A n \in Nodes : life[n] \in {"member", "leaving", "gone"} /\ th[Main(n)].pc \notin JoinPCs

Everyone == \A n \in Nodes : life[n] = "member"

\* What a thread about to run frame r with list l does in a stable ring: it never
\* adopts another successor and never repairs one.
MainCalm == {"idle", "stabAlone", "stabAsk", "stabNotify", "stabList", "stabStore",
             "fixFinger", "fixAnti", "antiPred", "antiStore"}
AskPCs == {"stabAsk", "stabNotify", "stabList", "stabStore"}

CalmThread(t, r, l) ==
  /\ t[2] = "main" => r.pc \in MainCalm
  /\ t[2] = "cp" => r.pc \in {"idle", "ping"}
  /\ t[2] = "cs" => r.pc \in {"idle", "csPing"}
  /\ t[2] = "ctl" => r.pc = "idle"
  /\ r.pc = "stabAlone" => t[1] = First
  /\ r.pc \in AskPCs => t[1] # First /\ r.sv = StableSucc(t[1])
  /\ r.pc = "stabStore" => l = StableList(StableSucc(t[1]))

Calm ==
  /\ \A n \in Nodes : succ[n] = StableSucc(n) /\ pred[n] = StablePred(n) /\ succList[n] = StableList(n)
  /\ finger[First][0] = First
  /\ \A t \in Threads : CalmThread(t, th[t], lst[t])

\* What StableIsFixpoint promises of a step.
Kept ==
  /\ UNCHANGED <<succ, pred, succList>>
  /\ \A n \in Nodes : /\ finger'[n] # finger[n] => th[Main(n)].pc = "fixFinger"
                      /\ anti'[n] # anti[n] => th[Main(n)].pc = "antiStore"

LEMMA GroundedMove ==
  ASSUME IInv, Grounded, NEW t \in Threads, NEW r, Become(t, r),
         t[2] = "main" => r.pc \notin JoinPCs, UNCHANGED life
  PROVE  Grounded' /\ \A n \in Nodes : life'[n] = "member" => life[n] = "member"
  <1>1. th \in [Threads -> Record] /\ \A n \in Nodes : Main(n) \in Threads
    BY SetFacts DEF IInv, NodeTypes
  <1>2. \A n \in Nodes : Main(n)[2] = "main"
    BY DEF Main
  <1>3. ASSUME NEW n \in Nodes PROVE th'[Main(n)].pc \notin JoinPCs
    <2>1. (Main(n) = t /\ th'[Main(n)] = r) \/ th'[Main(n)] = th[Main(n)]
      BY <1>1 DEF Become
    <2> QED
      BY <1>2, <2>1 DEF Grounded
  <1> QED
    BY <1>3 DEF Grounded

\* When a node does not join, Join comes down to the second half of the fix-fingers tick.
LEMMA JoinGrounded ==
  ASSUME NEW n \in Nodes, th[Main(n)].pc \notin JoinPCs, Join(n)
  PROVE  AntiFound(n) \/ AntiFailed(n) \/ AntiAsk(n) \/ AntiStore(n)
  BY DEF Join, JoinFound, JoinFailed, InitFingerFound, InitFingerFailed, InitFingerNext, InitFingerCopy,
         OthersFound, OthersFailed, UpdateFingerTable, MigrateKeys, PullKeys, Ended, JoinPCs

\* The second half of the tick moves the main thread on, and may store an anti-finger.
LEMMA AntiGrounded ==
  ASSUME IInv, NEW n \in Nodes, th[Main(n)].pc \notin JoinPCs, life[n] # "joining",
         AntiFound(n) \/ AntiFailed(n) \/ AntiAsk(n) \/ AntiStore(n)
  PROVE  /\ \E r : Become(Main(n), r) /\ r.pc \in {"idle", "antiPred", "antiStore"}
         /\ UNCHANGED <<life, succ, pred, finger, succList, lst>>
         /\ anti' = anti \/ (th[Main(n)].pc = "antiStore" /\ \A m \in Nodes \ {n} : anti'[m] = anti[m])
  <1> USE Fields
  <1>1. life[n] # "joining" /\ th[Main(n)].pc # "initAnti" /\ anti \in [Nodes -> [Index -> Refs]]
    BY DEF JoinPCs, IInv, NodeTypes
  <1>2. CASE AntiFound(n)
    BY <1>2 DEF AntiFound
  <1>3. CASE AntiFailed(n)
    BY <1>1, <1>3 DEF AntiFailed
  <1>4. CASE AntiAsk(n)
    BY <1>4 DEF AntiAsk
  <1>5. CASE AntiStore(n)
    BY <1>1, <1>5 DEF AntiStore
  <1> QED
    BY <1>2, <1>3, <1>4, <1>5

\* Stabilize moves its thread on.
LEMMA StabilizeGrounded ==
  ASSUME IInv, NEW t \in Threads, Stabilize(t)
  PROVE  UNCHANGED life /\ \E r : Become(t, r) /\ r.pc \notin JoinPCs
  <1> USE Fields DEF JoinPCs
  <1>1. th[t] \in Record
    BY DEF IInv, NodeTypes
  <1>2. CASE StabRead(t)
    BY <1>2 DEF StabRead
  <1>3. CASE StabAlone(t)
    BY <1>3 DEF StabAlone
  <1>4. CASE StabAsk(t)
    BY <1>4 DEF StabAsk
  <1>5. CASE StabAdopt(t)
    BY <1>5 DEF StabAdopt
  <1>6. CASE StabNotify(t)
    <2>1. PICK r : r = [th[t] EXCEPT !.pc = "stabList"]
      OBVIOUS
    <2>2. r.pc = "stabList" /\ Become(t, r) /\ UNCHANGED life
      BY <1>1, <1>6, <2>1 DEF StabNotify, Record
    <2> QED
      BY <2>2
  <1>7. CASE FetchSuccessorList(t)
    BY <1>7 DEF FetchSuccessorList
  <1>8. CASE StoreSuccessorList(t)
    BY <1>8 DEF StoreSuccessorList
  <1> QED
    BY <1>2, <1>3, <1>4, <1>5, <1>6, <1>7, <1>8 DEF Stabilize

\* FindSuccessor changes its thread's call only.
LEMMA FindSuccessorGrounded ==
  ASSUME IInv, NEW t \in Threads, FindSuccessor(t)
  PROVE  /\ UNCHANGED <<life, succ, pred, finger, anti, succList, lst>>
         /\ th[t].pc \in LookupPCs /\ \E r : Become(t, r) /\ r.pc = th[t].pc
  <1>1. th[t] \in Record /\ ThreadOK(t, th[t])
    BY DEF IInv, NodeTypes, ThreadsOK
  <1>2. th[t].pc \in LookupPCs /\ UNCHANGED <<life, succ, pred, finger, anti, succList, lst>>
    BY <1>1 DEF FindSuccessor, FindRead, FindRoute, FindFail, ThreadOK
  <1>3. CASE FindRead(t)
    <2>1. PICK r : /\ Become(t, r)
                   /\ \E s, g : r = [th[t] EXCEPT !.sv = s, !.st = g]
      BY <1>3 DEF FindRead
    <2>2. r.pc = th[t].pc
      BY <1>1, <2>1 DEF Record
    <2> QED
      BY <1>2, <2>1, <2>2
  <1>4. CASE FindRoute(t)
    <2>1. PICK r : /\ Become(t, r)
                   /\ \/ r = [th[t] EXCEPT !.st = "found"]
                      \/ \E c : r = [th[t] EXCEPT !.st = "read", !.at = c, !.sv = Nil]
      BY <1>4 DEF FindRoute
    <2>2. r.pc = th[t].pc
      BY <1>1, <2>1 DEF Record
    <2> QED
      BY <1>2, <2>1, <2>2
  <1>5. CASE FindFail(t)
    <2>1. PICK r : Become(t, r) /\ r = [th[t] EXCEPT !.st = "failed"]
      BY <1>5 DEF FindFail
    <2>2. r.pc = th[t].pc
      BY <1>1, <2>1 DEF Record
    <2> QED
      BY <1>2, <2>1, <2>2
  <1> QED
    BY <1>3, <1>4, <1>5 DEF FindSuccessor

\* Nobody joins a ring without joiners, and nobody returns to it.
LEMMA GroundedStep ==
  IInv /\ Grounded /\ [Next]_vars =>
    Grounded' /\ \A n \in Nodes : life'[n] = "member" => life[n] = "member"
  <1> DEFINE Goal == Grounded' /\ \A n \in Nodes : life'[n] = "member" => life[n] = "member"
  <1> SUFFICES ASSUME IInv, Grounded, [Next]_vars PROVE Goal
    OBVIOUS
  <1> USE Fields
  <1>1. /\ th \in [Threads -> Record] /\ \A n \in Nodes : Main(n) \in Threads /\ Main(n)[2] = "main"
        /\ \A n \in Nodes, role \in Roles : <<n, role>> \in Threads
        /\ \A n \in Nodes : life[n] \in {"member", "leaving", "gone"}
        /\ life \in [Nodes -> {"off", "joining", "member", "leaving", "gone", "refused"}]
    BY SetFacts DEF Main, IInv, NodeTypes, Grounded
  <1>2. ASSUME NEW t \in Threads, NEW r, Become(t, r), t[2] = "main" => r.pc \notin JoinPCs,
               UNCHANGED life
        PROVE  Goal
    BY <1>2, GroundedMove
  <1>3. ASSUME NEW n \in Nodes, MainStep(n) PROVE Goal
    <2>1. \E r : Become(Main(n), r) /\ r.pc \notin JoinPCs /\ UNCHANGED life
      <3>1. CASE FindSuccessor(Main(n))
        <4>1. th[Main(n)].pc \notin JoinPCs
          BY DEF Grounded
        <4> QED
          BY <1>1, <3>1, <4>1, FindSuccessorGrounded
      <3>2. CASE Join(n)
        BY <3>2, JoinGrounded, AntiGrounded DEF JoinPCs, Grounded
      <3>3. CASE Stabilize(Main(n))
        BY <1>1, <3>3, StabilizeGrounded
      <3>4. CASE FixFinger(n) \/ FixFingerDone(n)
        BY <3>4 DEF FixFinger, FixFingerDone, JoinPCs
      <3> QED
        BY <1>3, <3>1, <3>2, <3>3, <3>4 DEF MainStep
    <2> QED
      BY <1>1, <1>2, <2>1
  <1>4. ASSUME NEW n \in Nodes, CheckPredecessor(n) \/ CheckSuccessor(n) PROVE Goal
    <2>1. \E t \in Threads : t[2] # "main" /\ (\E r : Become(t, r)) /\ UNCHANGED life
      <3>1. CASE CheckPredecessor(n)
        <4>1. (\E r : Become(<<n, "cp">>, r)) /\ UNCHANGED life
          BY <3>1 DEF CheckPredecessor, CheckPredRead, CheckPredPing
        <4> QED
          BY <1>1, <4>1 DEF Roles
      <3>2. CASE Stabilize(<<n, "cs">>)
        <4>1. <<n, "cs">> \in Threads /\ <<n, "cs">>[2] # "main"
          BY <1>1 DEF Roles
        <4> QED
          BY <3>2, <4>1, StabilizeGrounded
      <3>3. CASE CheckSuccRead(n) \/ CheckSuccPing(n) \/ CheckSuccWalk(n) \/ CheckSuccGiveUp(n)
                   \/ CheckSuccTake(n)
        <4>1. <<n, "cs">> \in Threads /\ <<n, "cs">>[2] # "main"
          BY <1>1 DEF Roles
        <4>2. \E r : Become(<<n, "cs">>, r)
          <5>1. CASE CheckSuccWalk(n)
            BY <1>1, <4>1, <5>1 DEF CheckSuccWalk, Become
          <5> QED
            BY <3>3, <5>1 DEF CheckSuccRead, CheckSuccPing, CheckSuccGiveUp, CheckSuccTake
        <4>3. UNCHANGED life
          BY <3>3 DEF CheckSuccRead, CheckSuccPing, CheckSuccWalk, CheckSuccGiveUp, CheckSuccTake
        <4> QED
          BY <4>1, <4>2, <4>3
      <3> QED
        BY <1>4, <3>1, <3>2, <3>3 DEF CheckSuccessor
    <2> QED
      BY <1>2, <2>1
  <1>5. ASSUME NEW n \in Nodes, Leave(n) \/ CrashNode(n) \/ KillNode(n) PROVE Goal
    <2>1. <<n, "ctl">> \in Threads /\ <<n, "ctl">>[2] # "main"
      BY <1>1 DEF Roles
    <2>2. \E r : Become(<<n, "ctl">>, r)
      BY <1>5 DEF Leave, LeaveRead, LeaveTransfer, LeaveNotifySucc, LeaveNotifyPred, Stop,
                  CrashNode, KillNode
    <2>3. UNCHANGED life \/ life' = [life EXCEPT ![n] = "leaving"] \/ life' = [life EXCEPT ![n] = "gone"]
      BY <1>5 DEF Leave, LeaveRead, LeaveTransfer, LeaveNotifySucc, LeaveNotifyPred, Stop,
                  CrashNode, KillNode
    <2>4. \A m \in Nodes : th'[Main(m)] = th[Main(m)]
      <3>1. \A m \in Nodes : Main(m) # <<n, "ctl">>
        BY <1>1, <2>1
      <3> QED
        BY <1>1, <2>2, <3>1 DEF Become
    <2>5. \A m \in Nodes : life'[m] = life[m] \/ life'[m] \in {"leaving", "gone"}
      BY <1>1, <2>3
    <2> QED
      BY <1>1, <2>4, <2>5 DEF Grounded
  <1>6. ASSUME NEW n \in Nodes, CreateRing(n) \/ Spawn(n) \/ Put(n) PROVE Goal
    <2>1. life[n] # "off"
      BY <1>1
    <2>2. UNCHANGED <<life, th>>
      BY <1>6, <2>1 DEF CreateRing, Spawn, Put, FindHandler, PutEntry
    <2> QED
      BY <2>2 DEF Grounded
  <1>7. CASE UNCHANGED vars
    BY <1>7 DEF vars, Grounded
  <1> QED
    BY <1>3, <1>4, <1>5, <1>6, <1>7 DEF Next

\* While everyone is a member and no RPC is lost, every call is answered.
LEMMA EveryoneAnswers ==
  ASSUME MaxLosses = 0, IInv, Everyone, NEW m \in Nodes, NEW ok \in BOOLEAN, Rpc(m, ok)
  PROVE  ok = TRUE
  <1>1. m \in Registered /\ losses = 0
    BY DEF Registered, Everyone, IInv, NodeTypes
  <1> QED
    BY <1>1 DEF Rpc

\* One thread moves on.
LEMMA CalmMove ==
  ASSUME IInv, Calm, NEW t \in Threads, NEW r, NEW l, Become(t, r), lst' = [lst EXCEPT ![t] = l],
         CalmThread(t, r, l), UNCHANGED <<succ, pred, succList>>,
         finger'[First][0] = finger[First][0]
  PROVE  Calm'
  <1>1. th \in [Threads -> Record] /\ lst \in [Threads -> Seq(Nodes)]
    BY DEF IInv, NodeTypes
  <1>2. ASSUME NEW u \in Threads PROVE CalmThread(u, th'[u], lst'[u])
    <2>1. CASE u = t
      BY <1>1, <2>1 DEF Become
    <2>2. CASE u # t
      <3>1. th'[u] = th[u] /\ lst'[u] = lst[u]
        BY <1>1, <2>2 DEF Become
      <3> QED
        BY <3>1 DEF Calm
    <2> QED
      BY <2>1, <2>2
  <1> QED
    BY <1>2 DEF Calm

\* The same when it keeps its list.
LEMMA CalmStay ==
  ASSUME IInv, Calm, NEW t \in Threads, NEW r, Become(t, r), UNCHANGED lst,
         CalmThread(t, r, lst[t]), UNCHANGED <<succ, pred, succList>>,
         finger'[First][0] = finger[First][0]
  PROVE  Calm'
  <1>1. lst' = [lst EXCEPT ![t] = lst[t]]
    BY DEF IInv, NodeTypes
  <1> QED
    BY <1>1, CalmMove

\* Stabilize finds what it knows.
LEMMA StabilizeCalm ==
  ASSUME Late = {}, MaxLosses = 0, IInv, Everyone, Calm, NEW t \in Threads,
         t[2] \in {"main", "cs"}, Stabilize(t)
  PROVE  Calm' /\ UNCHANGED <<succ, pred, finger, anti, succList>>
  <1> USE Fields
  <1>1. /\ th[t] \in Record /\ ThreadOK(t, th[t]) /\ CalmThread(t, th[t], lst[t])
        /\ t[1] \in Nodes /\ Settled = Nodes
        /\ succ \in [Nodes -> Nodes] /\ pred \in [Nodes -> Refs] /\ succList \in [Nodes -> Seq(Nodes)]
        /\ finger \in [Nodes -> [Index -> Refs]]
    BY SetFacts DEF IInv, NodeTypes, ThreadsOK, Calm, Settled
  <1>2. PICK n \in Nodes : n = t[1]
    BY <1>1
  <1>3. PICK s : s = th[t].sv
    OBVIOUS
  <1>4. /\ succ[n] = StableSucc(n) /\ StableSucc(n) \in Nodes /\ StableSucc(First) = First
        /\ n # First => StableSucc(n) # n
    BY <1>1, <1>2, SuccFacts, NodeFacts DEF Calm
  <1>5. th[t].pc \in AskPCs => n # First /\ s = StableSucc(n) /\ s \in Nodes /\ pred[s] = n
                                /\ succList[s] = StableList(s) /\ t[2] = "main"
    <2>1. th[t].pc \in AskPCs => n # First /\ s = StableSucc(n)
      BY <1>1, <1>2, <1>3 DEF CalmThread
    <2>2. n # First => StablePred(StableSucc(n)) = n
      BY <1>1, PredOfSucc
    <2>3. th[t].pc \in AskPCs => t[2] = "main"
      BY <1>1 DEF CalmThread, AskPCs
    <2> QED
      BY <1>4, <2>1, <2>2, <2>3 DEF Calm
  <1>6. ~IsInInterval(n, n, s)
    BY NodeFacts DEF IsInInterval
  <1>7. th[t].pc \in {"stabAlone", "stabAsk", "stabNotify", "stabList", "stabStore"}
        \/ (StabRead(t) /\ t[2] = "main" /\ th[t].pc = "idle")
    BY <1>1 DEF CalmThread, MainCalm, Stabilize, StabRead, StabAlone, StabAsk, StabAdopt, StabNotify,
                FetchSuccessorList, StoreSuccessorList
  <1>8. CASE StabRead(t)
    <2>1. t[2] = "main"
      BY <1>1, <1>8 DEF StabRead, CalmThread
    <2>2. PICK r : Become(t, r) /\ r = IF n = First THEN Frame("stabAlone", Nil, Nil, 0)
                                       ELSE Frame("stabAsk", Nil, StableSucc(n), 0)
      BY <1>2, <1>4, <1>8 DEF StabRead, Alone
    <2>3. CalmThread(t, r, lst[t])
      BY <1>2, <2>1, <2>2 DEF CalmThread, MainCalm, AskPCs
    <2>4. UNCHANGED <<succ, pred, finger, anti, succList, lst>>
      BY <1>8 DEF StabRead
    <2> QED
      BY <2>2, <2>3, <2>4, CalmStay
  <1>9. CASE StabAlone(t)
    <2>1. n = First /\ t[2] = "main" /\ finger[First][0] = First
      BY <1>1, <1>2, <1>9 DEF StabAlone, CalmThread, Calm
    <2>2. succ' = succ /\ finger' = finger
      BY <1>1, <1>2, <1>4, <1>9, <2>1 DEF StabAlone
    <2>3. UNCHANGED <<pred, anti, succList, lst>> /\ Become(t, Idle)
      BY <1>9 DEF StabAlone
    <2>4. CalmThread(t, Idle, lst[t])
      BY <2>1 DEF CalmThread, MainCalm, AskPCs
    <2> QED
      BY <2>2, <2>3, <2>4, CalmStay
  <1>10. CASE StabAsk(t)
    <2>1. n # First /\ s = StableSucc(n) /\ s \in Nodes /\ pred[s] = n /\ t[2] = "main"
      BY <1>5, <1>10 DEF StabAsk, AskPCs
    <2>2. ~Better(pred[s], n, s)
      BY <1>6, <2>1 DEF Better
    <2>3. PICK r : r = Frame("stabNotify", Nil, s, 0)
      OBVIOUS
    <2>4. Become(t, r) /\ UNCHANGED <<succ, pred, finger, anti, succList, lst>>
      BY <1>2, <1>3, <1>10, <2>2, <2>3 DEF StabAsk
    <2>5. CalmThread(t, r, lst[t])
      BY <1>2, <2>1, <2>3 DEF CalmThread, MainCalm, AskPCs
    <2> QED
      BY <2>4, <2>5, CalmStay
  <1>11. CASE StabNotify(t)
    <2>1. n # First /\ s = StableSucc(n) /\ s \in Nodes /\ pred[s] = n /\ t[2] = "main"
      BY <1>5, <1>11 DEF StabNotify, AskPCs
    <2>2. ~NotifyAccepts(s, n)
      BY <1>1, <1>2, <1>6, <2>1, NodeFacts DEF NotifyAccepts
    <2>3. UNCHANGED pred
      BY <1>2, <1>3, <1>11, <2>2 DEF StabNotify, Notify
    <2>4. PICK r : r = [th[t] EXCEPT !.pc = "stabList"]
      OBVIOUS
    <2>5. r.pc = "stabList" /\ r.sv = s
      BY <1>1, <1>3, <2>4 DEF Record
    <2>6. Become(t, r) /\ UNCHANGED <<succ, finger, anti, succList, lst>>
      BY <1>11, <2>4 DEF StabNotify
    <2>7. CalmThread(t, r, lst[t])
      BY <1>2, <2>1, <2>5 DEF CalmThread, MainCalm, AskPCs
    <2> QED
      BY <2>3, <2>6, <2>7, CalmStay
  <1>12. CASE FetchSuccessorList(t)
    <2>1. n # First /\ s = StableSucc(n) /\ s \in Nodes /\ succList[s] = StableList(s)
          /\ t[2] = "main"
      BY <1>5, <1>12 DEF FetchSuccessorList, AskPCs
    <2>2. PICK ok \in BOOLEAN :
            /\ Rpc(s, ok)
            /\ lst' = IF ok THEN [lst EXCEPT ![t] = succList[s]] ELSE lst
            /\ Become(t, IF ok THEN Frame("stabStore", Nil, s, 0) ELSE Idle)
      BY <1>3, <1>12 DEF FetchSuccessorList
    <2>3. ok = TRUE
      BY <2>1, <2>2, EveryoneAnswers
    <2>4. PICK r : r = Frame("stabStore", Nil, s, 0)
      OBVIOUS
    <2>5. Become(t, r) /\ lst' = [lst EXCEPT ![t] = succList[s]]
      BY <2>2, <2>3, <2>4
    <2>6. UNCHANGED <<succ, pred, finger, anti, succList>>
      BY <1>12 DEF FetchSuccessorList
    <2>7. CalmThread(t, r, succList[s])
      BY <1>2, <2>1, <2>4 DEF CalmThread, MainCalm, AskPCs
    <2> QED
      BY <2>5, <2>6, <2>7, CalmMove
  <1>13. CASE StoreSuccessorList(t)
    <2>1. n # First /\ s = StableSucc(n) /\ t[2] = "main" /\ lst[t] = StableList(StableSucc(n))
      BY <1>1, <1>2, <1>5, <1>13 DEF StoreSuccessorList, AskPCs, CalmThread
    <2>2. Extended(s, lst[t]) = StableList(n)
      BY <1>1, <1>2, <2>1, ListStable
    <2>3. succList[n] = StableList(n)
      BY DEF Calm
    <2>4. succList' = succList
      BY <1>1, <1>2, <1>3, <1>13, <2>2, <2>3 DEF StoreSuccessorList
    <2>5. Become(t, Idle) /\ lst' = [lst EXCEPT ![t] = <<>>] /\ UNCHANGED <<succ, pred, finger, anti>>
      BY <1>13 DEF StoreSuccessorList
    <2>6. CalmThread(t, Idle, <<>>)
      BY <2>1 DEF CalmThread, MainCalm, AskPCs
    <2> QED
      BY <2>4, <2>5, <2>6, CalmMove
  <1>14. ~StabAdopt(t)
    BY <1>7 DEF StabAdopt, StabRead
  <1> QED
    BY <1>8, <1>9, <1>10, <1>11, <1>12, <1>13, <1>14 DEF Stabilize

\* The lookups of fix-fingers and what is made of their answers.
LEMMA MainCalmStep ==
  ASSUME Late = {}, MaxLosses = 0, IInv, Grounded, Everyone, Calm, NEW n \in Nodes, MainStep(n)
  PROVE  Calm' /\ Kept
  <1> USE Fields
  <1>1. PICK t \in Threads : t = Main(n) /\ t[1] = n /\ t[2] = "main"
    BY SetFacts DEF Main
  <1>2. /\ th[t] \in Record /\ ThreadOK(t, th[t]) /\ CalmThread(t, th[t], lst[t])
        /\ finger \in [Nodes -> [Index -> Refs]] /\ fingerIdx[n] # 0
    BY DEF IInv, NodeTypes, ThreadsOK, IndexOK, Calm
  <1>3. ASSUME NEW r, Become(t, r), r.pc \in {"idle", "fixFinger", "fixAnti", "antiPred", "antiStore"},
               UNCHANGED <<succ, pred, succList, lst>>, finger'[First][0] = finger[First][0]
        PROVE  Calm'
    <2>1. CalmThread(t, r, lst[t])
      BY <1>1, <1>3 DEF CalmThread, MainCalm, AskPCs
    <2> QED
      BY <1>3, <2>1, CalmStay
  <1>4. CASE FindSuccessor(t)
    <2>1. PICK r : Become(t, r) /\ r.pc = th[t].pc /\ th[t].pc \in LookupPCs
      BY <1>4, FindSuccessorGrounded
    <2>2. UNCHANGED <<succ, pred, finger, anti, succList, lst>>
      BY <1>4, FindSuccessorGrounded
    <2>3. r.pc \in {"fixFinger", "fixAnti"}
      BY <1>1, <1>2, <2>1 DEF CalmThread, MainCalm, LookupPCs
    <2> QED
      BY <1>3, <2>1, <2>2, <2>3 DEF Kept
  <1>5. CASE Join(n)
    <2>1. /\ \E r : Become(t, r) /\ r.pc \in {"idle", "antiPred", "antiStore"}
          /\ UNCHANGED <<life, succ, pred, finger, succList, lst>>
          /\ anti' = anti \/ (th[Main(n)].pc = "antiStore" /\ \A m \in Nodes \ {n} : anti'[m] = anti[m])
      BY <1>1, <1>5, JoinGrounded, AntiGrounded DEF Grounded
    <2> QED
      BY <1>3, <2>1 DEF Kept
  <1>6. CASE Stabilize(t)
    BY <1>1, <1>6, StabilizeCalm DEF Kept
  <1>7. CASE FixFinger(n)
    <2>1. PICK r : r = Call("fixFinger", n, fingerIdx[n])
      OBVIOUS
    <2>2. Become(t, r) /\ r.pc = "fixFinger" /\ UNCHANGED <<succ, pred, finger, anti, succList, lst>>
      BY <1>1, <1>7, <2>1 DEF FixFinger
    <2> QED
      BY <1>3, <2>2 DEF Kept
  <1>8. CASE FixFingerDone(n)
    <2>1. PICK r : r = Call("fixAnti", n, antiIdx[n])
      OBVIOUS
    <2>2. /\ Become(t, r) /\ r.pc = "fixAnti" /\ th[t].pc = "fixFinger"
          /\ UNCHANGED <<succ, pred, anti, succList, lst>>
          /\ finger' = finger \/ finger' = [finger EXCEPT ![n][th[t].ix] = th[t].sv]
      BY <1>1, <1>8, <2>1 DEF FixFingerDone, Ended
    <2>3. th[t].ix # 0
      BY <1>2, <2>2 DEF ThreadOK, UpperFinger
    <2>4. finger'[First][0] = finger[First][0] /\ \A m \in Nodes \ {n} : finger'[m] = finger[m]
      <3>1. PICK k : k = th[t].ix
        OBVIOUS
      <3>2. k # 0 /\ (finger' = finger \/ finger' = [finger EXCEPT ![n][k] = th[t].sv])
        BY <2>2, <2>3, <3>1
      <3> QED
        BY <1>2, <3>2, IDFacts, NodeFacts
    <2> QED
      BY <1>1, <1>3, <2>2, <2>4 DEF Kept
  <1> QED
    BY <1>1, <1>4, <1>5, <1>6, <1>7, <1>8 DEF MainStep

\* The detectors find everybody alive.
LEMMA DetectorsCalm ==
  ASSUME Late = {}, MaxLosses = 0, IInv, Everyone, Calm, NEW n \in Nodes,
         CheckPredecessor(n) \/ CheckSuccessor(n)
  PROVE  Calm' /\ Kept
  <1> USE Fields
  <1>1. CASE CheckPredecessor(n)
    <2>1. PICK t \in Threads : t = <<n, "cp">> /\ t[2] = "cp"
      BY SetFacts DEF Roles
    <2>2. ThreadOK(t, th[t])
      BY DEF IInv, ThreadsOK
    <2>3. UNCHANGED <<succ, pred, finger, anti, succList, lst>>
      <3>1. CASE CheckPredRead(n)
        BY <3>1 DEF CheckPredRead
      <3>2. CASE CheckPredPing(n)
        <4>1. th[t].sv \in Nodes
          BY <2>1, <2>2, <3>2 DEF CheckPredPing, ThreadOK, HasNode
        <4>2. PICK ok \in BOOLEAN : /\ Rpc(th[t].sv, ok)
                                    /\ pred' = IF ok THEN pred ELSE [pred EXCEPT ![n] = Nil]
          BY <2>1, <3>2 DEF CheckPredPing
        <4>3. ok = TRUE
          BY ZenonT(60), <4>1, <4>2, EveryoneAnswers
        <4> QED
          BY <3>2, <4>2, <4>3 DEF CheckPredPing
      <3> QED
        BY <1>1, <3>1, <3>2 DEF CheckPredecessor
    <2>4. PICK r : Become(t, r) /\ r.pc \in {"idle", "ping"}
      BY <1>1, <2>1 DEF CheckPredecessor, CheckPredRead, CheckPredPing
    <2>5. CalmThread(t, r, lst[t])
      BY <2>1, <2>4 DEF CalmThread, AskPCs
    <2> QED
      BY <2>3, <2>4, <2>5, CalmStay DEF Kept
  <1>2. CASE CheckSuccessor(n)
    <2>1. PICK t \in Threads : t = <<n, "cs">> /\ t[2] = "cs"
      BY SetFacts DEF Roles
    <2>2. ThreadOK(t, th[t]) /\ CalmThread(t, th[t], lst[t])
      BY DEF IInv, ThreadsOK, Calm
    <2>3. CASE Stabilize(t)
      BY <2>1, <2>3, StabilizeCalm DEF Kept
    <2>4. CASE CheckSuccRead(n) \/ CheckSuccPing(n)
      <3>1. PICK r, l : Become(t, r) /\ r.pc \in {"idle", "csPing"} /\ lst' = [lst EXCEPT ![t] = l]
        <4>1. CASE CheckSuccRead(n)
          <5>1. PICK r : r = Frame("csPing", Nil, succ[n], 0)
            OBVIOUS
          <5>2. Become(t, r) /\ r.pc = "csPing" /\ lst' = [lst EXCEPT ![t] = succList[n]]
            BY <2>1, <4>1, <5>1 DEF CheckSuccRead
          <5> QED
            BY <5>2
        <4>2. CASE CheckSuccPing(n)
          <5>1. th[t].sv \in Nodes
            BY <2>1, <2>2, <4>2 DEF CheckSuccPing, ThreadOK, HasNode
          <5>2. PICK ok \in BOOLEAN :
                  /\ Rpc(th[t].sv, ok)
                  /\ Become(t, IF ok THEN Idle ELSE Frame("csWalk", Nil, th[t].sv, 0))
                  /\ lst' = IF ok THEN [lst EXCEPT ![t] = <<>>] ELSE lst
            BY <2>1, <4>2 DEF CheckSuccPing
          <5>3. ok = TRUE
            BY ZenonT(60), <5>1, <5>2, EveryoneAnswers
          <5> QED
            BY <5>2, <5>3
        <4> QED
          BY <2>4, <4>1, <4>2
      <3>2. UNCHANGED <<succ, pred, finger, anti, succList>>
        BY <2>4 DEF CheckSuccRead, CheckSuccPing
      <3>3. CalmThread(t, r, l)
        BY <2>1, <3>1 DEF CalmThread, AskPCs
      <3> QED
        BY <3>1, <3>2, <3>3, CalmMove DEF Kept
    <2>5. ~(CheckSuccWalk(n) \/ CheckSuccGiveUp(n) \/ CheckSuccTake(n))
      BY <2>1, <2>2 DEF CheckSuccWalk, CheckSuccGiveUp, CheckSuccTake, CalmThread
    <2> QED
      BY <1>2, <2>1, <2>3, <2>4, <2>5 DEF CheckSuccessor
  <1> QED
    BY <1>1, <1>2

\* Every step of a ring all of whose nodes are and stay members.
LEMMA CalmStep ==
  ASSUME Late = {}, MaxLosses = 0, IInv, Grounded, Everyone, Calm, [Next]_vars, Everyone'
  PROVE  Calm' /\ Kept
  <1>1. ASSUME NEW n \in Nodes, Leave(n) PROVE FALSE
    <2>1. <<n, "ctl">> \in Threads /\ <<n, "ctl">>[2] = "ctl"
      BY SetFacts DEF Roles
    <2>2. th[<<n, "ctl">>].pc = "idle"
      BY <2>1 DEF Calm, CalmThread
    <2> QED
      BY <1>1, <2>2 DEF Leave, LeaveRead, LeaveTransfer, LeaveNotifySucc, LeaveNotifyPred, Stop
  <1>2. ASSUME NEW n \in Nodes, CrashNode(n) \/ KillNode(n) PROVE FALSE
    <2>1. life' = [life EXCEPT ![n] = "leaving"]
      BY <1>2 DEF CrashNode, KillNode
    <2>2. life'[n] = "leaving"
      BY <2>1 DEF IInv, NodeTypes
    <2> QED
      BY <2>2 DEF Everyone
  <1>3. ASSUME NEW n \in Nodes, CreateRing(n) \/ Spawn(n) PROVE FALSE
    BY <1>3 DEF CreateRing, Spawn, Everyone
  <1>4. ASSUME NEW n \in Nodes, Put(n) PROVE Calm' /\ Kept
    BY <1>4 DEF Put, FindHandler, PutEntry, Calm, Kept
  <1>5. CASE UNCHANGED vars
    BY <1>5 DEF vars, Calm, Kept
  <1> QED
    BY <1>1, <1>2, <1>3, <1>4, <1>5, MainCalmStep, DetectorsCalm DEF Next

LEMMA CalmInit == ASSUME Late = {} PROVE StableInit => Grounded /\ Everyone /\ Calm
  <1> SUFFICES ASSUME StableInit PROVE Grounded /\ Everyone /\ Calm
    OBVIOUS
  <1> USE Fields
  <1>1. Grounded /\ Everyone
    BY SetFacts DEF StableInit, Grounded, Everyone, JoinPCs
  <1>2. finger[First][0] = First
    BY IDFacts, NodeFacts DEF StableInit, Answer
  <1>3. \A t \in Threads : CalmThread(t, th[t], lst[t])
    BY DEF StableInit, CalmThread, MainCalm, AskPCs
  <1> QED
    BY <1>1, <1>2, <1>3 DEF StableInit, Calm

\* Whatever is on their way, no loop of a stable ring changes a neighbour or a
\* successor list while everybody stays and every RPC is answered: stabilization
\* has converged when it should, and only fix-fingers writes to a table.
THEOREM StabilizationQuiesces ==
  ASSUME Late = {}, MaxLosses = 0
  PROVE  StableSpec => StableIsFixpoint
  <1> DEFINE Inv == Grounded /\ (Everyone => Calm)
  <1>1. StableInit => Inv
    BY CalmInit
  <1>2. IInv /\ Inv /\ [Next]_vars => Inv' /\ (Everyone /\ Everyone' => Kept)
    <2> SUFFICES ASSUME IInv, Inv, [Next]_vars PROVE Inv' /\ (Everyone /\ Everyone' => Kept)
      OBVIOUS
    <2>1. Grounded' /\ (Everyone' => Everyone)
      BY GroundedStep DEF Everyone
    <2>2. Everyone' => Calm' /\ Kept
      BY <2>1, CalmStep
    <2> QED
      BY <2>1, <2>2
  <1>3. IInv /\ Inv /\ [Next]_vars =>
          [(\A n \in Nodes : life[n] = "member" /\ life'[n] = "member") =>
             /\ UNCHANGED <<succ, pred, succList>>
             /\ \A n \in Nodes : /\ finger'[n] # finger[n] => th[Main(n)].pc = "fixFinger"
                                 /\ anti'[n] # anti[n] => th[Main(n)].pc = "antiStore"]_vars
    BY <1>2 DEF Everyone, Kept
  <1> QED
    BY <1>1, <1>2, <1>3, StableInductive, PTL DEF StableSpec, StableIsFixpoint

-----------------------------------------------------------------------------
(* Joins, while nobody departs and every RPC is answered.                  *)

NoFaults == CrashSet = {} /\ KillSet = {} /\ MaxLosses = 0

\* s may be the successor of settled node n.
Near(n, s) == s = StableSucc(n) \/ (s \in Late /\ IsInInterval(s, n, StableSucc(n)))

\* What a thread about to run frame r knows of its successor.
SettledPCs == MainCalm \cup {"stabAdopt"}
HoldPCs == {"stabAsk", "stabAdopt", "stabNotify", "stabList", "stabStore"}

JoinThread(t, r) ==
  /\ t[2] # "main" => r.pc = "idle"
  /\ t[1] \in Settled =>
       /\ r.pc \in SettledPCs
       /\ r.pc \in HoldPCs => t[1] # First /\ Near(t[1], r.sv)
       /\ r.pc = "stabAlone" => t[1] = First

\* Settled nodes stay, and nobody has come between them but late ones.
JoinInv ==
  /\ \A n \in Settled : life[n] = "member" /\ Near(n, succ[n]) /\ finger[n][0] = succ[n]
  /\ \A t \in Threads : JoinThread(t, th[t])

\* No settled node lies between a settled node and its stable successor, and nobody
\* who comes nearer leaves that interval.
LEMMA NearFacts ==
  ASSUME NEW n \in Settled
  PROVE  /\ \A m \in Settled : ~IsInInterval(m, n, StableSucc(n))
         /\ \A s \in Nodes, x \in Nodes :
              Near(n, s) /\ IsInInterval(x, n, s) => x \in Late /\ Near(n, x)
         /\ \A s : Near(n, s) => s \in Nodes /\ (s = n => n = First) /\ (n = First => s = First)
  <1>1. n \in Nodes /\ StableSucc(n) \in Settled /\ StableSucc(n) \in Nodes /\ First \in Nodes
    BY SuccFacts, SettledFacts
  <1>2. ASSUME NEW m \in Settled PROVE ~IsInInterval(m, n, StableSucc(n))
    <2>1. CASE n = First
      BY <2>1, SuccFacts DEF IsInInterval
    <2>2. CASE n # First
      <3>1. PICK s \in Settled : s = StableSucc(n)
        BY <1>1
      <3>2. Pos(n) < Rank(s) /\ (Pos(n) < Rank(m) => Rank(s) <= Rank(m))
        BY <2>2, <3>1, SuccFacts
      <3>3. /\ Pos(m) \in 0 .. Size - 1 /\ (Pos(m) = 0 <=> m = First) /\ m \in Nodes
            /\ Pos(n) \in 0 .. Size - 1 /\ Size \in Nat /\ Rank(m) = (IF m = First THEN Size ELSE Pos(m))
            /\ Rank(s) = (IF s = First THEN Size ELSE Pos(s)) /\ s \in Nodes /\ Pos(s) \in 0 .. Size - 1
        BY <3>1, SettledFacts, PosFacts, BitsAssumption DEF Rank
      <3>4. CASE s = First
        <4>1. CASE m = First
          BY <1>1, <3>1, <3>4, <4>1, NodeFacts DEF IsInInterval
        <4>2. CASE m # First
          <5>1. IsInInterval(m, n, First) <=> Pos(n) < Pos(m) /\ n # First
            BY <1>1, <3>3, <4>2, PosFacts
          <5> QED
            BY <3>1, <3>2, <3>3, <3>4, <4>2, <5>1
        <4> QED
          BY <4>1, <4>2
      <3>5. CASE s # First
        <4>1. CASE m = First
          BY <1>1, <3>1, <3>2, <3>3, <3>5, <4>1, NodeFacts, BitsAssumption
          DEF ID, Pos, Dist, IsInInterval
        <4>2. CASE m # First
          <5>1. IsInInterval(m, n, s) /\ Pos(n) < Pos(s) => Pos(n) < Pos(m) /\ Pos(m) < Pos(s)
            BY <1>1, <3>3, <4>2, PosFacts
          <5> QED
            BY <3>1, <3>2, <3>3, <3>5, <4>2, <5>1
        <4> QED
          BY <4>1, <4>2
      <3> QED
        BY <3>4, <3>5
    <2> QED
      BY <2>1, <2>2
  <1>3. ASSUME NEW s \in Nodes, NEW x \in Nodes, Near(n, s), IsInInterval(x, n, s)
        PROVE  x \in Late /\ Near(n, x)
    <2>1. IsInInterval(x, n, StableSucc(n))
      <3>1. PICK b \in Int : b = StableSucc(n)
        BY <1>1, NodeFacts
      <3>2. n \in Int /\ s \in Int /\ x \in Int
        BY <1>1, NodeFacts
      <3>3. s = b \/ IsInInterval(s, n, b)
        BY <1>3, <3>1 DEF Near
      <3>4. IsInInterval(x, n, b)
        BY <1>3, <3>1, <3>2, <3>3 DEF IsInInterval
      <3> QED
        BY <3>1, <3>4
    <2>2. x \in Late
      BY <1>2, <2>1 DEF Settled
    <2> QED
      BY <2>1, <2>2 DEF Near
  <1>4. ASSUME NEW s, Near(n, s) PROVE s \in Nodes /\ (s = n => n = First) /\ (n = First => s = First)
    <2>1. Late \subseteq Nodes /\ Late \cap Settled = {}
      BY SettledFacts DEF Settled
    <2>2. n # First => StableSucc(n) # n
      BY SuccFacts
    <2>3. n = First => StableSucc(n) = First /\ ~IsInInterval(s, n, StableSucc(n))
      BY SuccFacts DEF IsInInterval
    <2> QED
      BY <1>1, <1>4, <2>1, <2>2, <2>3 DEF Near
  <1> QED
    BY <1>2, <1>3, <1>4

\* One thread moves on.
LEMMA JoinMove ==
  ASSUME IInv, JoinInv, NEW t \in Threads, NEW r, Become(t, r), JoinThread(t, r),
         \A n \in Settled : life'[n] = life[n] /\ Near(n, succ'[n]) /\ finger'[n][0] = succ'[n]
  PROVE  JoinInv'
  <1>1. th \in [Threads -> Record]
    BY DEF IInv, NodeTypes
  <1>2. ASSUME NEW u \in Threads PROVE JoinThread(u, th'[u])
    <2>1. (u = t /\ th'[u] = r) \/ th'[u] = th[u]
      BY <1>1 DEF Become
    <2> QED
      BY <2>1 DEF JoinInv
  <1> QED
    BY <1>2 DEF JoinInv

\* The same when the pointers stay.
LEMMA JoinStay ==
  ASSUME IInv, JoinInv, NEW t \in Threads, NEW r, Become(t, r), JoinThread(t, r),
         \A n \in Settled : life'[n] = life[n] /\ succ'[n] = succ[n] /\ finger'[n][0] = finger[n][0]
  PROVE  JoinInv'
  BY JoinMove DEF JoinInv

\* What the invariant says of one thread.
LEMMA JoinKnows ==
  ASSUME IInv, JoinInv, NEW n \in Nodes
  PROVE  /\ Main(n) \in Threads /\ Main(n)[1] = n /\ Main(n)[2] = "main"
         /\ th[Main(n)] \in Record /\ ThreadOK(Main(n), th[Main(n)])
         /\ n \in Settled => /\ th[Main(n)].pc \in SettledPCs /\ th[Main(n)].pc \notin JoinPCs
                             /\ life[n] = "member"
  <1>1. Main(n) \in Threads /\ Main(n)[1] = n /\ Main(n)[2] = "main"
    BY SetFacts DEF Main
  <1>2. SettledPCs \cap JoinPCs = {}
    BY DEF SettledPCs, MainCalm, JoinPCs
  <1>3. n \in Settled => th[Main(n)].pc \in SettledPCs /\ life[n] = "member"
    BY <1>1 DEF JoinInv, JoinThread
  <1>4. th[Main(n)] \in Record /\ ThreadOK(Main(n), th[Main(n)])
    BY <1>1 DEF IInv, NodeTypes, ThreadsOK
  <1> QED
    BY <1>1, <1>2, <1>3, <1>4

\* A joiner takes a settled node's finger 0, its successor, from a node no nearer.
LEMMA UpdateJoin ==
  ASSUME IInv, JoinInv, NEW n \in Nodes \ Settled, UpdateFingerTable(n)
  PROVE  JoinInv'
  <1>1. PICK t \in Threads : t = Main(n) /\ t[1] = n /\ t[2] = "main" /\ ThreadOK(t, th[t])
    BY JoinKnows
  <1>2. PICK p, i : p = th[t].at /\ i = th[t].ix
    OBVIOUS
  <1>3. th[t].pc = "update"
    BY <1>1 DEF UpdateFingerTable
  <1>4. p \in Nodes /\ i \in Index
    BY <1>1, <1>2, <1>3 DEF ThreadOK, HasTarget, HasIndex
  <1>5. PICK should \in BOOLEAN :
          /\ should => ShouldUpdate(p, n, i)
          /\ finger' = IF should THEN [finger EXCEPT ![p][i] = n] ELSE finger
          /\ succ' = IF should /\ i = 0 THEN [succ EXCEPT ![p] = n] ELSE succ
          /\ \E r : Become(t, r)
    <2>1. PICK ok \in BOOLEAN :
            /\ finger' = IF ok /\ ShouldUpdate(p, n, i) THEN [finger EXCEPT ![p][i] = n] ELSE finger
            /\ succ' = IF ok /\ ShouldUpdate(p, n, i) /\ i = 0 THEN [succ EXCEPT ![p] = n] ELSE succ
            /\ \E r : Become(t, r)
      BY <1>1, <1>2 DEF UpdateFingerTable
    <2>2. PICK should \in BOOLEAN : should <=> (ok /\ ShouldUpdate(p, n, i))
      OBVIOUS
    <2> QED
      BY <2>1, <2>2
  <1>6. /\ finger \in [Nodes -> [Index -> Refs]] /\ succ \in [Nodes -> Nodes] /\ 0 \in Index
        /\ UNCHANGED life
    BY IDFacts DEF IInv, NodeTypes, UpdateFingerTable
  <1>7. ASSUME NEW m \in Settled
        PROVE  life'[m] = life[m] /\ Near(m, succ'[m]) /\ finger'[m][0] = succ'[m]
    <2>1. m \in Nodes /\ Near(m, succ[m]) /\ finger[m][0] = succ[m] /\ succ[m] \in Nodes
      BY <1>6, SettledFacts DEF JoinInv
    <2>2. CASE ~should \/ p # m
      <3>1. succ'[m] = succ[m] /\ finger'[m] = finger[m]
        BY <1>4, <1>5, <1>6, <2>1, <2>2
      <3> QED
        BY <1>6, <2>1, <3>1
    <2>3. CASE should /\ p = m /\ i # 0
      <3>1. succ'[m] = succ[m] /\ finger'[m][0] = finger[m][0]
        BY <1>4, <1>5, <1>6, <2>1, <2>3
      <3> QED
        BY <1>6, <2>1, <3>1
    <2>4. CASE should /\ p = m /\ i = 0
      <3>1. IsInInterval(n, m, succ[m])
        BY <1>5, <2>1, <2>4, NodeFacts DEF ShouldUpdate
      <3>2. Near(m, n)
        BY <2>1, <3>1, NearFacts
      <3>3. succ'[m] = n /\ finger'[m][0] = n
        BY <1>4, <1>5, <1>6, <2>1, <2>4
      <3> QED
        BY <1>6, <3>2, <3>3
    <2> QED
      BY <2>2, <2>3, <2>4
  <1>8. PICK r : Become(t, r)
    BY <1>5
  <1>9. JoinThread(t, r)
    BY <1>1 DEF JoinThread
  <1> QED
    BY <1>7, <1>8, <1>9, JoinMove

\* The rest of Join writes to the joiner only.
LEMMA JoinerJoin ==
  ASSUME IInv, JoinInv, NEW n \in Nodes \ Settled, Join(n)
  PROVE  JoinInv'
  <1>1. PICK t \in Threads : t = Main(n) /\ t[1] = n /\ t[2] = "main"
    BY JoinKnows
  <1>2. CASE UpdateFingerTable(n)
    BY <1>2, UpdateJoin
  <1>3. CASE ~UpdateFingerTable(n)
    <2>1. \E r : Become(t, r)
      BY <1>1, <1>3 DEF Join, JoinFound, JoinFailed, InitFingerFound, InitFingerFailed,
          InitFingerNext, InitFingerCopy, AntiFound, AntiFailed, AntiAsk, AntiStore,
          OthersFound, OthersFailed, MigrateKeys, PullKeys
    <2>2. life' = life \/ \E v : life' = [life EXCEPT ![n] = v]
      BY <1>3 DEF Join, JoinFound, JoinFailed, InitFingerFound, InitFingerFailed,
          InitFingerNext, InitFingerCopy, AntiFound, AntiFailed, AntiAsk, AntiStore,
          OthersFound, OthersFailed, MigrateKeys, PullKeys
    <2>3. succ' = succ \/ \E v : succ' = [succ EXCEPT ![n] = v]
      BY <1>3 DEF Join, JoinFound, JoinFailed, InitFingerFound, InitFingerFailed,
          InitFingerNext, InitFingerCopy, AntiFound, AntiFailed, AntiAsk, AntiStore,
          OthersFound, OthersFailed, MigrateKeys, PullKeys
    <2>4. finger' = finger \/ \E v : finger' = [finger EXCEPT ![n] = v]
      BY <1>3 DEF Join, JoinFound, JoinFailed, InitFingerFound, InitFingerFailed,
          InitFingerNext, InitFingerCopy, AntiFound, AntiFailed, AntiAsk, AntiStore,
          OthersFound, OthersFailed, MigrateKeys, PullKeys
    <2>5. \A m \in Settled : life'[m] = life[m] /\ succ'[m] = succ[m] /\ finger'[m] = finger[m]
      BY <2>2, <2>3, <2>4, SettledFacts DEF IInv, NodeTypes
    <2>6. PICK r : Become(t, r)
      BY <2>1
    <2>7. JoinThread(t, r)
      BY <1>1 DEF JoinThread
    <2> QED
      BY <2>5, <2>6, <2>7, JoinStay
  <1> QED
    BY <1>2, <1>3

\* Stabilize: a settled node adopts a node that has come in between.
LEMMA StabilizeJoin ==
  ASSUME IInv, JoinInv, NEW n \in Nodes, Stabilize(Main(n))
  PROVE  JoinInv'
  <1> USE Fields
  <1>1. PICK t \in Threads : /\ t = Main(n) /\ t[1] = n /\ t[2] = "main"
                             /\ th[t] \in Record /\ ThreadOK(t, th[t])
    BY JoinKnows
  <1>2. JoinThread(t, th[t]) /\ UNCHANGED life
    BY <1>1, StabilizeGrounded DEF JoinInv
  <1>3. /\ succ \in [Nodes -> Nodes] /\ finger \in [Nodes -> [Index -> Refs]] /\ 0 \in Index
        /\ Settled \subseteq Nodes /\ \A m \in Settled : Near(m, succ[m]) /\ finger[m][0] = succ[m]
    BY IDFacts, SettledFacts DEF IInv, NodeTypes, JoinInv
  <1>4. PICK s : s = th[t].sv
    OBVIOUS
  <1>5. n \in Settled =>
          /\ th[t].pc \in HoldPCs => n # First /\ Near(n, s) /\ s \in Nodes
          /\ th[t].pc = "stabAlone" => n = First
          /\ (succ[n] = n => n = First) /\ (n = First => succ[n] = First)
    BY <1>1, <1>2, <1>3, <1>4, NearFacts DEF JoinThread
  <1>6. ASSUME NEW r, Become(t, r),
               r.pc \in {"idle", "stabAlone"} \cup HoldPCs,
               n \in Settled /\ r.pc \in HoldPCs => n # First /\ Near(n, r.sv),
               n \in Settled /\ r.pc = "stabAlone" => n = First
        PROVE  JoinThread(t, r)
    BY <1>1, <1>6 DEF JoinThread, SettledPCs, MainCalm, HoldPCs
  <1>7. ASSUME NEW r, Become(t, r), JoinThread(t, r), UNCHANGED <<succ, finger>>
        PROVE  JoinInv'
    BY <1>2, <1>7, JoinStay
  <1>8. ASSUME NEW r, Become(t, r), JoinThread(t, r), NEW w, n \in Settled => Near(n, w),
               succ' = [succ EXCEPT ![n] = w], finger' = [finger EXCEPT ![n][0] = w]
        PROVE  JoinInv'
    <2>1. \A m \in Settled : Near(m, succ'[m]) /\ finger'[m][0] = succ'[m]
      BY <1>3, <1>8
    <2> QED
      BY <1>2, <1>8, <2>1, JoinMove
  <1>9. CASE StabRead(t)
    <2>1. PICK r : /\ Become(t, r)
                   /\ r = IF succ[n] = n THEN Frame("stabAlone", Nil, Nil, 0)
                          ELSE Frame("stabAsk", Nil, succ[n], 0)
      BY <1>1, <1>9 DEF StabRead, Alone
    <2>2. n \in Settled => Near(n, succ[n])
      BY <1>3
    <2>3. JoinThread(t, r)
      BY <1>5, <1>6, <2>1, <2>2 DEF HoldPCs
    <2> QED
      BY <1>7, <1>9, <2>1, <2>3 DEF StabRead
  <1>10. CASE StabAlone(t)
    <2>1. JoinThread(t, Idle) /\ Become(t, Idle)
      BY <1>6, <1>10 DEF StabAlone, HoldPCs
    <2>2. n \in Settled => n = First
      BY <1>5, <1>10 DEF StabAlone
    <2>3. n \in Settled => Near(n, n)
      BY <2>2, SuccFacts DEF Near
    <2> QED
      BY <1>1, <1>8, <1>10, <2>1, <2>3 DEF StabAlone
  <1>11. CASE StabAsk(t)
    <2>1. PICK r : /\ Become(t, r)
                   /\ \/ r = Frame("stabAdopt", Nil, pred[s], 0) /\ Better(pred[s], n, s)
                      \/ r = Frame("stabNotify", Nil, s, 0)
      BY <1>1, <1>4, <1>11 DEF StabAsk
    <2>2. th[t].pc \in HoldPCs /\ UNCHANGED <<succ, finger>> /\ s \in Nodes
      BY <1>1, <1>4, <1>11 DEF StabAsk, HoldPCs, ThreadOK, HasNode
    <2>3. pred[s] \in Refs
      BY <2>2 DEF IInv, NodeTypes
    <2>4. n \in Settled => n # First /\ Near(n, s) /\ (Better(pred[s], n, s) => Near(n, pred[s]))
      BY <1>5, <2>2, <2>3, NearFacts, NodeFacts DEF Better
    <2>5. JoinThread(t, r)
      BY <1>6, <2>1, <2>4 DEF HoldPCs
    <2> QED
      BY <1>7, <2>1, <2>2, <2>5
  <1>12. CASE StabAdopt(t)
    <2>1. PICK r : r = Frame("stabNotify", Nil, s, 0)
      OBVIOUS
    <2>2. Become(t, r) /\ th[t].pc \in HoldPCs
      BY <1>4, <1>12, <2>1 DEF StabAdopt, HoldPCs
    <2>3. JoinThread(t, r)
      BY <1>5, <1>6, <2>1, <2>2 DEF HoldPCs
    <2>4. succ' = [succ EXCEPT ![n] = s] /\ finger' = [finger EXCEPT ![n][0] = s]
      BY <1>1, <1>4, <1>12 DEF StabAdopt
    <2> QED
      BY <1>5, <1>8, <2>2, <2>3, <2>4
  <1>13. CASE StabNotify(t)
    <2>1. PICK r : r = [th[t] EXCEPT !.pc = "stabList"]
      OBVIOUS
    <2>2. r.pc = "stabList" /\ r.sv = s /\ Become(t, r) /\ UNCHANGED <<succ, finger>>
          /\ th[t].pc \in HoldPCs
      BY <1>1, <1>4, <1>13, <2>1 DEF StabNotify, Record, HoldPCs
    <2>3. JoinThread(t, r)
      BY <1>5, <1>6, <2>2 DEF HoldPCs
    <2> QED
      BY <1>7, <2>2, <2>3
  <1>14. CASE FetchSuccessorList(t)
    <2>1. PICK r \in {Frame("stabStore", Nil, s, 0), Idle} : Become(t, r)
      BY <1>4, <1>14 DEF FetchSuccessorList
    <2>2. UNCHANGED <<succ, finger>> /\ th[t].pc \in HoldPCs
      BY <1>14 DEF FetchSuccessorList, HoldPCs
    <2>3. JoinThread(t, r)
      BY <1>5, <1>6, <2>1, <2>2 DEF HoldPCs
    <2> QED
      BY <1>7, <2>1, <2>2, <2>3
  <1>15. CASE StoreSuccessorList(t)
    <2>1. Become(t, Idle) /\ UNCHANGED <<succ, finger>>
      BY <1>15 DEF StoreSuccessorList
    <2>2. JoinThread(t, Idle)
      BY <1>6, <2>1 DEF HoldPCs
    <2> QED
      BY <1>7, <2>1, <2>2
  <1> QED
    BY <1>1, <1>9, <1>10, <1>11, <1>12, <1>13, <1>14, <1>15 DEF Stabilize

\* The main thread.
LEMMA MainJoin ==
  ASSUME IInv, JoinInv, NEW n \in Nodes, MainStep(n)
  PROVE  JoinInv'
  <1> USE Fields
  <1>1. PICK t \in Threads : /\ t = Main(n) /\ t[1] = n /\ t[2] = "main"
                             /\ th[t] \in Record /\ ThreadOK(t, th[t])
                             /\ n \in Settled => /\ th[t].pc \in SettledPCs /\ th[t].pc \notin JoinPCs
                                                 /\ life[n] = "member"
    BY JoinKnows
  <1>2. ASSUME NEW r, Become(t, r), n \in Settled => r.pc \in SettledPCs \ HoldPCs,
               r.pc # "stabAlone",
               \A m \in Settled : life'[m] = life[m] /\ succ'[m] = succ[m] /\ finger'[m][0] = finger[m][0]
        PROVE  JoinInv'
    <2>1. JoinThread(t, r)
      BY <1>1, <1>2 DEF JoinThread
    <2> QED
      BY <1>2, <2>1, JoinStay
  <1>3. CASE FindSuccessor(t)
    <2>1. PICK r : Become(t, r) /\ r.pc = th[t].pc /\ th[t].pc \in LookupPCs
      BY <1>3, FindSuccessorGrounded
    <2>2. UNCHANGED <<life, succ, finger>>
      BY <1>3, FindSuccessorGrounded
    <2>3. LookupPCs \cap HoldPCs = {} /\ "stabAlone" \notin LookupPCs
      BY DEF LookupPCs, HoldPCs
    <2> QED
      BY <1>1, <1>2, <2>1, <2>2, <2>3
  <1>4. CASE Join(n)
    <2>1. CASE n \notin Settled
      BY <1>4, <2>1, JoinerJoin
    <2>2. CASE n \in Settled
      <3>1. /\ \E r : Become(t, r) /\ r.pc \in {"idle", "antiPred", "antiStore"}
            /\ UNCHANGED <<life, succ, finger>>
        BY <1>1, <1>4, <2>2, JoinGrounded, AntiGrounded
      <3>2. PICK r : Become(t, r) /\ r.pc \in {"idle", "antiPred", "antiStore"}
        BY <3>1
      <3>3. r.pc \in SettledPCs \ HoldPCs /\ r.pc # "stabAlone"
        BY <3>2 DEF SettledPCs, MainCalm, HoldPCs
      <3> QED
        BY <1>2, <3>1, <3>2, <3>3
    <2> QED
      BY <2>1, <2>2
  <1>5. CASE Stabilize(t)
    BY <1>1, <1>5, StabilizeJoin
  <1>6. CASE FixFinger(n)
    <2>1. PICK r : r = Call("fixFinger", n, fingerIdx[n])
      OBVIOUS
    <2>2. Become(t, r) /\ r.pc = "fixFinger" /\ UNCHANGED <<life, succ, finger>>
      BY <1>1, <1>6, <2>1 DEF FixFinger
    <2>3. r.pc \in SettledPCs \ HoldPCs /\ r.pc # "stabAlone"
      BY <2>2 DEF SettledPCs, MainCalm, HoldPCs
    <2> QED
      BY <1>2, <2>2, <2>3
  <1>7. CASE FixFingerDone(n)
    <2>1. PICK r : r = Call("fixAnti", n, antiIdx[n])
      OBVIOUS
    <2>2. PICK k : k = th[t].ix
      OBVIOUS
    <2>3. /\ Become(t, r) /\ r.pc = "fixAnti" /\ th[t].pc = "fixFinger"
          /\ UNCHANGED <<life, succ>>
          /\ finger' = finger \/ finger' = [finger EXCEPT ![n][k] = th[t].sv]
      BY <1>1, <1>7, <2>1, <2>2 DEF FixFingerDone, Ended
    <2>4. k # 0
      BY <1>1, <2>2, <2>3 DEF ThreadOK, UpperFinger
    <2>5. \A m \in Settled : finger'[m][0] = finger[m][0]
      BY SMTT(30), <2>3, <2>4, IDFacts, SettledFacts DEF IInv, NodeTypes
    <2>6. r.pc \in SettledPCs \ HoldPCs /\ r.pc # "stabAlone"
      BY <2>3 DEF SettledPCs, MainCalm, HoldPCs
    <2> QED
      BY <1>2, <2>3, <2>5, <2>6
  <1> QED
    BY <1>1, <1>3, <1>4, <1>5, <1>6, <1>7 DEF MainStep

\* Without faults the detectors have nobody to ping, and nobody departs.
LEMMA NobodyElse ==
  ASSUME NoFaults, IInv, JoinInv, NEW n \in Nodes
  PROVE  /\ ~CheckPredecessor(n) /\ ~CheckSuccessor(n) /\ ~Leave(n)
         /\ ~CrashNode(n) /\ ~KillNode(n) /\ ~CreateRing(n)
  <1>1. /\ \A m : ~MayFail(m) /\ losses = 0
    BY DEF NoFaults, MayFail, IInv, NodeTypes
  <1>2. \A role \in {"cp", "cs", "ctl"} : th[<<n, role>>].pc = "idle"
    <2>1. \A role \in {"cp", "cs", "ctl"} : <<n, role>> \in Threads /\ <<n, role>>[2] # "main"
      BY SetFacts DEF Roles
    <2> QED
      BY <2>1 DEF JoinInv, JoinThread
  <1>3. ~CheckPredecessor(n)
    BY <1>1, <1>2 DEF CheckPredecessor, CheckPredRead, CheckPredPing
  <1>4. ~CheckSuccessor(n)
    BY <1>1, <1>2 DEF CheckSuccessor, CheckSuccRead, CheckSuccPing, CheckSuccWalk, CheckSuccGiveUp,
                      CheckSuccTake, Stabilize, StabRead, StabAlone, StabAsk, StabAdopt, StabNotify,
                      FetchSuccessorList, StoreSuccessorList
  <1>5. ~Leave(n)
    BY <1>2 DEF Leave, LeaveRead, LeaveTransfer, LeaveNotifySucc, LeaveNotifyPred, Stop
  <1>6. ~CrashNode(n) /\ ~KillNode(n)
    BY DEF NoFaults, CrashNode, KillNode
  <1>7. First \in Members
    BY SettledFacts DEF JoinInv, Members
  <1>8. ~CreateRing(n)
    BY <1>7 DEF CreateRing
  <1> QED
    BY <1>3, <1>4, <1>5, <1>6, <1>8

LEMMA SpawnJoin ==
  ASSUME IInv, JoinInv, NEW n \in Nodes, Spawn(n)
  PROVE  JoinInv'
  <1>1. PICK t \in Threads : t = Main(n) /\ t[1] = n /\ t[2] = "main"
    BY JoinKnows
  <1>2. n \notin Settled
    BY DEF Spawn, JoinInv
  <1>3. PICK r : Become(t, r)
    BY <1>1 DEF Spawn
  <1>4. JoinThread(t, r)
    BY <1>1, <1>2 DEF JoinThread
  <1>5. \A m \in Settled : life'[m] = life[m] /\ succ'[m] = succ[m] /\ finger'[m] = finger[m]
    BY <1>2 DEF Spawn, IInv, NodeTypes
  <1> QED
    BY <1>3, <1>4, <1>5, JoinStay

LEMMA JoinInvStep ==
  ASSUME NoFaults
  PROVE  IInv /\ JoinInv /\ [Next]_vars => JoinInv'
  <1> SUFFICES ASSUME IInv, JoinInv, [Next]_vars PROVE JoinInv'
    OBVIOUS
  <1>1. ASSUME NEW n \in Nodes, Put(n) PROVE JoinInv'
    BY <1>1 DEF Put, FindHandler, PutEntry, JoinInv
  <1>2. CASE UNCHANGED vars
    BY <1>2 DEF vars, JoinInv
  <1> QED
    BY <1>1, <1>2, NobodyElse, MainJoin, SpawnJoin DEF Next

LEMMA JoinInvInit == StableInit => JoinInv
  <1> SUFFICES ASSUME StableInit PROVE JoinInv
    OBVIOUS
  <1>1. \A n \in Settled : n \in Nodes /\ n \notin Late
    BY DEF Settled
  <1>2. \A n \in Settled : life[n] = "member" /\ succ[n] = StableSucc(n)
                           /\ finger[n][0] = Answer(n, fingerStart(n, 0))
    BY <1>1, IDFacts DEF StableInit
  <1>3. ASSUME NEW n \in Settled PROVE Answer(n, fingerStart(n, 0)) = StableSucc(n)
    <2>1. n \in 0 .. Size - 1 /\ First \in 0 .. Size - 1 /\ Size \in Nat \ {0}
      BY SettledFacts, BitsAssumption DEF ID
    <2>2. (n + 1) % Size = IF n + 1 = Size THEN 0 ELSE n + 1
      BY <2>1
    <2>3. ~IsInInterval(First, n, (n + 1) % Size)
      BY <2>1, <2>2 DEF IsInInterval
    <2>4. fingerStart(n, 0) = (n + 1) % Size
      BY <2>1, NextID DEF ID
    <2> QED
      BY <2>3, <2>4 DEF Answer, StableSucc
  <1>4. \A t \in Threads : JoinThread(t, th[t])
    BY Fields DEF StableInit, JoinThread, SettledPCs, MainCalm, HoldPCs
  <1> QED
    BY <1>2, <1>3, <1>4 DEF JoinInv, Near

\* Whoever joins a stable ring, nobody but joiners comes between a node and its
\* successor, as long as nobody departs and every RPC is answered.
THEOREM JoinsKeepSuccessors ==
  ASSUME NoFaults
  PROVE  StableSpec => []SuccsKept
  <1>1. JoinInv => SuccsKept
    BY DEF JoinInv, Near, SuccsKept
  <1> QED
    BY <1>1, JoinInvInit, JoinInvStep, StableInductive, PTL DEF StableSpec

-----------------------------------------------------------------------------
(* One join.                                                               *)

OneJoin(x) == Late = {x} /\ NoFaults

\* s lies ahead of x on the chain that ends at First.
Ahead(x, s) == s \in Nodes /\ Pos(x) < Rank(s)

\* The lookup for the successor of x, and what it looks for.
SeeksSuccessor(r) == r.pc = "joinSucc" \/ (r.pc = "initFinger" /\ r.ix = 0)
Sought(x, r) == IF r.pc = "joinSucc" THEN x ELSE fingerStart(x, 0)

AheadThread(x, r) ==
  /\ r.pc \in HoldPCs => Ahead(x, r.sv)
  /\ SeeksSuccessor(r) =>
       /\ r.st = "found" => Ahead(x, r.sv)
       /\ r.st = "route" => /\ r.at \in Settled /\ r.sv = StableSucc(r.at)
                            /\ ~IsInIntervalRightClosed(Sought(x, r), r.at, r.sv)

AheadInv(x) ==
  /\ x \in Joined => Ahead(x, succ[x])
  /\ AheadThread(x, th[Main(x)])

LEMMA OneJoinFacts ==
  ASSUME NEW x, OneJoin(x)
  PROVE  /\ x \in Nodes \ {First} /\ x \notin Settled /\ Nodes = Settled \cup {x}
         /\ OneDeparture(x) /\ Pos(x) \in 1 .. Size - 1 /\ x \in ID
  <1>1. x \in Nodes \ {First} /\ x \notin Settled /\ Nodes = Settled \cup {x}
    BY StableAssumption DEF OneJoin, Settled
  <1>2. OneDeparture(x)
    BY <1>1 DEF OneJoin, NoFaults, OneDeparture
  <1> QED
    BY <1>1, <1>2, PosFacts, NodeFacts, BitsAssumption

\* What positions say of an identifier that need not be a node.
LEMMA PosOfID ==
  ASSUME NEW a \in Nodes, NEW b \in Nodes, NEW id \in ID, Pos(a) < Pos(b), IsInInterval(id, a, b)
  PROVE  Pos(a) < Pos(id) /\ Pos(id) < Pos(b)
  BY NodeFacts, BitsAssumption DEF ID, Pos, Dist, IsInInterval

LEMMA PosOfNext ==
  ASSUME NEW x \in Nodes
  PROVE  /\ fingerStart(x, 0) \in ID
         /\ Pos(fingerStart(x, 0)) = Pos(x) + 1 \/ fingerStart(x, 0) = First
  <1>1. x \in 0 .. Size - 1 /\ First \in 0 .. Size - 1 /\ Size \in Nat \ {0}
    BY NodeFacts, BitsAssumption DEF ID
  <1>2. (x + 1) % Size = IF x + 1 = Size THEN 0 ELSE x + 1
    BY <1>1
  <1>3. fingerStart(x, 0) = (x + 1) % Size /\ fingerStart(x, 0) \in ID
    BY <1>1, NextID DEF ID
  <1> QED
    BY <1>1, <1>2, <1>3 DEF Pos, Dist

\* Between the stable pointers a lookup for x, or for what follows it, ends ahead of x.
LEMMA FoundAhead ==
  ASSUME NEW x, OneJoin(x), NEW a \in Settled, NEW id \in {x, fingerStart(x, 0)},
         IsInIntervalRightClosed(id, a, StableSucc(a)) \/ a = id \/ a = First
  PROVE  Ahead(x, StableSucc(a))
  <1>1. PICK s \in Settled : s = StableSucc(a)
    BY SuccFacts
  <1>2. /\ x \in Nodes /\ x # First /\ x \notin Settled /\ Pos(x) \in 1 .. Size - 1 /\ x \in ID
        /\ Size \in Nat /\ a \in Nodes /\ s \in Nodes
    BY OneJoinFacts, SettledFacts, BitsAssumption
  <1>3. fingerStart(x, 0) \in ID /\ (Pos(fingerStart(x, 0)) = Pos(x) + 1 \/ fingerStart(x, 0) = First)
    BY <1>2, PosOfNext
  <1>4. Rank(s) = IF s = First THEN Size ELSE Pos(s)
    BY DEF Rank
  <1>5. Pos(s) \in 0 .. Size - 1 /\ Pos(a) \in 0 .. Size - 1 /\ (Pos(a) = 0 <=> a = First)
    BY <1>2, PosFacts
  <1>6. Pos(x) < Rank(s)
    <2>1. CASE s = First
      BY <1>2, <1>4, <2>1
    <2>2. CASE s # First
      <3>1. a # First /\ Pos(a) < Pos(s)
        BY <1>1, <1>4, <2>2, SuccFacts
      <3>2. CASE id = x
        <4>1. IsInInterval(x, a, s)
          BY <1>1, <1>2, <3>1, <3>2 DEF IsInIntervalRightClosed
        <4> QED
          BY <1>2, <1>4, <2>2, <3>1, <4>1, PosOfID
      <3>3. CASE id = fingerStart(x, 0)
        <4>1. CASE id = s \/ id = a
          <5>1. Pos(id) = Pos(x) + 1
            BY <1>3, <2>2, <3>1, <3>3, <4>1
          <5> QED
            BY <1>2, <1>4, <1>5, <2>2, <3>1, <4>1, <5>1
        <4>2. CASE IsInInterval(id, a, s)
          <5>1. Pos(a) < Pos(id) /\ Pos(id) < Pos(s)
            BY <1>2, <1>3, <3>1, <3>3, <4>2, PosOfID
          <5>2. Pos(First) = 0
            BY PosFacts, NodeFacts
          <5> QED
            BY <1>2, <1>3, <1>4, <1>5, <2>2, <3>3, <5>1, <5>2
        <4> QED
          BY <1>1, <3>1, <3>3, <4>1, <4>2 DEF IsInIntervalRightClosed
      <3> QED
        BY <3>2, <3>3
    <2> QED
      BY <2>1, <2>2
  <1> QED
    BY <1>1, <1>2, <1>6 DEF Ahead

\* Who lies between x and a node ahead of it lies ahead of it as well.
LEMMA BetweenAhead ==
  ASSUME NEW x \in Nodes \ {First}, NEW s \in Nodes, Ahead(x, s), NEW y \in Nodes, IsInInterval(y, x, s)
  PROVE  Ahead(x, y)
  <1>1. /\ Pos(y) \in 0 .. Size - 1 /\ (Pos(y) = 0 <=> y = First) /\ Pos(x) \in 0 .. Size - 1
        /\ Size \in Nat /\ First \in Nodes
    BY PosFacts, NodeFacts, BitsAssumption
  <1>2. CASE y = First
    BY <1>1, <1>2 DEF Ahead, Rank
  <1>3. CASE y # First /\ s = First
    <2>1. Pos(x) < Pos(y)
      BY <1>1, <1>3, PosFacts
    <2> QED
      BY <1>3, <2>1 DEF Ahead, Rank
  <1>4. CASE y # First /\ s # First
    <2>1. Pos(x) < Pos(s)
      BY <1>4 DEF Ahead, Rank
    <2>2. Pos(x) < Pos(y)
      BY <1>4, <2>1, PosFacts
    <2> QED
      BY <1>4, <2>2 DEF Ahead, Rank
  <1> QED
    BY <1>2, <1>3, <1>4

\* A finger in the interval keeps a lookup from ending at its node.
LEMMA ClosestForward ==
  ASSUME NodeTypes, NEW n \in Nodes, NEW id, finger[n][0] # Nil, IsInInterval(finger[n][0], n, id)
  PROVE  ClosestPrecedingNode(n, id) # n
  <1> DEFINE Fwd == {i \in Index : finger[n][i] # Nil /\ IsInInterval(finger[n][i], n, id)}
             Bwd == {i \in Index : /\ pred[n] # Nil
                                   /\ IsInInterval(id, pred[n], n)
                                   /\ anti[n][i] # Nil
                                   /\ IsInInterval(anti[n][i], n, id)}
             f == finger[n][Max(Fwd)]
             a == anti[n][Max(Bwd)]
  <1>1. 0 \in Fwd
    BY IDFacts
  <1>2. Max(Fwd) \in Fwd
    BY <1>1, MaxInIndex
  <1>3. Bwd # {} => Max(Bwd) \in Bwd
    BY MaxInIndex
  <1>4. IsInInterval(f, n, id)
    BY <1>2
  <1>5. Bwd # {} => IsInInterval(a, n, id)
    BY <1>3
  <1>6. ClosestPrecedingNode(n, id) =
          IF Fwd = {} THEN IF Bwd = {} THEN n ELSE a
          ELSE IF Bwd # {} /\ IsInInterval(f, n, a) THEN a ELSE f
    BY DEF ClosestPrecedingNode
  <1>7. ~IsInInterval(n, n, id)
    BY NodeFacts DEF IsInInterval
  <1> HIDE DEF Fwd, Bwd, f, a
  <1> QED
    BY <1>1, <1>4, <1>5, <1>6, <1>7

\* Before x is announced every pointer is a stable one.
LEMMA BeforeAnnounced ==
  ASSUME NEW x, OneJoin(x), IInv, KnownInv, JoinInv, x \notin Announced
  PROVE  /\ Announced \subseteq Settled
         /\ \A a \in Settled : succ[a] = StableSucc(a) /\ finger[a][0] = StableSucc(a)
  <1>1. Announced \subseteq Settled
    BY OneJoinFacts DEF Announced, Joined
  <1>2. ASSUME NEW a \in Settled PROVE succ[a] = StableSucc(a) /\ finger[a][0] = StableSucc(a)
    <2>1. a \in Nodes /\ Near(a, succ[a]) /\ finger[a][0] = succ[a] /\ life[a] = "member"
      BY SettledFacts DEF JoinInv
    <2>2. th[Main(a)].pc # "joinSucc"
      BY <2>1, JoinKnows DEF JoinPCs
    <2>3. succ[a] \in Announced
      BY <2>1, <2>2 DEF KnownInv, SuccessorsIn, Joined
    <2> QED
      BY <1>1, <2>1, <2>3 DEF Near, Settled
  <1> QED
    BY <1>1, <1>2

\* The only joiner's own thread moves on.
LEMMA AheadMove ==
  ASSUME IInv, NEW x \in Nodes, AheadInv(x), NEW r, Become(Main(x), r), AheadThread(x, r),
         x \in Joined' => Ahead(x, succ'[x])
  PROVE  AheadInv(x)'
  <1>1. th'[Main(x)] = r
    BY SetFacts DEF IInv, NodeTypes, Become
  <1>2. AheadThread(x, th'[Main(x)])
    BY <1>1
  <1>3. AheadThread(x, th[Main(x)])'
    BY <1>2 DEF AheadThread, Ahead, SeeksSuccessor, Sought
  <1>4. (x \in Joined => Ahead(x, succ[x]))'
    OBVIOUS
  <1> QED
    BY <1>3, <1>4 DEF AheadInv

\* A node already on the chain goes on to a step that holds no successor.
LEMMA AheadStay ==
  ASSUME IInv, NEW x \in Joined, AheadInv(x), NEW r, Become(Main(x), r),
         r.pc \notin HoldPCs, r.st \in {"run", "read", "failed"}, succ'[x] = succ[x]
  PROVE  AheadInv(x)'
  <1>1. x \in Nodes /\ Ahead(x, succ'[x])
    BY DEF Joined, AheadInv
  <1>2. AheadThread(x, r)
    BY DEF AheadThread
  <1> QED
    BY <1>1, <1>2, AheadMove

\* What is known of the joiner's thread.
LEMMA JoinerKnows ==
  ASSUME NEW x, OneJoin(x), IInv, KnownInv, LeaverInv(x)
  PROVE  /\ x \in Nodes /\ Main(x) \in Threads /\ Main(x)[1] = x /\ Main(x)[2] = "main"
         /\ th[Main(x)] \in Record /\ ThreadOK(Main(x), th[Main(x)])
         /\ th[Main(x)].pc \in JoinPCs => life[x] = "joining"
         /\ th[Main(x)].pc # "stabAlone"
         /\ th[Main(x)].pc = "update" => th[Main(x)].at # x
         /\ th[Main(x)].pc \notin {"idle", "joinSucc"} => x \in Joined
         /\ SeeksSuccessor(th[Main(x)]) => x \notin Announced
         /\ th[Main(x)].st \in {"read", "route"} => th[Main(x)].at \in Announced
  <1>1. x \in Nodes
    BY OneJoinFacts
  <1>2. PICK t \in Threads : t = Main(x) /\ t[1] = x /\ t[2] = "main"
    BY <1>1, SetFacts DEF Main
  <1>3. /\ th[t] \in Record /\ ThreadOK(t, th[t])
        /\ th[t].st \in {"read", "route"} => th[t].at \in Announced
        /\ th[t].pc \notin {"idle"} \cup EarlyPCs => x \in Announced
        /\ th[t].pc \in EarlyPCs \ {"joinSucc"} => x \in Joined
    BY <1>2, ThreadKnows
  <1>4. LeaverThread(x, t, th[t])
    BY <1>2 DEF LeaverInv, OneLeaver
  <1>5. th[t].pc \notin {"idle", "joinSucc"} => x \in Joined
    BY <1>3 DEF Announced
  <1>6. th[t].pc \in {"joinSucc", "initFinger"} => life[x] = "joining" /\ x \notin Announced
    BY <1>2, <1>4 DEF LeaverThread, JoinPCs, Announced, LatePCs
  <1> QED
    BY <1>1, <1>2, <1>3, <1>4, <1>5, <1>6 DEF LeaverThread, SeeksSuccessor

LEMMA FindSuccessorAhead ==
  ASSUME NEW x, OneJoin(x), IInv, KnownInv, JoinInv, LeaverInv(x), AheadInv(x),
         FindSuccessor(Main(x))
  PROVE  AheadInv(x)'
  <1>1. PICK t \in Threads : /\ t = Main(x) /\ t[1] = x /\ th[t] \in Record /\ ThreadOK(t, th[t])
                             /\ SeeksSuccessor(th[t]) => x \notin Announced
                             /\ th[t].st \in {"read", "route"} => th[t].at \in Announced
    BY JoinerKnows
  <1>2. x \in Nodes /\ UNCHANGED <<life, succ>> /\ th[t].pc \in LookupPCs
    BY <1>1, OneJoinFacts, FindSuccessorGrounded
  <1>3. PICK a, id, pc, ix, sv :
          a = th[t].at /\ id = LookupID(t) /\ pc = th[t].pc /\ ix = th[t].ix /\ sv = th[t].sv
    OBVIOUS
  <1>4. LookupPCs \cap HoldPCs = {}
    BY DEF LookupPCs, HoldPCs
  <1>5. ASSUME SeeksSuccessor(th[t])
        PROVE  /\ id = Sought(x, th[t]) /\ id \in {x, fingerStart(x, 0)}
               /\ Announced \subseteq Settled
               /\ \A n \in Settled : succ[n] = StableSucc(n) /\ finger[n][0] = StableSucc(n)
    BY <1>1, <1>3, <1>5, BeforeAnnounced DEF SeeksSuccessor, Sought, LookupID
  <1>6. ASSUME NEW r \in Record, Become(t, r), r.pc = pc, r.ix = ix,
               SeeksSuccessor(th[t]) =>
                 /\ r.st = "found" => Ahead(x, r.sv)
                 /\ r.st = "route" => /\ r.at \in Settled /\ r.sv = StableSucc(r.at)
                                      /\ ~IsInIntervalRightClosed(id, r.at, r.sv)
        PROVE  AheadInv(x)'
    <2>1. Sought(x, r) = Sought(x, th[t]) /\ (SeeksSuccessor(r) <=> SeeksSuccessor(th[t]))
      BY <1>3, <1>6 DEF Sought, SeeksSuccessor
    <2>2. AheadThread(x, r)
      BY <1>2, <1>3, <1>4, <1>5, <1>6, <2>1 DEF AheadThread
    <2>3. Joined' = Joined
      <3>1. th \in [Threads -> Record] /\ \A n \in Nodes : Main(n) \in Threads
        BY SetFacts DEF IInv, NodeTypes
      <3>2. \A n \in Nodes : th'[Main(n)].pc = th[Main(n)].pc
        BY <1>3, <1>6, <3>1 DEF Become
      <3> QED
        BY <1>2, <3>2 DEF Joined
    <2>4. x \in Joined' => Ahead(x, succ'[x])
      BY <1>2, <2>3 DEF AheadInv
    <2> QED
      BY <1>1, <1>2, <1>6, <2>2, <2>4, AheadMove
  <1>7. CASE FindRead(t)
    <2>1. PICK s : s = succ[a]
      OBVIOUS
    <2>2. PICK st \in {"found", "route"} :
            st = IF IsInIntervalRightClosed(id, a, s) THEN "found" ELSE "route"
      OBVIOUS
    <2>3. PICK r : r = [th[t] EXCEPT !.sv = s, !.st = st]
      OBVIOUS
    <2>4. Become(t, r) /\ th[t].st = "read"
      BY <1>3, <1>7, <2>1, <2>2, <2>3 DEF FindRead
    <2>5. s \in Refs
      BY <1>1, <1>3, <2>1, <2>4, NodeFacts DEF IInv, NodeTypes, Announced, Joined
    <2>6. r \in Record /\ r.pc = pc /\ r.ix = ix /\ r.sv = s /\ r.st = st /\ r.at = a
      BY <1>1, <1>3, <2>3, <2>5 DEF Record, Stages
    <2>7. ASSUME SeeksSuccessor(th[t])
          PROVE  a \in Settled /\ s = StableSucc(a) /\ (st = "found" => Ahead(x, s))
      <3>1. a \in Settled /\ s = StableSucc(a)
        BY <1>1, <1>3, <1>5, <2>1, <2>4, <2>7
      <3> QED
        BY <1>5, <2>2, <2>7, <3>1, FoundAhead
    <2> QED
      BY <1>6, <2>2, <2>4, <2>6, <2>7
  <1>8. CASE FindRoute(t)
    <2>1. PICK c : c = ClosestPrecedingNode(a, id)
      OBVIOUS
    <2>2. th[t].st = "route" /\ a \in Nodes /\ c \in Nodes
      BY <1>1, <1>3, <1>8, <2>1, ClosestOK DEF FindRoute, ThreadOK, IInv
    <2>3. CASE c = a
      <3>1. PICK r : r = [th[t] EXCEPT !.st = "found"]
        OBVIOUS
      <3>2. Become(t, r)
        BY <1>3, <1>8, <2>1, <2>3, <3>1 DEF FindRoute
      <3>3. r \in Record /\ r.pc = pc /\ r.ix = ix /\ r.sv = sv /\ r.st = "found"
        BY <1>1, <1>3, <3>1 DEF Record, Stages
      <3>4. ASSUME SeeksSuccessor(th[t]) PROVE Ahead(x, sv)
        <4>1. a \in Settled /\ sv = StableSucc(a) /\ ~IsInIntervalRightClosed(id, a, sv)
          BY <1>1, <1>3, <1>5, <2>2, <3>4 DEF AheadInv, AheadThread
        <4>2. finger[a][0] = sv /\ sv \in Nodes /\ sv # Nil
          BY <1>5, <3>4, <4>1, SuccFacts, SettledFacts
        <4>3. ~IsInInterval(sv, a, id)
          BY <2>1, <2>2, <2>3, <4>2, ClosestForward DEF IInv
        <4>4. a \in Int /\ sv \in Int /\ id \in Int
          BY <1>5, <2>2, <3>4, <4>2, PosOfNext, <1>2, NodeFacts, IDFacts
        <4>5. a = id \/ sv = a
          BY <4>1, <4>3, <4>4 DEF IsInIntervalRightClosed, IsInInterval
        <4>6. a = id \/ a = First
          BY <4>1, <4>5, SuccFacts
        <4> QED
          BY <1>5, <3>4, <4>1, <4>6, FoundAhead
      <3> QED
        BY <1>6, <3>2, <3>3, <3>4
    <2>4. CASE c # a
      <3>1. PICK r : r = [th[t] EXCEPT !.st = "read", !.at = c, !.sv = Nil]
        OBVIOUS
      <3>2. Become(t, r)
        BY <1>3, <1>8, <2>1, <2>4, <3>1 DEF FindRoute
      <3>3. r \in Record /\ r.pc = pc /\ r.ix = ix /\ r.st = "read"
        BY <1>1, <1>3, <2>2, <3>1, NodeFacts DEF Record, Stages
      <3> QED
        BY <1>6, <3>2, <3>3
    <2> QED
      BY <2>3, <2>4
  <1>9. CASE FindFail(t)
    <2>1. PICK r : r = [th[t] EXCEPT !.st = "failed"]
      OBVIOUS
    <2>2. Become(t, r)
      BY <1>9, <2>1 DEF FindFail
    <2>3. r \in Record /\ r.pc = pc /\ r.ix = ix /\ r.st = "failed"
      BY <1>1, <1>3, <2>1 DEF Record, Stages
    <2> QED
      BY <1>6, <2>2, <2>3
  <1> QED
    BY <1>1, <1>7, <1>8, <1>9 DEF FindSuccessor

LEMMA JoinAhead ==
  ASSUME NEW x, OneJoin(x), IInv, KnownInv, LeaverInv(x), AheadInv(x), Join(x)
  PROVE  AheadInv(x)'
  <1> USE Fields
  <1>1. PICK t \in Threads : /\ t = Main(x) /\ t[1] = x /\ t[2] = "main" /\ ThreadOK(t, th[t])
                             /\ th[t].pc \notin {"idle", "joinSucc"} => x \in Joined
                             /\ th[t].pc = "update" => th[t].at # x
    BY JoinerKnows
  <1>2. x \in Nodes /\ succ \in [Nodes -> Nodes] /\ th \in [Threads -> Record] /\ life \in [Nodes -> {"off", "joining", "member", "leaving", "gone", "refused"}]
    BY OneJoinFacts DEF IInv, NodeTypes
  <1>3. PICK i, v : i = th[t].ix /\ v = th[t].sv
    OBVIOUS
  <1>4. AheadThread(x, th[t])
    BY <1>1 DEF AheadInv
  <1>5. \A k : /\ AfterFinger(x, k).pc \notin HoldPCs /\ AfterFinger(x, k).st \in {"run", "read"}
               /\ AfterAnti(x, k).pc \notin HoldPCs /\ AfterAnti(x, k).st \in {"run", "read"}
               /\ OthersFrom(x, k).pc \notin HoldPCs /\ OthersFrom(x, k).st \in {"run", "read"}
    BY DEF AfterFinger, AfterAnti, OthersFrom, HoldPCs
  <1>6. ASSUME NEW r, Become(t, r), r.pc \notin HoldPCs, r.st \in {"run", "read"},
               th[t].pc \notin {"idle", "joinSucc"}, succ'[x] = succ[x]
        PROVE  AheadInv(x)'
    BY <1>1, <1>6, AheadStay
  <1>7. ASSUME NEW r, Become(t, r), r.pc \notin HoldPCs, r.st \in {"run", "read"}, Ahead(x, succ'[x])
        PROVE  AheadInv(x)'
    <2>1. AheadThread(x, r)
      BY <1>7 DEF AheadThread
    <2> QED
      BY <1>1, <1>2, <1>7, <2>1, AheadMove
  <1>8. CASE JoinFound(x)
    <2>1. th[t].pc = "joinSucc" /\ th[t].st = "found"
      BY <1>1, <1>8 DEF JoinFound, Ended
    <2>2. Ahead(x, v)
      BY <1>3, <1>4, <2>1 DEF AheadThread, SeeksSuccessor
    <2>3. succ' = [succ EXCEPT ![x] = v]
      BY <1>1, <1>3, <1>8 DEF JoinFound
    <2>4. PICK r : r = Call("initFinger", boot[x], 0)
      OBVIOUS
    <2>5. Become(t, r) /\ r.pc \notin HoldPCs /\ r.st = "read"
      BY <1>1, <1>8, <2>4 DEF JoinFound, HoldPCs
    <2>6. Ahead(x, succ'[x])
      BY <1>2, <2>2, <2>3
    <2> QED
      BY <1>7, <2>5, <2>6
  <1>9. CASE JoinFailed(x)
    <2>1. Become(t, Idle) /\ life' = [life EXCEPT ![x] = "refused"]
      BY <1>1, <1>9 DEF JoinFailed
    <2>2. x \notin Joined'
      BY <1>2, <2>1 DEF Joined
    <2>3. AheadThread(x, Idle)
      BY DEF AheadThread, SeeksSuccessor, HoldPCs
    <2> QED
      BY <1>1, <1>2, <2>1, <2>2, <2>3, AheadMove
  <1>10. CASE InitFingerFound(x)
    <2>1. th[t].pc = "initFinger" /\ th[t].st = "found" /\ Become(t, AfterFinger(x, i))
      BY <1>1, <1>3, <1>10 DEF InitFingerFound, Ended
    <2>2. succ' = IF i = 0 THEN [succ EXCEPT ![x] = v] ELSE succ
      BY <1>1, <1>3, <1>10 DEF InitFingerFound
    <2>3. i = 0 => Ahead(x, v)
      BY <1>3, <1>4, <2>1 DEF AheadThread, SeeksSuccessor
    <2>4. x \in Joined
      BY <1>1, <2>1
    <2>5. Ahead(x, succ'[x])
      BY <1>2, <2>2, <2>3, <2>4 DEF AheadInv
    <2> QED
      BY <1>5, <1>7, <2>1, <2>5
  <1>11. CASE InitFingerFailed(x)
    <2>1. PICK r \in {Call("initAnti", boot[x], 0), AfterFinger(x, i)} : Become(t, r)
      BY <1>1, <1>3, <1>11 DEF InitFingerFailed
    <2>2. r.pc \notin HoldPCs /\ r.st \in {"run", "read"}
      BY <1>5, <2>1 DEF HoldPCs
    <2> QED
      BY <1>1, <1>6, <1>11, <2>1, <2>2 DEF InitFingerFailed, Ended
  <1>12. CASE InitFingerNext(x)
    <2>1. PICK w : w = finger[x][i - 1]
      OBVIOUS
    <2>2. PICK r \in {Frame("fingerCopy", Nil, w, i), Call("initFinger", boot[x], i)} : Become(t, r)
      BY <1>1, <1>3, <1>12, <2>1 DEF InitFingerNext
    <2>3. r.pc \notin HoldPCs /\ r.st \in {"run", "read"}
      BY <2>2 DEF HoldPCs
    <2> QED
      BY <1>1, <1>6, <1>12, <2>2, <2>3 DEF InitFingerNext
  <1>13. CASE InitFingerCopy(x)
    BY <1>1, <1>3, <1>5, <1>6, <1>13 DEF InitFingerCopy
  <1>14. CASE AntiFound(x)
    <2>1. PICK r : r = Frame("antiPred", Nil, v, i)
      OBVIOUS
    <2>2. Become(t, r) /\ r.pc \notin HoldPCs /\ r.st = "run"
      BY <1>1, <1>3, <1>14, <2>1 DEF AntiFound, HoldPCs
    <2> QED
      BY <1>1, <1>6, <1>14, <2>2 DEF AntiFound, Ended
  <1>15. CASE AntiFailed(x)
    <2>1. PICK r \in {AfterAnti(x, i), Idle} : Become(t, r)
      BY <1>1, <1>3, <1>15 DEF AntiFailed
    <2>2. r.pc \notin HoldPCs /\ r.st \in {"run", "read"}
      BY <1>5, <2>1 DEF HoldPCs
    <2> QED
      BY <1>1, <1>6, <1>15, <2>1, <2>2 DEF AntiFailed, Ended
  <1>16. CASE AntiAsk(x)
    <2>1. PICK w : \E r : r = Frame("antiStore", Nil, w, i) /\ Become(t, r)
      BY <1>1, <1>3, <1>16 DEF AntiAsk
    <2>2. PICK r : Become(t, r) /\ r.pc \notin HoldPCs /\ r.st = "run"
      BY <2>1 DEF HoldPCs
    <2> QED
      BY <1>1, <1>6, <1>16, <2>2 DEF AntiAsk
  <1>17. CASE AntiStore(x)
    <2>1. PICK r \in {AfterAnti(x, i), Idle} : Become(t, r)
      BY <1>1, <1>3, <1>17 DEF AntiStore
    <2>2. r.pc \notin HoldPCs /\ r.st \in {"run", "read"}
      BY <1>5, <2>1 DEF HoldPCs
    <2> QED
      BY <1>1, <1>6, <1>17, <2>1, <2>2 DEF AntiStore
  <1>18. CASE OthersFound(x)
    <2>1. PICK k, w : k = i + 1 /\ w = Frame("update", v, Nil, i)
      OBVIOUS
    <2>2. PICK r \in {OthersFrom(x, k), w} : Become(t, r)
      BY <1>1, <1>3, <1>18, <2>1 DEF OthersFound
    <2>3. r.pc \notin HoldPCs /\ r.st \in {"run", "read"}
      BY <1>5, <2>1, <2>2 DEF HoldPCs
    <2> QED
      BY <1>1, <1>6, <1>18, <2>2, <2>3 DEF OthersFound, Ended
  <1>19. CASE OthersFailed(x)
    <2>1. PICK k : k = i + 1
      OBVIOUS
    <2>2. Become(t, OthersFrom(x, k))
      BY <1>1, <1>3, <1>19, <2>1 DEF OthersFailed
    <2> QED
      BY <1>1, <1>5, <1>6, <1>19, <2>2 DEF OthersFailed, Ended
  <1>20. CASE UpdateFingerTable(x)
    <2>1. PICK p, q, k : p = th[t].at /\ q = pred[p] /\ k = i + 1
      OBVIOUS
    <2>2. PICK w : w = Frame("update", q, Nil, i)
      OBVIOUS
    <2>3. PICK r \in {w, OthersFrom(x, k)} : Become(t, r)
      BY <1>1, <1>3, <1>20, <2>1, <2>2 DEF UpdateFingerTable
    <2>4. r.pc \notin HoldPCs /\ r.st \in {"run", "read"}
      BY <1>5, <2>2, <2>3 DEF HoldPCs
    <2>5. th[t].pc = "update" /\ (succ' = succ \/ succ' = [succ EXCEPT ![p] = x])
      BY <1>1, <1>20, <2>1 DEF UpdateFingerTable
    <2>6. succ'[x] = succ[x]
      BY <1>1, <1>2, <2>1, <2>5
    <2> QED
      BY <1>6, <2>3, <2>4, <2>5, <2>6
  <1>21. CASE MigrateKeys(x)
    <2>1. PICK w : w = Frame("pull", succ[x], pred[x], 0)
      OBVIOUS
    <2>2. PICK r \in {Idle, w} : Become(t, r)
      BY <1>1, <1>21, <2>1 DEF MigrateKeys
    <2>3. r.pc \notin HoldPCs /\ r.st = "run"
      BY <2>1, <2>2 DEF HoldPCs
    <2> QED
      BY <1>1, <1>6, <1>21, <2>2, <2>3 DEF MigrateKeys
  <1>22. CASE PullKeys(x)
    <2>1. Become(t, Idle) /\ Idle.pc \notin HoldPCs /\ th[t].pc = "pull" /\ UNCHANGED succ
      BY <1>1, <1>22 DEF PullKeys, HoldPCs
    <2> QED
      BY <1>6, <2>1
  <1> QED
    BY <1>8, <1>9, <1>10, <1>11, <1>12, <1>13, <1>14, <1>15, <1>16, <1>17, <1>18, <1>19, <1>20,
       <1>21, <1>22 DEF Join

LEMMA StabilizeAhead ==
  ASSUME NEW x, OneJoin(x), IInv, KnownInv, LeaverInv(x), AheadInv(x), Stabilize(Main(x))
  PROVE  AheadInv(x)'
  <1> USE Fields
  <1>1. PICK t \in Threads : /\ t = Main(x) /\ t[1] = x /\ t[2] = "main"
                             /\ th[t] \in Record /\ ThreadOK(t, th[t])
                             /\ th[t].pc # "stabAlone"
                             /\ th[t].pc \notin {"idle", "joinSucc"} => x \in Joined
    BY JoinerKnows
  <1>2. x \in Nodes \ {First} /\ succ \in [Nodes -> Nodes] /\ pred \in [Nodes -> Refs]
    BY OneJoinFacts DEF IInv, NodeTypes
  <1>3. PICK s : s = th[t].sv
    OBVIOUS
  <1>4. th[t].pc \in HoldPCs => Ahead(x, s) /\ s \in Nodes
    BY <1>1, <1>3 DEF AheadInv, AheadThread, Ahead
  <1>5. ASSUME NEW r, Become(t, r), r.st = "run", r.pc \in HoldPCs => Ahead(x, r.sv), x \in Joined,
               succ'[x] = succ[x]
        PROVE  AheadInv(x)'
    <2>1. AheadThread(x, r)
      BY <1>5 DEF AheadThread
    <2> QED
      BY <1>1, <1>2, <1>5, <2>1, AheadMove DEF AheadInv
  <1>6. CASE StabRead(t)
    <2>1. x \in Joined
      <3>1. CASE Running(x)
        BY <1>2, <3>1, MembersAnnounced DEF Running, Announced
      <3>2. CASE th[t].pc = "stabRead"
        BY <1>1, <3>2
      <3> QED
        BY <1>1, <1>6, <3>1, <3>2 DEF StabRead
    <2>2. PICK w : w = succ[x]
      OBVIOUS
    <2>3. PICK r \in {Frame("stabAlone", Nil, Nil, 0), Frame("stabAsk", Nil, w, 0)} : Become(t, r)
      BY <1>1, <1>6, <2>2 DEF StabRead
    <2>4. r.st = "run" /\ (r.pc \in HoldPCs => Ahead(x, r.sv))
      BY <2>1, <2>2, <2>3 DEF HoldPCs, AheadInv
    <2> QED
      BY <1>5, <1>6, <2>1, <2>3, <2>4 DEF StabRead
  <1>7. CASE StabAlone(t)
    BY <1>1, <1>7 DEF StabAlone
  <1>8. CASE StabAsk(t)
    <2>1. PICK y : y = pred[s]
      OBVIOUS
    <2>2. PICK r : /\ Become(t, r)
                   /\ \/ r = Frame("stabAdopt", Nil, y, 0) /\ Better(y, x, s)
                      \/ r = Frame("stabNotify", Nil, s, 0)
      BY <1>1, <1>3, <1>8, <2>1 DEF StabAsk
    <2>3. th[t].pc = "stabAsk" /\ UNCHANGED succ /\ Ahead(x, s) /\ s \in Nodes /\ x \in Joined
      BY <1>1, <1>4, <1>8 DEF StabAsk, HoldPCs
    <2>4. Better(y, x, s) => Ahead(x, y)
      BY <1>2, <2>1, <2>3, BetweenAhead, NodeFacts DEF Better
    <2>5. r.st = "run" /\ Ahead(x, r.sv)
      BY <2>2, <2>3, <2>4
    <2> QED
      BY <1>5, <2>2, <2>3, <2>5
  <1>9. CASE StabAdopt(t)
    <2>1. PICK r : r = Frame("stabNotify", Nil, s, 0)
      OBVIOUS
    <2>2. Become(t, r) /\ th[t].pc = "stabAdopt" /\ succ' = [succ EXCEPT ![x] = s] /\ r.st = "run" /\ r.sv = s
      BY <1>1, <1>3, <1>9, <2>1 DEF StabAdopt
    <2>3. Ahead(x, s)
      BY <1>4, <2>2 DEF HoldPCs
    <2>4. AheadThread(x, r)
      BY <2>2, <2>3 DEF AheadThread
    <2>5. Ahead(x, succ'[x])
      BY <1>2, <2>2, <2>3
    <2> QED
      BY <1>1, <1>2, <2>2, <2>4, <2>5, AheadMove
  <1>10. CASE StabNotify(t)
    <2>1. PICK r : r = [th[t] EXCEPT !.pc = "stabList"]
      OBVIOUS
    <2>2. r.pc = "stabList" /\ r.sv = s /\ r.st = th[t].st /\ Become(t, r) /\ UNCHANGED succ
          /\ th[t].pc = "stabNotify"
      BY <1>1, <1>3, <1>10, <2>1 DEF StabNotify, Record
    <2>3. r.st = "run" /\ Ahead(x, s) /\ x \in Joined
      BY <1>1, <1>4, <2>2 DEF ThreadOK, LookupPCs, HoldPCs
    <2> QED
      BY <1>5, <2>2, <2>3
  <1>11. CASE FetchSuccessorList(t)
    <2>1. PICK r \in {Frame("stabStore", Nil, s, 0), Idle} : Become(t, r)
      BY <1>3, <1>11 DEF FetchSuccessorList
    <2>2. UNCHANGED succ /\ th[t].pc = "stabList"
      BY <1>11 DEF FetchSuccessorList
    <2>3. r.st = "run" /\ (r.pc \in HoldPCs => Ahead(x, r.sv)) /\ x \in Joined
      BY <1>1, <1>4, <2>1, <2>2 DEF HoldPCs
    <2> QED
      BY <1>5, <2>1, <2>2, <2>3
  <1>12. CASE StoreSuccessorList(t)
    <2>1. Become(t, Idle) /\ UNCHANGED succ /\ th[t].pc = "stabStore"
      BY <1>12 DEF StoreSuccessorList
    <2>2. Idle.pc \notin HoldPCs /\ x \in Joined
      BY <1>1, <2>1 DEF HoldPCs
    <2> QED
      BY <1>5, <2>1, <2>2
  <1> QED
    BY <1>1, <1>6, <1>7, <1>8, <1>9, <1>10, <1>11, <1>12 DEF Stabilize

\* The ticks of the joiner, once it is a member.
LEMMA FixFingersAhead ==
  ASSUME NEW x, OneJoin(x), IInv, KnownInv, LeaverInv(x), AheadInv(x), FixFinger(x) \/ FixFingerDone(x)
  PROVE  AheadInv(x)'
  <1> USE Fields
  <1>1. PICK t \in Threads : t = Main(x) /\ (th[t].pc \notin {"idle", "joinSucc"} => x \in Joined)
    BY JoinerKnows
  <1>2. x \in Nodes
    BY OneJoinFacts
  <1>3. PICK i, j : i = fingerIdx[x] /\ j = antiIdx[x]
    OBVIOUS
  <1>4. PICK r \in {Call("fixFinger", x, i), Call("fixAnti", x, j)} : Become(t, r)
    BY <1>1, <1>3 DEF FixFinger, FixFingerDone
  <1>5. r.pc \notin HoldPCs /\ r.st = "read"
    BY <1>4 DEF HoldPCs
  <1>6. FixFinger(x) => x \in Joined
    BY <1>2, MembersAnnounced DEF FixFinger, Running, Announced
  <1>7. FixFingerDone(x) => x \in Joined
    BY <1>1 DEF FixFingerDone, Ended
  <1>8. UNCHANGED succ
    BY DEF FixFinger, FixFingerDone
  <1> QED
    BY <1>1, <1>4, <1>5, <1>6, <1>7, <1>8, AheadStay

\* What the main thread of a settled node leaves alone, and when it writes to the
\* predecessors.
LEMMA SettledStep ==
  ASSUME IInv, JoinInv, NEW n \in Settled, MainStep(n)
  PROVE  /\ UNCHANGED life /\ \E r : Become(Main(n), r)
         /\ \A m \in Nodes \ {n} : succ'[m] = succ[m]
         /\ UNCHANGED pred \/ StabNotify(Main(n))
  <1>1. n \in Nodes
    BY SettledFacts
  <1>2. PICK t \in Threads : t = Main(n) /\ t[1] = n /\ th[t].pc \notin JoinPCs /\ life[n] = "member"
    BY <1>1, JoinKnows
  <1>3. succ \in [Nodes -> Nodes]
    BY DEF IInv, NodeTypes
  <1>4. CASE FindSuccessor(t)
    BY <1>2, <1>4, FindSuccessorGrounded
  <1>5. CASE Join(n)
    BY <1>1, <1>2, <1>5, JoinGrounded, AntiGrounded
  <1>6. CASE Stabilize(t)
    <2>1. UNCHANGED life /\ \E r : Become(t, r)
      BY <1>6, StabilizeGrounded
    <2>2. succ' = succ \/ \E v : succ' = [succ EXCEPT ![n] = v]
      BY <1>2, <1>6 DEF Stabilize, StabRead, StabAlone, StabAsk, StabAdopt, StabNotify,
                        FetchSuccessorList, StoreSuccessorList
    <2>3. UNCHANGED pred \/ StabNotify(t)
      BY <1>6 DEF Stabilize, StabRead, StabAlone, StabAsk, StabAdopt, FetchSuccessorList, StoreSuccessorList
    <2> QED
      BY <1>2, <1>3, <2>1, <2>2, <2>3
  <1>7. CASE FixFinger(n) \/ FixFingerDone(n)
    BY <1>7 DEF FixFinger, FixFingerDone
  <1> QED
    BY <1>2, <1>4, <1>5, <1>6, <1>7 DEF MainStep

LEMMA SettledAhead ==
  ASSUME NEW x, OneJoin(x), IInv, JoinInv, AheadInv(x), NEW n \in Settled, MainStep(n)
  PROVE  AheadInv(x)'
  <1>1. x \in Nodes /\ x # n
    BY OneJoinFacts
  <1>2. UNCHANGED life /\ succ'[x] = succ[x]
    BY <1>1, SettledStep
  <1>3. PICK r : Become(Main(n), r)
    BY SettledStep
  <1>4. Main(x) \in Threads /\ Main(x) # Main(n) /\ th \in [Threads -> Record]
    BY <1>1, SetFacts DEF Main, IInv, NodeTypes
  <1>5. th'[Main(x)] = th[Main(x)]
    BY <1>3, <1>4 DEF Become
  <1>6. AheadThread(x, th'[Main(x)]) /\ (x \in Joined' => Ahead(x, succ'[x]))
    BY <1>2, <1>5 DEF AheadInv, Joined
  <1>7. AheadThread(x, th[Main(x)])'
    BY <1>6 DEF AheadThread, Ahead, SeeksSuccessor, Sought
  <1>8. (x \in Joined => Ahead(x, succ[x]))'
    BY <1>6
  <1> QED
    BY <1>7, <1>8 DEF AheadInv

LEMMA AheadStep ==
  ASSUME NEW x, OneJoin(x)
  PROVE  IInv /\ KnownInv /\ JoinInv /\ LeaverInv(x) /\ AheadInv(x) /\ [Next]_vars => AheadInv(x)'
  <1> SUFFICES ASSUME IInv, KnownInv, JoinInv, LeaverInv(x), AheadInv(x), [Next]_vars
               PROVE  AheadInv(x)'
    OBVIOUS
  <1> USE Fields
  <1>1. x \in Nodes /\ x \notin Settled /\ Nodes = Settled \cup {x} /\ NoFaults
    BY OneJoinFacts DEF OneJoin
  <1>2. ASSUME NEW n \in Nodes, MainStep(n) PROVE AheadInv(x)'
    <2>1. CASE n = x
      BY <1>2, <2>1, FindSuccessorAhead, JoinAhead, StabilizeAhead, FixFingersAhead DEF MainStep
    <2>2. CASE n # x
      BY <1>1, <1>2, <2>2, SettledAhead
    <2> QED
      BY <2>1, <2>2
  <1>3. ASSUME NEW n \in Nodes, Spawn(n) PROVE AheadInv(x)'
    <2>1. n = x
      BY <1>1, <1>3 DEF Spawn, JoinInv
    <2>2. PICK b : Become(Main(x), Call("joinSucc", b, 0))
      BY <1>3, <2>1 DEF Spawn
    <2>3. PICK r : r = Call("joinSucc", b, 0)
      OBVIOUS
    <2>4. Become(Main(x), r) /\ r.pc = "joinSucc" /\ r.st = "read"
      BY <2>2, <2>3
    <2>5. th'[Main(x)].pc = "joinSucc"
      BY <1>1, <2>4, SetFacts DEF Become, IInv, NodeTypes
    <2>6. AheadThread(x, r) /\ x \notin Joined'
      BY <2>4, <2>5 DEF AheadThread, HoldPCs, Joined
    <2> QED
      BY <1>1, <2>4, <2>6, AheadMove
  <1>4. CASE UNCHANGED <<life, succ, th>>
    BY <1>4 DEF AheadInv, Joined, AheadThread, Ahead, SeeksSuccessor, Sought
  <1>5. ASSUME NEW n \in Nodes, Put(n) PROVE AheadInv(x)'
    BY <1>4, <1>5 DEF Put, FindHandler, PutEntry
  <1>6. CASE UNCHANGED vars
    BY <1>4, <1>6 DEF vars
  <1> QED
    BY <1>1, <1>2, <1>3, <1>5, <1>6, NobodyElse DEF Next

LEMMA AheadInit ==
  ASSUME NEW x, OneJoin(x)
  PROVE  StableInit => AheadInv(x)
  <1>1. x \in Late /\ x \in Nodes /\ Main(x) \in Threads
    BY OneJoinFacts, SetFacts DEF OneJoin
  <1> QED
    BY <1>1, Fields DEF StableInit, AheadInv, AheadThread, Joined, SeeksSuccessor, HoldPCs

-----------------------------------------------------------------------------
(* The predecessors.                                                       *)

LEMMA FirstOutside ==
  ASSUME NEW a \in Nodes, NEW b \in Nodes, Pos(a) < Pos(b)
  PROVE  ~IsInInterval(First, a, b)
  <1>1. a \in 0 .. Size - 1 /\ b \in 0 .. Size - 1 /\ First \in 0 .. Size - 1 /\ Size \in Nat
    BY NodeFacts, BitsAssumption DEF ID
  <1> QED
    BY <1>1 DEF Pos, Dist, IsInInterval

\* No settled node lies between a settled node and its stable predecessor.
LEMMA NoneBefore ==
  ASSUME NEW s \in Settled, StablePred(s) # Nil, NEW m \in Settled
  PROVE  ~IsInInterval(m, StablePred(s), s)
  <1>1. PICK p : p = StablePred(s)
    OBVIOUS
  <1>2. p \in Settled /\ p # s
    BY <1>1, PredFacts
  <1>3. p \in Nodes /\ s \in Nodes /\ m \in Nodes
    BY <1>2, SettledFacts
  <1>4. CASE s = First
    <2>1. \A k \in Settled : Pos(k) <= Pos(p)
      BY <1>1, <1>4, LastFacts DEF StablePred
    <2>2. m # First => ~IsInInterval(m, p, First)
      BY <1>2, <1>3, <2>1, PosFacts
    <2>3. ~IsInInterval(First, p, First)
      BY <1>2, <1>3, <1>4, NodeFacts DEF IsInInterval
    <2> QED
      BY <1>1, <1>4, <2>2, <2>3
  <1>5. CASE s # First
    <2> DEFINE Lower == {k \in Settled \ {First} : Pos(k) < Pos(s)}
    <2>1. Lower # {} /\ p = CHOOSE k \in Lower : \A j \in Lower : Pos(j) <= Pos(k)
      BY <1>1, <1>5 DEF StablePred
    <2>2. \E k \in Lower : \A j \in Lower : Pos(j) <= Pos(k)
      BY <2>1, SettledFacts, Furthest
    <2>3. p \in Lower /\ \A j \in Lower : Pos(j) <= Pos(p)
      BY <2>1, <2>2
    <2>4. Pos(p) < Pos(s)
      BY <2>3
    <2>5. CASE m = First
      BY <1>1, <1>3, <2>4, <2>5, FirstOutside
    <2>6. CASE m # First
      <3>1. IsInInterval(m, p, s) => Pos(p) < Pos(m) /\ Pos(m) < Pos(s)
        BY <1>3, <2>4, <2>6, PosFacts
      <3>2. Pos(m) < Pos(s) => Pos(m) <= Pos(p)
        BY <2>3, <2>6
      <3>3. Pos(m) \in Int /\ Pos(p) \in Int
        BY <1>3, PosFacts
      <3> QED
        BY <1>1, <3>1, <3>2, <3>3
    <2> QED
      BY <2>5, <2>6
  <1> QED
    BY <1>4, <1>5

\* Who joins ahead of the first node of the chain has no settled node between them.
LEMMA NoneAhead ==
  ASSUME NEW x \in Nodes \ Settled, NEW s \in Settled, StablePred(s) = Nil, Ahead(x, s), NEW m \in Settled
  PROVE  ~IsInInterval(m, x, s)
  <1>1. /\ x \in Nodes /\ s \in Nodes /\ m \in Nodes /\ First \in Nodes /\ x # First
        /\ x # s
    BY SettledFacts
  <1>2. Pos(m) \in 0 .. Size - 1 /\ Pos(x) \in 0 .. Size - 1 /\ Pos(s) \in 0 .. Size - 1
        /\ (Pos(m) = 0 <=> m = First) /\ Size \in Nat
    BY <1>1, PosFacts, BitsAssumption
  <1>3. CASE s = First
    <2>1. Last = First
      BY <1>3, LastFacts, SettledFacts DEF StablePred
    <2>2. Pos(First) = 0
      BY <1>1, PosFacts
    <2>3. m = First
      BY <1>2, <2>1, <2>2, LastFacts
    <2> QED
      BY <1>1, <1>3, <2>3, NodeFacts DEF IsInInterval
  <1>4. CASE s # First
    <2>1. Pos(x) < Pos(s)
      BY <1>4 DEF Ahead, Rank
    <2> DEFINE Lower == {k \in Settled \ {First} : Pos(k) < Pos(s)}
    <2>2. Lower = {}
      <3> SUFFICES ASSUME Lower # {} PROVE FALSE
        OBVIOUS
      <3>1. \E k \in Lower : \A j \in Lower : Pos(j) <= Pos(k)
        BY SettledFacts, Furthest
      <3>2. StablePred(s) \in Lower
        BY <1>4, <3>1 DEF StablePred
      <3> QED
        BY <3>2, SettledFacts
    <2>3. CASE m = First
      BY <1>1, <2>1, <2>3, FirstOutside
    <2>4. CASE m # First
      <3>1. IsInInterval(m, x, s) => Pos(m) < Pos(s)
        BY <1>1, <2>1, <2>4, PosFacts
      <3> QED
        BY <2>2, <2>4, <3>1
    <2> QED
      BY <2>3, <2>4
  <1> QED
    BY <1>3, <1>4

\* Each settled node keeps its predecessor, or a joiner has come in between.
PredInv ==
  \A n \in Settled :
    pred[n] = StablePred(n) \/ (pred[n] \in Late /\ \A m \in Settled : ~IsInInterval(m, pred[n], n))

\* Who tells a settled node of itself is its stable predecessor or has nobody between.
LEMMA NotifyPreds ==
  ASSUME NEW x, OneJoin(x), IInv, JoinInv, AheadInv(x), PredInv, NEW n \in Nodes, StabNotify(Main(n))
  PROVE  PredInv'
  <1>1. PICK t \in Threads : t = Main(n) /\ t[1] = n /\ ThreadOK(t, th[t])
    BY JoinKnows
  <1>2. PICK s : s = th[t].sv
    OBVIOUS
  <1>3. th[t].pc = "stabNotify" /\ s \in Nodes /\ s # n
    BY <1>1, <1>2 DEF StabNotify, ThreadOK, HasNode
  <1>4. pred' = pred \/ (NotifyAccepts(s, n) /\ pred' = [pred EXCEPT ![s] = n])
    BY <1>1, <1>2 DEF StabNotify, Notify
  <1>5. /\ pred \in [Nodes -> Refs] /\ Settled \subseteq Nodes /\ Nodes = Settled \cup {x}
        /\ x \in Nodes \ Settled /\ Late = {x} /\ Nil \notin Nodes
    BY OneJoinFacts, SettledFacts, NodeFacts DEF IInv, NodeTypes, OneJoin
  <1>6. ASSUME s \in Settled, NotifyAccepts(s, n)
        PROVE  n = StablePred(s) \/ (n = x /\ \A m \in Settled : ~IsInInterval(m, n, s))
    <2>1. CASE n \in Settled
      <3>1. n # First /\ Near(n, s)
        BY <1>1, <1>2, <1>3, <2>1 DEF JoinInv, JoinThread, HoldPCs
      <3>2. s = StableSucc(n)
        BY <1>6, <3>1 DEF Near, Settled
      <3> QED
        BY <2>1, <3>1, <3>2, PredOfSucc
    <2>2. CASE n = x
      <3>1. Ahead(x, s)
        BY <1>1, <1>2, <1>3, <2>2 DEF AheadInv, AheadThread, HoldPCs
      <3>2. PICK p \in Refs : p = pred[s]
        BY <1>3, <1>5
      <3>3. p = Nil \/ IsInInterval(x, p, s)
        BY <1>6, <2>2, <3>2 DEF NotifyAccepts
      <3>4. p = StablePred(s) \/ (p = x /\ \A m \in Settled : ~IsInInterval(m, x, s))
        BY <1>5, <1>6, <3>2 DEF PredInv
      <3>5. CASE p = Nil
        <4>1. StablePred(s) = Nil
          BY <1>5, <3>4, <3>5
        <4> QED
          BY <1>5, <1>6, <2>2, <3>1, <4>1, NoneAhead
      <3>6. CASE p # Nil /\ p = StablePred(s)
        <4>1. IsInInterval(x, p, s) /\ \A m \in Settled : ~IsInInterval(m, p, s)
          BY <1>6, <3>3, <3>6, NoneBefore
        <4>2. p \in Int /\ s \in Int /\ x \in Int /\ Settled \subseteq Int
          BY <1>3, <1>5, <3>6, NodeFacts, SettledFacts
        <4>3. ASSUME NEW m \in Settled, IsInInterval(m, x, s) PROVE IsInInterval(m, p, s)
          <5>1. m \in Int
            BY <4>2
          <5> QED
            BY <4>1, <4>2, <4>3, <5>1 DEF IsInInterval
        <4> QED
          BY <2>2, <4>1, <4>3
      <3> QED
        BY <2>2, <3>4, <3>5, <3>6
    <2> QED
      BY <1>5, <2>1, <2>2
  <1>7. ASSUME NEW m \in Settled
        PROVE  pred'[m] = StablePred(m)
                 \/ (pred'[m] \in Late /\ \A k \in Settled : ~IsInInterval(k, pred'[m], m))
    <2>1. CASE pred'[m] = pred[m]
      BY <2>1 DEF PredInv
    <2>2. CASE pred'[m] # pred[m]
      <3>1. m = s /\ pred'[m] = n /\ NotifyAccepts(s, n)
        BY <1>3, <1>4, <1>5, <2>2
      <3> QED
        BY <1>5, <1>6, <3>1
    <2> QED
      BY <2>1, <2>2
  <1> QED
    BY <1>7 DEF PredInv

LEMMA PredStep ==
  ASSUME NEW x, OneJoin(x)
  PROVE  IInv /\ JoinInv /\ AheadInv(x) /\ PredInv /\ [Next]_vars => PredInv'
  <1> SUFFICES ASSUME IInv, JoinInv, AheadInv(x), PredInv, [Next]_vars PROVE PredInv'
    OBVIOUS
  <1>1. /\ x \in Nodes \ Settled /\ Nodes = Settled \cup {x} /\ NoFaults /\ pred \in [Nodes -> Refs]
        /\ Settled \subseteq Nodes
    BY OneJoinFacts, SettledFacts DEF OneJoin, IInv, NodeTypes
  <1>2. CASE \A m \in Settled : pred'[m] = pred[m]
    BY <1>2 DEF PredInv
  <1>3. ASSUME NEW n \in Nodes, MainStep(n) PROVE PredInv'
    <2>1. CASE StabNotify(Main(n))
      BY <2>1, NotifyPreds
    <2>2. CASE ~StabNotify(Main(n))
      <3>1. CASE n \in Settled
        BY <1>2, <1>3, <2>2, <3>1, SettledStep
      <3>2. CASE n = x
        <4>1. UNCHANGED pred \/ \E v : pred' = [pred EXCEPT ![x] = v]
          BY <1>3, <2>2, <3>2 DEF MainStep, FindSuccessor, FindRead, FindRoute, FindFail, Join, JoinFound,
             JoinFailed, InitFingerFound, InitFingerFailed, InitFingerNext, InitFingerCopy, AntiFound,
             AntiFailed, AntiAsk, AntiStore, OthersFound, OthersFailed, UpdateFingerTable, MigrateKeys,
             PullKeys, Stabilize, StabRead, StabAlone, StabAsk, StabAdopt, FetchSuccessorList,
             StoreSuccessorList, FixFinger, FixFingerDone
        <4> QED
          BY <1>1, <1>2, <4>1
      <3> QED
        BY <1>1, <3>1, <3>2
    <2> QED
      BY <2>1, <2>2
  <1>4. ASSUME NEW n \in Nodes, Spawn(n) \/ Put(n) PROVE PredInv'
    BY <1>2, <1>4 DEF Spawn, Put, FindHandler, PutEntry
  <1>5. CASE UNCHANGED vars
    BY <1>2, <1>5 DEF vars
  <1> QED
    BY <1>1, <1>3, <1>4, <1>5, NobodyElse DEF Next

LEMMA PredInit == StableInit => PredInv
  <1>1. \A n \in Settled : n \in Nodes /\ n \notin Late
    BY DEF Settled
  <1> QED
    BY <1>1 DEF StableInit, PredInv

\* When one node joins a stable ring of any size, each of the others keeps its
\* successor and its predecessor unless the joiner has come in between.
THEOREM OneJoinKeepsOrder ==
  ASSUME NEW x, OneJoin(x)
  PROVE  StableSpec => []JoinKeepsOrder
  <1>1. OneDeparture(x) /\ NoFaults
    BY OneJoinFacts DEF OneJoin
  <1>2. JoinInv /\ PredInv => JoinKeepsOrder
    BY DEF JoinInv, PredInv, Near, JoinKeepsOrder, SuccsKept, PredsKept
  <1> QED
    BY <1>1, <1>2, StableInductive, JoinInvInit, JoinInvStep, StableLeaver, LeaverStep, AheadInit,
       AheadStep, PredInit, PredStep, PTL DEF StableSpec

=============================================================================

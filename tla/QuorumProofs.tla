---------------------------- MODULE QuorumProofs ----------------------------
(***************************************************************************)
(* Proofs about QuorumManager, for any replicas, writers, numbers of       *)
(* operations and outages.                                                 *)
(*                                                                         *)
(* IInv, what is known of a write and of a read at each of their points,   *)
(* holds always (TypeCorrect).  On top of it Repaired: as long as no       *)
(* repair has raced, what a read saw only rises and what it repairs stays  *)
(* repaired (RepairsConverge).  On top of it, too, Fresh, for reads that   *)
(* do not go back (FreshReads), in three parts: Alone and Pair for one and *)
(* two writes, Rising for writes that come one by one.                     *)
(***************************************************************************)
EXTENDS QuorumManager, FiniteSetTheorems, SequenceTheorems, TLAPS

-----------------------------------------------------------------------------
(* Vector clocks are a partial order, and Resolve prefers the later one.     *)

LEMMA ZeroLeast == /\ Zero \in Clock
                   /\ \A a \in Clock : LE(Zero, a) /\ LE(a, a)
BY DEF Zero, Clock, LE

LEMMA LETransitive ==
  ASSUME NEW a \in Clock, NEW b \in Clock, NEW c \in Clock, LE(a, b), LE(b, c)
  PROVE  LE(a, c)
<1> SUFFICES ASSUME NEW x \in Writers PROVE a[x] <= c[x] BY DEF LE
<1>1. a[x] \in Nat /\ b[x] \in Nat /\ c[x] \in Nat BY DEF Clock
<1>2. a[x] <= b[x] /\ b[x] <= c[x] BY DEF LE
<1> QED BY <1>1, <1>2

\* Compare says what the order says.
LEMMA Comparing ==
  ASSUME NEW a, NEW b
  PROVE  /\ Compare(a, b) = "Equal"  <=> LE(a, b) /\ LE(b, a)
         /\ Compare(a, b) = "Before" <=> LE(a, b) /\ ~LE(b, a)
         /\ Compare(a, b) = "After"  <=> ~LE(a, b) /\ LE(b, a)
<1>1. CASE LE(a, b) /\ LE(b, a) BY <1>1 DEF Compare
<1>2. CASE LE(a, b) /\ ~LE(b, a) BY <1>2 DEF Compare
<1>3. CASE ~LE(a, b) /\ LE(b, a) BY <1>3 DEF Compare
<1>4. CASE ~LE(a, b) /\ ~LE(b, a) BY <1>4 DEF Compare
<1> QED BY <1>1, <1>2, <1>3, <1>4

LEMMA Merging ==
  ASSUME NEW a \in Clock, NEW b \in Clock
  PROVE  Merge(a, b) \in Clock /\ LE(a, Merge(a, b)) /\ LE(b, Merge(a, b))
BY DEF Clock, LE, Merge

LEMMA Incrementing ==
  ASSUME NEW a \in Clock, NEW x \in Writers
  PROVE  /\ Increment(a, x) \in Clock /\ LE(a, Increment(a, x))
         /\ \A b \in Clock : LE(b, a) => ~LE(Increment(a, x), b)
BY DEF Clock, LE, Increment

\* Pick returns one of the two, and never the earlier of two ordered versions.
LEMMA Picking ==
  ASSUME NEW d, NEW e
  PROVE  /\ Pick(d, e) \in {d, e}
         /\ ~LE(e.clock, d.clock) \/ LE(d.clock, e.clock) =>
              (e.ts > d.ts => Pick(d, e) = e)
         /\ ~LE(d.clock, e.clock) \/ LE(e.clock, d.clock) =>
              (~(e.ts > d.ts) => Pick(d, e) = d)
<1>1. CASE Compare(e.clock, d.clock) = "After" BY <1>1, Comparing DEF Pick
<1>2. CASE Compare(e.clock, d.clock) = "Before" BY <1>2, Comparing DEF Pick
<1>3. CASE Compare(e.clock, d.clock) \notin {"After", "Before"} BY <1>3 DEF Pick
<1> QED BY <1>1, <1>2, <1>3

\* The first version is behind no other.
LEMMA FirstClock ==
  ASSUME NEW x \in Writers, NEW y \in Writers, NEW a \in Clock,
         LE(Increment(a, y), Increment(Zero, x))
  PROVE  LE(Increment(Zero, x), Increment(a, y))
<1> DEFINE i == Increment(a, y)
           z == Increment(Zero, x)
<1>1. /\ i \in [Writers -> Nat] /\ i[y] = a[y] + 1 /\ a[y] \in Nat
      /\ \A u \in Writers : z[u] = IF u = x THEN 1 ELSE 0
  BY DEF Clock, Increment, Zero
<1>2. LE(i, z) OBVIOUS
<1> HIDE DEF i, z
<1>3. i[y] >= 1 /\ x = y BY <1>1, <1>2 DEF LE
<1>4. ASSUME NEW u \in Writers PROVE z[u] <= i[u]
  <2>1. i[u] \in Nat /\ z[u] = IF u = x THEN 1 ELSE 0 BY <1>1
  <2>2. CASE u = x BY <2>1, <2>2, <1>3
  <2>3. CASE u # x BY <2>1, <2>3
  <2> QED BY <2>2, <2>3
<1> QED BY <1>4 DEF LE, i, z

-----------------------------------------------------------------------------
(* The replicas are finitely many, and a quorum of each kind have one in     *)
(* common.                                                                   *)

LEMMA OrderLength == N \in Nat /\ N >= 1
BY QuorumAssumption, EmptySeq, LenProperties DEF N

LEMMA ReplicasFinite == IsFiniteSet(Replicas) /\ Cardinality(Replicas) <= N
<1>1. N \in Nat BY OrderLength
<1>2. IsFiniteSet(1 .. N) /\ Cardinality(1 .. N) = N
  BY <1>1, FS_Interval
<1>3. Order \in [1 .. N -> Replicas] BY QuorumAssumption, LenProperties, SeqDef DEF N
<1>4. Order \in Surjection(1 .. N, Replicas)
  BY <1>3, QuorumAssumption DEF Surjection, N
<1> QED BY <1>2, <1>4, FS_Surjection

LEMMA QuorumsMeet ==
  ASSUME W + R > N, NEW A \in SUBSET Replicas, NEW B \in SUBSET Replicas,
         Cardinality(A) >= W, Cardinality(B) >= R
  PROVE  \E r \in A : r \in B
<1>1. IsFiniteSet(A) /\ IsFiniteSet(B) /\ IsFiniteSet(A \cup B) /\ IsFiniteSet(A \cap B)
  BY ReplicasFinite, FS_Subset, FS_Union, FS_Intersection
<1>2. Cardinality(A \cup B) = Cardinality(A) + Cardinality(B) - Cardinality(A \cap B)
  BY <1>1, FS_Union
<1>3. Cardinality(A \cup B) <= N
  <2>1. A \cup B \subseteq Replicas OBVIOUS
  <2>2. Cardinality(A \cup B) <= Cardinality(Replicas) BY <2>1, ReplicasFinite, FS_Subset
  <2> QED BY <2>2, <1>1, ReplicasFinite, OrderLength, FS_CardinalityType
<1>4. Cardinality(A \cap B) # 0
  BY <1>1, <1>2, <1>3, OrderLength, FS_CardinalityType, QuorumAssumption
<1>5. A \cap B # {} BY <1>4, FS_EmptySet
<1> QED BY <1>5

-----------------------------------------------------------------------------
(* What a step does to the operation it belongs to; the others keep still.   *)

WriteState == [pc : {"idle", "clock", "put", "ok", "failed"}, ts : Nat,
               base : Clock, i : 1 .. N + 1, todo : SUBSET Replicas,
               acked : SUBSET Replicas, after : SUBSET Writes]
ReadState == [pc : {"idle", "get", "returned", "failed"},
              todo : SUBSET Replicas, got : [Replicas -> Entries \cup {None}],
              best : Entries \cup {None}, stale : SUBSET Replicas,
              acked : SUBSET Writes, ended : SUBSET Writes]

\* Every write but o, and every read, is left alone.
OnlyWrite(o) ==
  /\ \A x \in Writes : x # o => wr'[x] = wr[x]
  /\ UNCHANGED <<up, downs, ups, rd, raced>>

OnlyRead(o) ==
  /\ \A x \in Reads : x # o => rd'[x] = rd[x]
  /\ UNCHANGED <<up, downs, ups, now, wr>>

LEMMA StartWriteDoes ==
  ASSUME TypeOK, NEW o \in Writes, StartWrite(o)
  PROVE  /\ wr[o].pc = "idle" /\ OnlyWrite(o) /\ replica' = replica /\ now' = now + 1
         /\ wr' \in [Writes -> WriteState]
         /\ wr'[o].pc = "clock" /\ wr'[o].ts = now + 1 /\ wr'[o].after = Ended
         /\ wr'[o].base = wr[o].base /\ wr'[o].i = wr[o].i /\ wr'[o].todo = wr[o].todo
         /\ wr'[o].acked = wr[o].acked
<1>1. wr \in [Writes -> WriteState] /\ now \in Nat BY DEF TypeOK, WriteState
<1>2. Ended \in SUBSET Writes BY DEF Ended
<1>3. now + 1 \in Nat BY <1>1
<1> DEFINE e == Ended
           t == now + 1
<1>4. /\ wr' = [wr EXCEPT ![o].pc = "clock", ![o].ts = t, ![o].after = e]
      /\ wr[o].pc = "idle" /\ now' = t /\ UNCHANGED <<replica, up, downs, ups, rd, raced>>
  BY DEF StartWrite
<1> HIDE DEF e, t
<1>5. /\ wr'[o].pc = "clock" /\ wr'[o].ts = t /\ wr'[o].after = e
      /\ wr'[o].base = wr[o].base /\ wr'[o].i = wr[o].i /\ wr'[o].todo = wr[o].todo
      /\ wr'[o].acked = wr[o].acked /\ \A x \in Writes : x # o => wr'[x] = wr[x]
  BY <1>1, <1>4 DEF WriteState
<1>6. wr' \in [Writes -> WriteState]
  <2>1. e \in SUBSET Writes /\ t \in Nat BY <1>2, <1>3 DEF e, t
  <2> DEFINE f == [wr EXCEPT ![o].pc = "clock"]
             g == [f EXCEPT ![o].ts = t]
  <2>2. f \in [Writes -> WriteState] BY <1>1 DEF WriteState
  <2>3. wr' = [g EXCEPT ![o].after = e] BY <1>4
  <2> HIDE DEF f
  <2>4. g \in [Writes -> WriteState] BY <2>1, <2>2 DEF WriteState
  <2> HIDE DEF g
  <2> QED BY <2>1, <2>3, <2>4 DEF WriteState
<1> QED BY <1>4, <1>5, <1>6 DEF OnlyWrite, e, t

LEMMA ReadClockDoes ==
  ASSUME TypeOK, NEW o \in Writes, ReadClock(o)
  PROVE  /\ wr[o].pc = "clock" /\ OnlyWrite(o) /\ replica' = replica /\ now' = now
         /\ wr' \in [Writes -> WriteState]
         /\ wr[o].i \in 1 .. N /\ Order[wr[o].i] \in Replicas
         /\ wr'[o].pc = IF wr[o].i = N THEN "put" ELSE "clock"
         /\ wr'[o].base = Merged(o, Order[wr[o].i]) /\ wr'[o].i = wr[o].i + 1
         /\ wr'[o].todo = IF wr[o].i = N THEN Replicas ELSE {}
         /\ wr'[o].ts = wr[o].ts /\ wr'[o].after = wr[o].after /\ wr'[o].acked = wr[o].acked
<1> DEFINE r == Order[wr[o].i]
           b == Merged(o, r)
           p == IF wr[o].i = N THEN "put" ELSE "clock"
           t == IF wr[o].i = N THEN Replicas ELSE {}
           j == wr[o].i + 1
<1>1. wr \in [Writes -> WriteState] BY DEF TypeOK, WriteState
<1>2. wr[o].pc = "clock" BY DEF ReadClock
<1>3. wr[o].i \in 1 .. N BY <1>1, <1>2, OrderLength DEF TypeOK, WriteState
<1>4. r \in Replicas BY <1>3, QuorumAssumption, ElementOfSeq DEF N
<1>5. b \in Clock
  <2>1. wr[o].base \in Clock BY <1>1 DEF WriteState
  <2>2. CASE r \in up /\ replica[r] # None
    <3>1. replica[r].clock \in Clock BY <1>4, <2>2 DEF TypeOK, Entries
    <3> QED BY <2>1, <2>2, <3>1, Merging DEF Merged
  <2> QED BY <2>1, <2>2 DEF Merged
<1>6. j \in 1 .. N + 1 BY <1>3, OrderLength
<1>7. p \in {"clock", "put"} /\ t \in SUBSET Replicas OBVIOUS
<1>8. /\ wr' = [wr EXCEPT ![o].base = b, ![o].i = @ + 1, ![o].pc = p, ![o].todo = t]
      /\ UNCHANGED <<replica, up, downs, ups, now, rd, raced>>
  BY DEF ReadClock
<1> HIDE DEF b, j, p, t
<1>9. /\ wr'[o].base = b /\ wr'[o].i = wr[o].i + 1 /\ wr'[o].pc = p
      /\ wr'[o].todo = t /\ wr'[o].ts = wr[o].ts /\ wr'[o].after = wr[o].after
      /\ wr'[o].acked = wr[o].acked /\ \A x \in Writes : x # o => wr'[x] = wr[x]
  BY <1>1, <1>8 DEF WriteState
<1>10. wr' \in [Writes -> WriteState]
  <2>1. wr[o].i + 1 \in 1 .. N + 1 BY <1>6 DEF j
  <2> QED BY <1>1, <1>5, <2>1, <1>7, <1>8 DEF WriteState
<1> QED BY <1>2, <1>3, <1>4, <1>8, <1>9, <1>10 DEF OnlyWrite, b, p, t

LEMMA PutReplicaDoes ==
  ASSUME TypeOK, NEW o \in Writes, NEW r \in Replicas, PutReplica(o, r)
  PROVE  /\ OnlyWrite(o) /\ now' = now /\ wr' \in [Writes -> WriteState]
         /\ r \in wr[o].todo /\ wr'[o].todo = wr[o].todo \ {r}
         /\ wr'[o].acked = IF r \in up THEN wr[o].acked \cup {r} ELSE wr[o].acked
         /\ replica' = IF r \in up THEN [replica EXCEPT ![r] = Version(o)] ELSE replica
         /\ wr'[o].pc = wr[o].pc /\ wr'[o].ts = wr[o].ts /\ wr'[o].base = wr[o].base
         /\ wr'[o].i = wr[o].i /\ wr'[o].after = wr[o].after
<1>1. wr \in [Writes -> WriteState] BY DEF TypeOK, WriteState
<1>2. r \in wr[o].todo /\ UNCHANGED <<up, downs, ups, now, rd, raced>> BY DEF PutReplica
<1>3. CASE r \in up
  <2>1. /\ wr' = [wr EXCEPT ![o].todo = @ \ {r}, ![o].acked = @ \cup {r}]
        /\ replica' = [replica EXCEPT ![r] = Version(o)]
    BY <1>3 DEF PutReplica, Put
  <2>2. /\ wr'[o].todo = wr[o].todo \ {r} /\ wr'[o].acked = wr[o].acked \cup {r}
        /\ wr'[o].pc = wr[o].pc /\ wr'[o].ts = wr[o].ts /\ wr'[o].base = wr[o].base
        /\ wr'[o].i = wr[o].i /\ wr'[o].after = wr[o].after
        /\ \A x \in Writes : x # o => wr'[x] = wr[x]
    BY <1>1, <2>1 DEF WriteState
  <2>3. wr' \in [Writes -> WriteState]
    <3>1. wr[o].todo \in SUBSET Replicas /\ wr[o].acked \in SUBSET Replicas BY <1>1 DEF WriteState
    <3>2. wr[o].todo \ {r} \in SUBSET Replicas /\ wr[o].acked \cup {r} \in SUBSET Replicas BY <3>1
    <3> DEFINE f == [wr EXCEPT ![o].todo = @ \ {r}]
    <3>3. f \in [Writes -> WriteState] /\ f[o].acked = wr[o].acked BY <1>1, <3>2 DEF WriteState
    <3>4. wr' = [f EXCEPT ![o].acked = @ \cup {r}] BY <2>1
    <3> HIDE DEF f
    <3> QED BY <3>2, <3>3, <3>4 DEF WriteState
  <2> QED BY <1>2, <1>3, <2>1, <2>2, <2>3 DEF OnlyWrite
<1>4. CASE r \notin up
  <2>1. wr' = [wr EXCEPT ![o].todo = @ \ {r}] /\ replica' = replica BY <1>4 DEF PutReplica
  <2> QED BY <1>1, <1>2, <1>4, <2>1 DEF WriteState, OnlyWrite
<1> QED BY <1>3, <1>4

LEMMA FinishWriteDoes ==
  ASSUME TypeOK, NEW o \in Writes, FinishWrite(o)
  PROVE  /\ wr[o].pc = "put" /\ wr[o].todo = {} /\ OnlyWrite(o)
         /\ replica' = replica /\ now' = now /\ wr' \in [Writes -> WriteState]
         /\ wr'[o].pc = IF Cardinality(wr[o].acked) >= W THEN "ok" ELSE "failed"
         /\ wr'[o].todo = wr[o].todo /\ wr'[o].acked = wr[o].acked /\ wr'[o].ts = wr[o].ts
         /\ wr'[o].base = wr[o].base /\ wr'[o].i = wr[o].i /\ wr'[o].after = wr[o].after
<1> DEFINE p == IF Cardinality(wr[o].acked) >= W THEN "ok" ELSE "failed"
<1>1. wr \in [Writes -> WriteState] BY DEF TypeOK, WriteState
<1>2. /\ wr[o].pc = "put" /\ wr[o].todo = {} /\ wr' = [wr EXCEPT ![o].pc = p]
      /\ UNCHANGED <<replica, up, downs, ups, now, rd, raced>>
  BY DEF FinishWrite, WaitsFor
<1>3. p \in {"ok", "failed"} OBVIOUS
<1> HIDE DEF p
<1>4. wr' \in [Writes -> WriteState] /\ wr'[o].pc = p BY <1>1, <1>2, <1>3 DEF WriteState
<1> QED BY <1>1, <1>2, <1>4 DEF WriteState, OnlyWrite, p

LEMMA StartReadDoes ==
  ASSUME TypeOK, NEW o \in Reads, StartRead(o)
  PROVE  /\ rd[o].pc = "idle" /\ OnlyRead(o) /\ replica' = replica /\ raced' = raced
         /\ rd' \in [Reads -> ReadState]
         /\ rd'[o].pc = "get" /\ rd'[o].todo = Replicas
         /\ rd'[o].acked = Acked /\ rd'[o].ended = Ended
         /\ rd'[o].got = rd[o].got /\ rd'[o].best = rd[o].best /\ rd'[o].stale = rd[o].stale
<1> DEFINE a == Acked
           e == Ended
<1>1. rd \in [Reads -> ReadState] BY DEF TypeOK, ReadState
<1>2. a \in SUBSET Writes /\ e \in SUBSET Writes BY DEF Acked, Ended
<1>3. /\ rd[o].pc = "idle" /\ UNCHANGED <<replica, up, downs, ups, now, wr, raced>>
      /\ rd' = [rd EXCEPT ![o].pc = "get", ![o].todo = Replicas, ![o].acked = a, ![o].ended = e]
  BY DEF StartRead
<1> HIDE DEF a, e
<1>4. /\ rd'[o].pc = "get" /\ rd'[o].todo = Replicas /\ rd'[o].acked = a /\ rd'[o].ended = e
      /\ rd'[o].got = rd[o].got /\ rd'[o].best = rd[o].best /\ rd'[o].stale = rd[o].stale
      /\ \A x \in Reads : x # o => rd'[x] = rd[x]
  BY <1>1, <1>3 DEF ReadState
<1>5. rd' \in [Reads -> ReadState]
  <2> DEFINE f == [rd EXCEPT ![o].pc = "get"]
             g == [f EXCEPT ![o].todo = Replicas]
             h == [g EXCEPT ![o].acked = a]
  <2>1. f \in [Reads -> ReadState] BY <1>1 DEF ReadState
  <2>2. rd' = [h EXCEPT ![o].ended = e] BY <1>3
  <2> HIDE DEF f
  <2>3. g \in [Reads -> ReadState] BY <2>1 DEF ReadState
  <2> HIDE DEF g
  <2>4. h \in [Reads -> ReadState] BY <1>2, <2>3 DEF ReadState
  <2> HIDE DEF h
  <2> QED BY <1>2, <2>2, <2>4 DEF ReadState
<1> QED BY <1>3, <1>4, <1>5 DEF OnlyRead, a, e

\* What replica r answers, and the better of that and the best answer so far.
Answer(r) == IF r \in up THEN replica[r] ELSE None
Better(b, e) == IF e = None THEN b ELSE IF b = None THEN e ELSE Pick(b, e)

LEMMA GetReplicaDoes ==
  ASSUME TypeOK, NEW o \in Reads, NEW r \in Replicas, GetReplica(o, r)
  PROVE  /\ rd[o].pc = "get" /\ OnlyRead(o) /\ replica' = replica /\ raced' = raced
         /\ rd' \in [Reads -> ReadState]
         /\ r \in rd[o].todo /\ rd'[o].todo = rd[o].todo \ {r} /\ rd'[o].pc = "get"
         /\ rd'[o].got = [rd[o].got EXCEPT ![r] = Answer(r)]
         /\ rd'[o].best = Better(rd[o].best, Answer(r))
         /\ rd'[o].stale = rd[o].stale /\ rd'[o].acked = rd[o].acked /\ rd'[o].ended = rd[o].ended
<1> DEFINE a == Answer(r)
           b == Better(rd[o].best, a)
<1>1. rd \in [Reads -> ReadState] BY DEF TypeOK, ReadState
<1>2. a \in Entries \cup {None} BY DEF TypeOK, Answer
<1>3. b \in Entries \cup {None}
  <2>1. rd[o].best \in Entries \cup {None} BY <1>1 DEF ReadState
  <2>2. Pick(rd[o].best, a) \in {rd[o].best, a} BY Picking
  <2> QED BY <1>2, <2>1, <2>2 DEF Better
<1>4. /\ rd[o].pc = "get" /\ r \in rd[o].todo
      /\ UNCHANGED <<replica, up, downs, ups, now, wr, raced>>
      /\ rd' = [rd EXCEPT ![o].todo = @ \ {r}, ![o].got[r] = a,
                          ![o].best = IF a = None THEN @ ELSE IF @ = None THEN a ELSE Pick(@, a)]
  BY DEF GetReplica, Answer
<1>5. rd' = [rd EXCEPT ![o].todo = @ \ {r}, ![o].got[r] = a, ![o].best = b]
  BY <1>1, <1>4 DEF Better, ReadState
<1> HIDE DEF a, b
<1>6. /\ rd'[o].todo = rd[o].todo \ {r} /\ rd'[o].got = [rd[o].got EXCEPT ![r] = a]
      /\ rd'[o].best = b /\ rd'[o].pc = rd[o].pc
      /\ rd'[o].stale = rd[o].stale /\ rd'[o].acked = rd[o].acked /\ rd'[o].ended = rd[o].ended
      /\ \A x \in Reads : x # o => rd'[x] = rd[x]
  BY <1>1, <1>5 DEF ReadState
<1>7. rd' \in [Reads -> ReadState]
  <2> DEFINE f == [rd EXCEPT ![o].todo = @ \ {r}]
             g == [f EXCEPT ![o].got[r] = a]
  <2>1. f \in [Reads -> ReadState]
    <3>1. rd[o].todo \ {r} \in SUBSET Replicas BY <1>1 DEF ReadState
    <3> QED BY <1>1, <3>1 DEF ReadState
  <2>2. rd' = [g EXCEPT ![o].best = b] BY <1>5
  <2> HIDE DEF f
  <2>3. g \in [Reads -> ReadState]
    <3> DEFINE h == [f[o].got EXCEPT ![r] = a]
               x == [f[o] EXCEPT !.got = h]
    <3>1. h \in [Replicas -> Entries \cup {None}] BY <1>2, <2>1 DEF ReadState
    <3>2. g = [f EXCEPT ![o] = x] BY <2>1
    <3>3. x \in ReadState
      <4> HIDE DEF h
      <4> QED BY <2>1, <3>1 DEF ReadState
    <3> HIDE DEF x, g
    <3> QED BY <2>1, <3>2, <3>3
  <2> HIDE DEF g
  <2> QED BY <1>3, <2>2, <2>3 DEF ReadState
<1> QED BY <1>4, <1>6, <1>7 DEF OnlyRead, a, b

LEMMA FinishReadDoes ==
  ASSUME TypeOK, NEW o \in Reads, FinishRead(o)
  PROVE  /\ rd[o].pc = "get" /\ rd[o].todo = {} /\ OnlyRead(o) /\ replica' = replica
         /\ raced' = raced /\ rd' \in [Reads -> ReadState]
         /\ rd'[o].pc = IF Cardinality(Responses(o)) < R THEN "failed" ELSE "returned"
         /\ rd'[o].stale = IF Cardinality(Responses(o)) < R THEN rd[o].stale ELSE Lagging(o)
         /\ rd'[o].todo = rd[o].todo /\ rd'[o].got = rd[o].got /\ rd'[o].best = rd[o].best
         /\ rd'[o].acked = rd[o].acked /\ rd'[o].ended = rd[o].ended
<1> DEFINE l == Lagging(o)
           short == Cardinality(Responses(o)) < R
<1>1. rd \in [Reads -> ReadState] BY DEF TypeOK, ReadState
<1>2. l \in SUBSET Replicas BY DEF Lagging, Responses
<1>3. /\ rd[o].pc = "get" /\ rd[o].todo = {} /\ UNCHANGED <<replica, up, downs, ups, now, wr, raced>>
      /\ rd' = IF short THEN [rd EXCEPT ![o].pc = "failed"]
               ELSE [rd EXCEPT ![o].pc = "returned", ![o].stale = l]
  BY DEF FinishRead
<1> HIDE DEF l, short
<1>4. CASE short
  <2>1. rd' = [rd EXCEPT ![o].pc = "failed"] BY <1>3, <1>4
  <2>2. /\ rd'[o].pc = "failed" /\ rd'[o].stale = rd[o].stale
        /\ rd'[o].todo = rd[o].todo /\ rd'[o].got = rd[o].got /\ rd'[o].best = rd[o].best
        /\ rd'[o].acked = rd[o].acked /\ rd'[o].ended = rd[o].ended
        /\ \A x \in Reads : x # o => rd'[x] = rd[x]
    BY <1>1, <2>1 DEF ReadState
  <2>3. rd' \in [Reads -> ReadState] BY <1>1, <2>1 DEF ReadState
  <2> QED BY <1>3, <1>4, <2>2, <2>3 DEF OnlyRead, short, l
<1>5. CASE ~short
  <2>1. rd' = [rd EXCEPT ![o].pc = "returned", ![o].stale = l] BY <1>3, <1>5
  <2>2. /\ rd'[o].pc = "returned" /\ rd'[o].stale = l
        /\ rd'[o].todo = rd[o].todo /\ rd'[o].got = rd[o].got /\ rd'[o].best = rd[o].best
        /\ rd'[o].acked = rd[o].acked /\ rd'[o].ended = rd[o].ended
        /\ \A x \in Reads : x # o => rd'[x] = rd[x]
    BY <1>1, <2>1 DEF ReadState
  <2> DEFINE f == [rd EXCEPT ![o].pc = "returned"]
  <2>3. f \in [Reads -> ReadState] BY <1>1 DEF ReadState
  <2>4. rd' = [f EXCEPT ![o].stale = l] BY <2>1
  <2> HIDE DEF f
  <2>5. rd' \in [Reads -> ReadState] BY <1>2, <2>3, <2>4 DEF ReadState
  <2> QED BY <1>3, <1>5, <2>2, <2>5 DEF OnlyRead, short, l
<1> QED BY <1>4, <1>5

LEMMA RepairReplicaDoes ==
  ASSUME TypeOK, NEW o \in Reads, NEW r \in Replicas, RepairReplica(o, r)
  PROVE  /\ rd[o].pc = "returned" /\ OnlyRead(o) /\ rd' \in [Reads -> ReadState]
         /\ r \in rd[o].stale /\ rd'[o].stale = rd[o].stale \ {r}
         /\ replica' = IF r \in up THEN [replica EXCEPT ![r] = rd[o].best] ELSE replica
         /\ raced' = (raced \/ (r \in up /\ replica[r] # rd[o].got[r]))
         /\ rd'[o].pc = rd[o].pc /\ rd'[o].todo = rd[o].todo /\ rd'[o].got = rd[o].got
         /\ rd'[o].best = rd[o].best /\ rd'[o].acked = rd[o].acked /\ rd'[o].ended = rd[o].ended
<1>1. rd \in [Reads -> ReadState] BY DEF TypeOK, ReadState
<1>2. /\ rd[o].pc = "returned" /\ r \in rd[o].stale /\ UNCHANGED <<up, downs, ups, now, wr>>
      /\ rd' = [rd EXCEPT ![o].stale = @ \ {r}]
  BY DEF RepairReplica
<1>3. replica' = IF r \in up THEN [replica EXCEPT ![r] = rd[o].best] ELSE replica
  BY DEF RepairReplica, Put
<1>4. raced' = (raced \/ (r \in up /\ replica[r] # rd[o].got[r])) BY DEF RepairReplica
<1>5. /\ rd'[o].stale = rd[o].stale \ {r}
      /\ rd'[o].pc = rd[o].pc /\ rd'[o].todo = rd[o].todo /\ rd'[o].got = rd[o].got
      /\ rd'[o].best = rd[o].best /\ rd'[o].acked = rd[o].acked /\ rd'[o].ended = rd[o].ended
      /\ \A x \in Reads : x # o => rd'[x] = rd[x]
  BY <1>1, <1>2 DEF ReadState
<1>6. rd[o].stale \ {r} \in SUBSET Replicas BY <1>1 DEF ReadState
<1>7. rd' \in [Reads -> ReadState]
  <2> DEFINE q == rd[o].stale \ {r}
  <2>1. rd' = [rd EXCEPT ![o].stale = q] BY <1>2
  <2> HIDE DEF q
  <2>2. q \in SUBSET Replicas BY <1>6 DEF q
  <2> QED BY <1>1, <2>1, <2>2 DEF ReadState
<1> QED BY <1>2, <1>3, <1>4, <1>5, <1>7 DEF OnlyRead

-----------------------------------------------------------------------------
(* The inductive invariant: what is known of a write and of a read at each   *)
(* of their points, and that every entry is the version of a write whose     *)
(* clock is fixed.                                                           *)

Fixed == {"put", "ok", "failed"}

Sound(e) == e = None \/ (e.op \in Writes /\ wr[e.op].pc \in Fixed /\ e = Version(e.op))

WriteOK(o) ==
  /\ wr[o].pc = "idle" => wr[o].base = Zero /\ wr[o].after = {} /\ wr[o].i = 1
  /\ wr[o].pc \in {"idle", "clock"} => wr[o].acked = {}
  /\ wr[o].pc # "put" => wr[o].todo = {}
  /\ wr[o].pc \in Fixed => wr[o].i = N + 1
  /\ wr[o].pc # "idle" => 0 < wr[o].ts /\ wr[o].ts <= now
  /\ o \notin wr[o].after
  /\ \A v \in wr[o].after : v \in Ended /\ wr[v].ts < wr[o].ts
  /\ wr[o].pc = "ok" => Cardinality(wr[o].acked) >= W

ReadOK(o) ==
  /\ rd[o].pc = "idle" => \A r \in Replicas : rd[o].got[r] = None
  /\ \A r \in rd[o].todo : rd[o].got[r] = None
  /\ \A r \in Replicas : Sound(rd[o].got[r])
  /\ \/ rd[o].best = None /\ Responses(o) = {}
     \/ \E r \in Responses(o) : rd[o].best = rd[o].got[r]
  /\ rd[o].pc # "returned" => rd[o].stale = {}
  /\ rd[o].stale \subseteq Lagging(o)
  /\ rd[o].acked \subseteq Acked /\ rd[o].ended \subseteq Ended
  /\ rd[o].pc = "returned" => Cardinality(Responses(o)) >= R

IInv ==
  /\ TypeOK
  /\ \A o \in Writes : WriteOK(o)
  /\ \A o \in Reads : ReadOK(o)
  /\ \A r \in Replicas : Sound(replica[r])

LEMMA TypesExpanded ==
  ASSUME TypeOK
  PROVE  /\ wr \in [Writes -> WriteState] /\ rd \in [Reads -> ReadState]
         /\ replica \in [Replicas -> Entries \cup {None}] /\ up \in SUBSET Replicas
         /\ now \in Nat /\ downs \in Nat /\ ups \in Nat /\ raced \in BOOLEAN
         /\ \A o \in Writes : wr[o] \in WriteState
         /\ \A o \in Reads : rd[o] \in ReadState
<1>1. /\ wr \in [Writes -> WriteState] /\ rd \in [Reads -> ReadState]
      /\ replica \in [Replicas -> Entries \cup {None}] /\ up \in SUBSET Replicas
      /\ now \in Nat /\ raced \in BOOLEAN
  BY DEF TypeOK, WriteState, ReadState
<1>2. downs \in Nat /\ ups \in Nat BY QuorumAssumption DEF TypeOK
<1> QED BY <1>1, <1>2

\* A version whose write has a timestamp is an entry, and no replica's "nothing".
LEMMA VersionIsEntry ==
  ASSUME TypeOK, NEW o \in Writes
  PROVE  /\ Version(o) \in Entries /\ Version(o).op = o /\ Version(o).ts = wr[o].ts
         /\ Version(o).clock = Increment(wr[o].base, writerOf[o]) /\ Version(o).clock \in Clock
         /\ 0 < wr[o].ts => Version(o) # None
<1>1. wr[o].base \in Clock /\ wr[o].ts \in Nat BY TypesExpanded DEF WriteState
<1>2. Increment(wr[o].base, writerOf[o]) \in Clock BY <1>1, Incrementing, QuorumAssumption
<1> HIDE DEF Clock, Increment
<1>3. /\ Version(o) \in Entries /\ Version(o).op = o /\ Version(o).ts = wr[o].ts
      /\ Version(o).clock = Increment(wr[o].base, writerOf[o])
  BY <1>1, <1>2 DEF Version, Entries
<1>4. None.ts = 0 BY DEF None
<1> QED BY <1>1, <1>2, <1>3, <1>4

\* What is decided about a write stays decided.
Moves ==
  /\ now <= now' /\ Ended \subseteq Ended' /\ Acked \subseteq Acked'
  /\ \A w \in Writes : wr[w].pc # "idle" =>
       wr'[w].pc # "idle" /\ wr'[w].ts = wr[w].ts /\ wr'[w].after = wr[w].after
  /\ \A w \in Writes : wr[w].pc \in Fixed => wr'[w].pc \in Fixed /\ wr'[w].base = wr[w].base
  /\ \A w \in Writes : wr'[w].pc \in {"idle", "clock"} => wr[w].pc \in {"idle", "clock"}

LEMMA WriteMoves ==
  ASSUME TypeOK, NEW o \in Writes, OnlyWrite(o),
         now' = now \/ now' = now + 1,
         wr'[o].pc # "idle",
         wr[o].pc # "idle" => wr'[o].ts = wr[o].ts /\ wr'[o].after = wr[o].after,
         wr[o].pc \in Fixed => wr'[o].pc \in Fixed /\ wr'[o].base = wr[o].base,
         wr[o].pc \in {"ok", "failed"} => wr'[o].pc = wr[o].pc
  PROVE  Moves
<1>1. now <= now' BY TypesExpanded
<1>2. Ended \subseteq Ended' /\ Acked \subseteq Acked' BY DEF Ended, Acked, OnlyWrite
<1>3. wr'[o].pc \in {"idle", "clock"} => wr[o].pc \notin Fixed BY DEF Fixed
<1>4. wr[o].pc \notin Fixed => wr[o].pc \in {"idle", "clock"} BY TypesExpanded DEF WriteState, Fixed
<1> QED BY <1>1, <1>2, <1>3, <1>4 DEF Moves, OnlyWrite

LEMMA StillMoves == ASSUME TypeOK, wr' = wr, now' = now PROVE Moves
BY TypesExpanded DEF Moves, Ended, Acked

LEMMA SoundStays ==
  ASSUME Moves, NEW e, Sound(e)
  PROVE  e = None \/ (e.op \in Writes /\ wr'[e.op].pc \in Fixed /\ e = Version(e.op)')
<1>1. ASSUME NEW w \in Writes, wr[w].pc \in Fixed
      PROVE  wr'[w].pc \in Fixed /\ Version(w)' = Version(w)
  <2>1. wr[w].pc # "idle" BY <1>1 DEF Fixed
  <2>2. wr'[w].pc \in Fixed /\ wr'[w].base = wr[w].base /\ wr'[w].ts = wr[w].ts
    BY <1>1, <2>1 DEF Moves
  <2> QED BY <2>2 DEF Version
<1> QED BY <1>1 DEF Sound

LEMMA WriteKeeps ==
  ASSUME TypeOK, TypeOK', Moves, NEW o \in Writes, wr'[o] = wr[o], WriteOK(o)
  PROVE  WriteOK(o)'
<1>1. now \in Nat /\ now' \in Nat /\ wr[o].ts \in Nat
  BY TypesExpanded DEF TypeOK, WriteState
<1>2. \A v \in wr[o].after : v \in Ended' /\ wr'[v].ts = wr[v].ts
  BY DEF Moves, WriteOK, Ended
<1>3. wr[o].pc # "idle" => 0 < wr[o].ts /\ wr[o].ts <= now' BY <1>1 DEF WriteOK, Moves
<1>4. wr[o].pc = "ok" => Cardinality(wr[o].acked) >= W BY DEF WriteOK
<1> QED BY <1>2, <1>3, <1>4 DEF WriteOK

LEMMA ReadKeeps ==
  ASSUME Moves, NEW o \in Reads, rd'[o] = rd[o], ReadOK(o)
  PROVE  ReadOK(o)'
<1>1. Responses(o)' = Responses(o) /\ Lagging(o)' = Lagging(o) BY DEF Responses, Lagging
<1>2. \A r \in Replicas : Sound(rd[o].got[r])'
  BY SoundStays DEF ReadOK, Sound
<1>3. rd[o].acked \subseteq Acked' /\ rd[o].ended \subseteq Ended' BY DEF Moves, ReadOK
<1> QED BY <1>1, <1>2, <1>3 DEF ReadOK

-----------------------------------------------------------------------------
(* The invariant, action by action.                                          *)

LEMMA TypesFolded ==
  ASSUME wr' \in [Writes -> WriteState], rd' \in [Reads -> ReadState],
         replica' \in [Replicas -> Entries \cup {None}], up' \subseteq Replicas,
         downs' \in 0 .. MaxDowns, ups' \in 0 .. MaxUps, now' \in Nat, raced' \in BOOLEAN,
         \A o \in Writes : wr'[o].pc = "clock" => wr'[o].i <= N
  PROVE  TypeOK'
BY DEF TypeOK, WriteState, ReadState, N

\* A step of a write keeps the invariant if it keeps what is known of that write.
LEMMA WriteStepKeeps ==
  ASSUME IInv, NEW o \in Writes, OnlyWrite(o), Moves,
         wr' \in [Writes -> WriteState], now' = now \/ now' = now + 1,
         replica' \in [Replicas -> Entries \cup {None}],
         wr'[o].pc = "clock" => wr'[o].i <= N,
         \A r \in Replicas : Sound(replica'[r]),
         TypeOK' => WriteOK(o)'
  PROVE  IInv'
<1>1. TypeOK BY DEF IInv
<1>2. TypeOK'
  <2>1. now' \in Nat BY <1>1, TypesExpanded
  <2>2. \A x \in Writes : wr'[x].pc = "clock" => wr'[x].i <= N
    BY <1>1 DEF TypeOK, OnlyWrite
  <2>3. /\ rd' \in [Reads -> ReadState] /\ up' \subseteq Replicas /\ raced' \in BOOLEAN
    BY <1>1, TypesExpanded DEF OnlyWrite
  <2>4. downs' \in 0 .. MaxDowns /\ ups' \in 0 .. MaxUps BY <1>1 DEF TypeOK, OnlyWrite
  <2> QED BY <2>1, <2>2, <2>3, <2>4, TypesFolded
<1>3. \A x \in Writes : WriteOK(x)'
  <2> SUFFICES ASSUME NEW x \in Writes, x # o PROVE WriteOK(x)' BY <1>2
  <2> QED BY <1>1, <1>2, WriteKeeps DEF OnlyWrite, IInv
<1>4. \A x \in Reads : ReadOK(x)'
  <2> SUFFICES ASSUME NEW x \in Reads PROVE ReadOK(x)' OBVIOUS
  <2> QED BY ReadKeeps DEF OnlyWrite, IInv
<1>5. \A r \in Replicas : Sound(replica[r])' BY SoundStays DEF Sound
<1> QED BY <1>2, <1>3, <1>4, <1>5 DEF IInv

LEMMA StartWriteInv == ASSUME IInv, NEW o \in Writes, StartWrite(o) PROVE IInv'
<1>1. TypeOK /\ WriteOK(o) BY DEF IInv
<1>2. /\ wr[o].pc = "idle" /\ OnlyWrite(o) /\ replica' = replica /\ now' = now + 1
      /\ wr' \in [Writes -> WriteState]
      /\ wr'[o].pc = "clock" /\ wr'[o].ts = now + 1 /\ wr'[o].after = Ended
      /\ wr'[o].i = wr[o].i /\ wr'[o].todo = wr[o].todo
      /\ wr'[o].acked = wr[o].acked
  BY <1>1, StartWriteDoes
<1>3. Moves BY <1>1, <1>2, WriteMoves DEF Fixed
<1>4. now \in Nat BY <1>1, TypesExpanded
<1>5. WriteOK(o)'
  <2>1. o \notin Ended BY <1>2 DEF Ended
  <2>2. \A v \in Ended : v \in Ended' /\ wr'[v].ts < wr'[o].ts
    <3> SUFFICES ASSUME NEW v \in Ended PROVE v \in Ended' /\ wr'[v].ts < wr'[o].ts OBVIOUS
    <3>1. v \in Writes /\ wr[v].pc # "idle" /\ v # o BY <2>1 DEF Ended
    <3>2. wr[v].ts <= now /\ wr'[v] = wr[v] /\ wr[v].ts \in Nat
      BY <1>1, <1>2, <3>1, TypesExpanded DEF IInv, WriteOK, OnlyWrite, WriteState
    <3> QED BY <1>2, <1>3, <1>4, <3>2 DEF Moves
  <2>3. wr'[o].acked = {} /\ wr'[o].todo = {} BY <1>1, <1>2 DEF WriteOK
  <2> QED BY <1>2, <1>4, <2>1, <2>2, <2>3 DEF WriteOK, Fixed
<1>6. wr[o].i <= N BY <1>1, <1>2, OrderLength DEF WriteOK
<1> QED BY <1>1, <1>2, <1>3, <1>5, <1>6, TypesExpanded, WriteStepKeeps DEF IInv

LEMMA ReadClockInv == ASSUME IInv, NEW o \in Writes, ReadClock(o) PROVE IInv'
<1>1. TypeOK /\ WriteOK(o) BY DEF IInv
<1>2. /\ wr[o].pc = "clock" /\ OnlyWrite(o) /\ replica' = replica /\ now' = now
      /\ wr' \in [Writes -> WriteState] /\ wr[o].i \in 1 .. N
      /\ wr'[o].pc = IF wr[o].i = N THEN "put" ELSE "clock"
      /\ wr'[o].i = wr[o].i + 1
      /\ wr'[o].todo = IF wr[o].i = N THEN Replicas ELSE {}
      /\ wr'[o].ts = wr[o].ts /\ wr'[o].after = wr[o].after /\ wr'[o].acked = wr[o].acked
  BY <1>1, ReadClockDoes
<1>3. Moves BY <1>1, <1>2, WriteMoves DEF Fixed
<1>4. WriteOK(o)'
  <2>1. \A v \in wr[o].after : v \in Ended' /\ wr'[v].ts < wr'[o].ts
    BY <1>1, <1>2, <1>3 DEF WriteOK, Moves, Ended
  <2>2. wr'[o].acked = {} /\ (wr'[o].pc # "put" => wr'[o].todo = {}) BY <1>1, <1>2 DEF WriteOK
  <2>3. 0 < wr'[o].ts /\ wr'[o].ts <= now' /\ o \notin wr'[o].after BY <1>1, <1>2 DEF WriteOK
  <2>4. wr'[o].pc \in Fixed => wr'[o].i = N + 1 BY <1>2 DEF Fixed
  <2> QED BY <1>2, <2>1, <2>2, <2>3, <2>4 DEF WriteOK
<1>5. wr'[o].pc = "clock" => wr'[o].i <= N BY <1>2, OrderLength
<1> QED BY <1>1, <1>2, <1>3, <1>4, <1>5, TypesExpanded, WriteStepKeeps DEF IInv

LEMMA PutReplicaInv ==
  ASSUME IInv, NEW o \in Writes, NEW r \in Replicas, PutReplica(o, r)
  PROVE  IInv'
<1>1. TypeOK /\ WriteOK(o) BY DEF IInv
<1>2. /\ OnlyWrite(o) /\ now' = now /\ wr' \in [Writes -> WriteState]
      /\ r \in wr[o].todo /\ wr'[o].todo = wr[o].todo \ {r}
      /\ replica' = IF r \in up THEN [replica EXCEPT ![r] = Version(o)] ELSE replica
      /\ wr'[o].pc = wr[o].pc /\ wr'[o].ts = wr[o].ts /\ wr'[o].base = wr[o].base
      /\ wr'[o].i = wr[o].i /\ wr'[o].after = wr[o].after
  BY <1>1, PutReplicaDoes
<1>3. wr[o].pc = "put" BY <1>1, <1>2 DEF WriteOK
<1>4. Moves BY <1>1, <1>2, <1>3, WriteMoves DEF Fixed
<1>5. WriteOK(o)'
  <2>1. \A v \in wr[o].after : v \in Ended' /\ wr'[v].ts < wr'[o].ts
    BY <1>1, <1>2, <1>4 DEF WriteOK, Moves, Ended
  <2>2. 0 < wr'[o].ts /\ wr'[o].ts <= now' /\ o \notin wr'[o].after
    BY <1>1, <1>2, <1>3 DEF WriteOK
  <2>3. wr'[o].i = N + 1 BY <1>1, <1>2, <1>3 DEF WriteOK, Fixed
  <2> QED BY <1>2, <1>3, <2>1, <2>2, <2>3 DEF WriteOK
<1>6. /\ replica' \in [Replicas -> Entries \cup {None}]
      /\ \A s \in Replicas : Sound(replica'[s])
  <2>1. Version(o) \in Entries /\ Sound(Version(o))
    BY <1>1, <1>3, VersionIsEntry DEF Sound, Fixed
  <2>2. replica \in [Replicas -> Entries \cup {None}] /\ \A s \in Replicas : Sound(replica[s])
    BY <1>1, TypesExpanded DEF IInv
  <2> HIDE DEF Sound
  <2> QED BY <1>2, <2>1, <2>2
<1> QED BY <1>2, <1>3, <1>4, <1>5, <1>6, WriteStepKeeps

LEMMA FinishWriteInv == ASSUME IInv, NEW o \in Writes, FinishWrite(o) PROVE IInv'
<1>1. TypeOK /\ WriteOK(o) BY DEF IInv
<1>2. /\ wr[o].pc = "put" /\ wr[o].todo = {} /\ OnlyWrite(o)
      /\ replica' = replica /\ now' = now /\ wr' \in [Writes -> WriteState]
      /\ wr'[o].pc = IF Cardinality(wr[o].acked) >= W THEN "ok" ELSE "failed"
      /\ wr'[o].todo = wr[o].todo /\ wr'[o].acked = wr[o].acked /\ wr'[o].ts = wr[o].ts
      /\ wr'[o].base = wr[o].base /\ wr'[o].i = wr[o].i /\ wr'[o].after = wr[o].after
  BY <1>1, FinishWriteDoes
<1>3. Moves BY <1>1, <1>2, WriteMoves DEF Fixed
<1>4. WriteOK(o)'
  <2>1. \A v \in wr[o].after : v \in Ended' /\ wr'[v].ts < wr'[o].ts
    BY <1>1, <1>2, <1>3 DEF WriteOK, Moves, Ended
  <2>2. 0 < wr'[o].ts /\ wr'[o].ts <= now' /\ o \notin wr'[o].after BY <1>1, <1>2 DEF WriteOK
  <2>3. wr'[o].i = N + 1 /\ wr'[o].todo = {} BY <1>1, <1>2 DEF WriteOK, Fixed
  <2>4. wr'[o].pc = "ok" => Cardinality(wr'[o].acked) >= W BY <1>2
  <2> QED BY <1>2, <2>1, <2>2, <2>3, <2>4 DEF WriteOK
<1> QED BY <1>1, <1>2, <1>3, <1>4, TypesExpanded, WriteStepKeeps DEF IInv

\* A step of a read keeps the invariant if it keeps what is known of that read.
LEMMA ReadStepKeeps ==
  ASSUME IInv, NEW o \in Reads, OnlyRead(o),
         rd' \in [Reads -> ReadState], raced' \in BOOLEAN,
         replica' \in [Replicas -> Entries \cup {None}],
         \A r \in Replicas : Sound(replica'[r]),
         Moves => ReadOK(o)'
  PROVE  IInv'
<1>1. TypeOK BY DEF IInv
<1>2. TypeOK'
  <2>1. /\ wr' \in [Writes -> WriteState] /\ up' \subseteq Replicas /\ now' \in Nat
    BY <1>1, TypesExpanded DEF OnlyRead
  <2>2. downs' \in 0 .. MaxDowns /\ ups' \in 0 .. MaxUps BY <1>1 DEF TypeOK, OnlyRead
  <2>3. \A x \in Writes : wr'[x].pc = "clock" => wr'[x].i <= N BY <1>1 DEF TypeOK, OnlyRead
  <2> QED BY <2>1, <2>2, <2>3, TypesFolded
<1>3. Moves BY <1>1, StillMoves DEF OnlyRead
<1>4. \A x \in Writes : WriteOK(x)'
  BY <1>1, <1>2, <1>3, WriteKeeps DEF OnlyRead, IInv
<1>5. \A x \in Reads : ReadOK(x)'
  <2> SUFFICES ASSUME NEW x \in Reads, x # o PROVE ReadOK(x)' BY <1>3
  <2> QED BY <1>3, ReadKeeps DEF OnlyRead, IInv
<1>6. \A r \in Replicas : Sound(replica[r])' BY <1>3, SoundStays DEF Sound
<1> QED BY <1>2, <1>4, <1>5, <1>6 DEF IInv

LEMMA StartReadInv == ASSUME IInv, NEW o \in Reads, StartRead(o) PROVE IInv'
<1>1. TypeOK /\ ReadOK(o) BY DEF IInv
<1>2. /\ rd[o].pc = "idle" /\ OnlyRead(o) /\ replica' = replica /\ raced' = raced
      /\ rd' \in [Reads -> ReadState] /\ rd'[o].pc = "get"
      /\ rd'[o].acked = Acked /\ rd'[o].ended = Ended
      /\ rd'[o].got = rd[o].got /\ rd'[o].best = rd[o].best /\ rd'[o].stale = rd[o].stale
  BY <1>1, StartReadDoes
<1>3. ASSUME Moves PROVE ReadOK(o)'
  <2>1. Responses(o)' = Responses(o) /\ Lagging(o)' = Lagging(o) BY <1>2 DEF Responses, Lagging
  <2>2. \A r \in Replicas : rd'[o].got[r] = None BY <1>1, <1>2 DEF ReadOK
  <2>3. \A r \in Replicas : Sound(rd[o].got[r])' BY <1>1, <1>2, <1>3, SoundStays DEF ReadOK, Sound
  <2>4. rd'[o].acked \subseteq Acked' /\ rd'[o].ended \subseteq Ended' BY <1>2, <1>3 DEF Moves
  <2>5. rd'[o].todo \in SUBSET Replicas BY <1>2 DEF ReadState
  <2> QED BY <1>1, <1>2, <2>1, <2>2, <2>3, <2>4, <2>5 DEF ReadOK
<1> QED BY <1>1, <1>2, <1>3, TypesExpanded, ReadStepKeeps DEF IInv

LEMMA GetReplicaInv ==
  ASSUME IInv, NEW o \in Reads, NEW r \in Replicas, GetReplica(o, r)
  PROVE  IInv'
<1>1. TypeOK /\ ReadOK(o) BY DEF IInv
<1>2. /\ rd[o].pc = "get" /\ OnlyRead(o) /\ replica' = replica /\ raced' = raced
      /\ rd' \in [Reads -> ReadState]
      /\ r \in rd[o].todo /\ rd'[o].todo = rd[o].todo \ {r} /\ rd'[o].pc = "get"
      /\ rd'[o].got = [rd[o].got EXCEPT ![r] = Answer(r)]
      /\ rd'[o].best = Better(rd[o].best, Answer(r))
      /\ rd'[o].stale = rd[o].stale /\ rd'[o].acked = rd[o].acked /\ rd'[o].ended = rd[o].ended
  BY <1>1, GetReplicaDoes
<1>3. rd[o].got \in [Replicas -> Entries \cup {None}] BY <1>1, TypesExpanded DEF ReadState
<1>4. rd[o].got[r] = None BY <1>1, <1>2 DEF ReadOK
<1>5. /\ rd'[o].got[r] = Answer(r)
      /\ \A s \in Replicas : s # r => rd'[o].got[s] = rd[o].got[s]
  BY <1>2, <1>3
<1>6. ASSUME Moves PROVE ReadOK(o)'
  <2>1. Sound(Answer(r)) BY DEF Answer, IInv, Sound
  <2>2. \A s \in Replicas : Sound(rd'[o].got[s]) BY <1>1, <1>5, <2>1 DEF ReadOK
  <2>3. \A s \in Replicas : Sound(rd[o].got[s])' BY <1>6, <2>2, SoundStays DEF Sound
  <2>4. rd[o].stale = {} BY <1>1, <1>2 DEF ReadOK
  <2>5. \/ rd'[o].best = None /\ Responses(o)' = {}
        \/ \E s \in Responses(o)' : rd'[o].best = rd'[o].got[s]
    <3>1. CASE Answer(r) = None
      <4>1. Responses(o)' = Responses(o) BY <1>4, <1>5, <3>1 DEF Responses
      <4>2. rd'[o].best = rd[o].best BY <1>2, <3>1 DEF Better
      <4>3. \A s \in Responses(o) : rd'[o].got[s] = rd[o].got[s]
        BY <1>4, <1>5 DEF Responses
      <4> QED BY <1>1, <4>1, <4>2, <4>3 DEF ReadOK
    <3>2. CASE Answer(r) # None
      <4>1. r \in Responses(o)' BY <1>5, <3>2 DEF Responses
      <4>2. CASE rd'[o].best = Answer(r) BY <1>5, <4>1, <4>2
      <4>3. CASE rd'[o].best # Answer(r)
        <5>1. rd[o].best # None /\ rd'[o].best = rd[o].best
          BY <1>2, <3>2, <4>3, Picking DEF Better
        <5>2. PICK s \in Responses(o) : rd[o].best = rd[o].got[s] BY <1>1, <5>1 DEF ReadOK
        <5>3. s \in Responses(o)' /\ rd'[o].got[s] = rd[o].got[s]
          BY <1>4, <1>5, <5>2 DEF Responses
        <5> QED BY <5>1, <5>2, <5>3
      <4> QED BY <4>2, <4>3
    <3> QED BY <3>1, <3>2
  <2>6. rd'[o].acked \subseteq Acked' /\ rd'[o].ended \subseteq Ended'
    BY <1>1, <1>2, <1>6 DEF ReadOK, Moves
  <2>7. \A s \in rd'[o].todo : rd'[o].got[s] = None
    <3>1. rd[o].todo \in SUBSET Replicas BY <1>1, TypesExpanded DEF ReadState
    <3> QED BY <1>1, <1>2, <1>5, <3>1 DEF ReadOK
  <2> QED BY <1>2, <2>3, <2>4, <2>5, <2>6, <2>7 DEF ReadOK
<1> QED BY <1>1, <1>2, <1>6, TypesExpanded, ReadStepKeeps DEF IInv

LEMMA FinishReadInv == ASSUME IInv, NEW o \in Reads, FinishRead(o) PROVE IInv'
<1>1. TypeOK /\ ReadOK(o) BY DEF IInv
<1> DEFINE short == Cardinality(Responses(o)) < R
<1>2. /\ rd[o].pc = "get" /\ rd[o].todo = {} /\ OnlyRead(o) /\ replica' = replica
      /\ raced' = raced /\ rd' \in [Reads -> ReadState]
      /\ rd'[o].pc = IF short THEN "failed" ELSE "returned"
      /\ rd'[o].stale = IF short THEN rd[o].stale ELSE Lagging(o)
      /\ rd'[o].todo = rd[o].todo /\ rd'[o].got = rd[o].got /\ rd'[o].best = rd[o].best
      /\ rd'[o].acked = rd[o].acked /\ rd'[o].ended = rd[o].ended
  BY <1>1, FinishReadDoes
<1>3. ASSUME Moves PROVE ReadOK(o)'
  <2>1. Responses(o)' = Responses(o) /\ Lagging(o)' = Lagging(o) BY <1>2 DEF Responses, Lagging
  <2>2. \A r \in Replicas : Sound(rd[o].got[r])' BY <1>1, <1>2, <1>3, SoundStays DEF ReadOK, Sound
  <2>3. rd'[o].acked \subseteq Acked' /\ rd'[o].ended \subseteq Ended'
    BY <1>1, <1>2, <1>3 DEF ReadOK, Moves
  <2>4. rd[o].stale = {} BY <1>1, <1>2 DEF ReadOK
  <2>5. ~short => Cardinality(Responses(o)) >= R
    BY ReplicasFinite, FS_Subset, FS_CardinalityType, QuorumAssumption DEF Responses
  <2>6. rd'[o].pc = "returned" => Cardinality(Responses(o)') >= R BY <1>2, <2>1, <2>5
  <2>7. rd'[o].stale \subseteq Lagging(o)' /\ (rd'[o].pc # "returned" => rd'[o].stale = {})
    BY <1>2, <2>1, <2>4
  <2> HIDE DEF short
  <2>8. rd'[o].pc # "idle" BY <1>2
  <2> QED BY <1>1, <1>2, <2>1, <2>2, <2>3, <2>6, <2>7, <2>8 DEF ReadOK
<1> QED BY <1>1, <1>2, <1>3, TypesExpanded, ReadStepKeeps DEF IInv

LEMMA RepairReplicaInv ==
  ASSUME IInv, NEW o \in Reads, NEW r \in Replicas, RepairReplica(o, r)
  PROVE  IInv'
<1>1. TypeOK /\ ReadOK(o) BY DEF IInv
<1>2. /\ rd[o].pc = "returned" /\ OnlyRead(o) /\ rd' \in [Reads -> ReadState]
      /\ r \in rd[o].stale /\ rd'[o].stale = rd[o].stale \ {r}
      /\ replica' = IF r \in up THEN [replica EXCEPT ![r] = rd[o].best] ELSE replica
      /\ raced' = (raced \/ (r \in up /\ replica[r] # rd[o].got[r]))
      /\ rd'[o].pc = rd[o].pc /\ rd'[o].todo = rd[o].todo /\ rd'[o].got = rd[o].got
      /\ rd'[o].best = rd[o].best /\ rd'[o].acked = rd[o].acked /\ rd'[o].ended = rd[o].ended
  BY <1>1, RepairReplicaDoes
<1>3. ASSUME Moves PROVE ReadOK(o)'
  <2>1. Responses(o)' = Responses(o) /\ Lagging(o)' = Lagging(o) BY <1>2 DEF Responses, Lagging
  <2>2. \A s \in Replicas : Sound(rd[o].got[s])' BY <1>1, <1>2, <1>3, SoundStays DEF ReadOK, Sound
  <2>3. rd'[o].acked \subseteq Acked' /\ rd'[o].ended \subseteq Ended'
    BY <1>1, <1>2, <1>3 DEF ReadOK, Moves
  <2>4. rd'[o].stale \subseteq Lagging(o)' BY <1>1, <1>2, <2>1 DEF ReadOK
  <2> QED BY <1>1, <1>2, <2>1, <2>2, <2>3, <2>4 DEF ReadOK
<1>4. rd[o].best \in Entries \cup {None} /\ Sound(rd[o].best)
  <2>1. rd[o].best \in Entries \cup {None} BY <1>1, TypesExpanded DEF ReadState
  <2> QED BY <1>1, <2>1 DEF ReadOK, Sound, Responses
<1>5. /\ replica' \in [Replicas -> Entries \cup {None}]
      /\ \A s \in Replicas : Sound(replica'[s])
  <2>1. replica \in [Replicas -> Entries \cup {None}] /\ \A s \in Replicas : Sound(replica[s])
    BY <1>1, TypesExpanded DEF IInv
  <2> HIDE DEF Sound
  <2> QED BY <1>2, <1>4, <2>1
<1>6. raced' \in BOOLEAN BY <1>2
<1> QED BY <1>2, <1>3, <1>5, <1>6, ReadStepKeeps

\* A replica that goes or comes back, or nothing at all.
LEMMA OutageInv ==
  ASSUME IInv, (\E r \in Replicas : Fail(r) \/ Return(r)) \/ UNCHANGED vars
  PROVE  IInv'
<1>1. TypeOK BY DEF IInv
<1>2. UNCHANGED <<replica, now, wr, rd, raced>> BY DEF Fail, Return, vars
<1>3. up' \in SUBSET Replicas /\ downs' \in 0 .. MaxDowns /\ ups' \in 0 .. MaxUps
  <2>1. /\ up \in SUBSET Replicas /\ downs \in 0 .. MaxDowns /\ ups \in 0 .. MaxUps
        /\ MaxDowns \in Nat /\ MaxUps \in Nat
    BY <1>1, QuorumAssumption DEF TypeOK
  <2>2. CASE UNCHANGED vars BY <2>1, <2>2 DEF vars
  <2>3. ASSUME NEW r \in Replicas, Fail(r)
        PROVE  up' \in SUBSET Replicas /\ downs' \in 0 .. MaxDowns /\ ups' \in 0 .. MaxUps
    BY <2>1, <2>3 DEF Fail
  <2>4. ASSUME NEW r \in Replicas, Return(r)
        PROVE  up' \in SUBSET Replicas /\ downs' \in 0 .. MaxDowns /\ ups' \in 0 .. MaxUps
    BY <2>1, <2>4 DEF Return
  <2> QED BY <2>2, <2>3, <2>4
<1>4. TypeOK' BY <1>1, <1>2, <1>3 DEF TypeOK
<1>5. Moves BY <1>1, <1>2, StillMoves
<1>6. \A x \in Writes : WriteOK(x)' BY <1>1, <1>2, <1>4, <1>5, WriteKeeps DEF IInv
<1>7. \A x \in Reads : ReadOK(x)' BY <1>2, <1>5, ReadKeeps DEF IInv
<1>8. \A r \in Replicas : Sound(replica[r])' BY <1>2, <1>5, SoundStays DEF Sound, IInv
<1> QED BY <1>4, <1>6, <1>7, <1>8 DEF IInv

LEMMA InitInv == Init => IInv
<1> SUFFICES ASSUME Init PROVE IInv OBVIOUS
<1>1. N \in Nat /\ 1 \in 1 .. N + 1 BY OrderLength
<1>2. Zero \in Clock BY ZeroLeast
<1>3. wr \in [Writes -> WriteState] BY <1>1, <1>2 DEF Init, WriteState
<1>4. rd \in [Reads -> ReadState] BY DEF Init, ReadState
<1>5. replica \in [Replicas -> Entries \cup {None}] /\ up \subseteq Replicas BY DEF Init
<1>6. /\ downs \in 0 .. MaxDowns /\ ups \in 0 .. MaxUps /\ now \in Nat /\ raced \in BOOLEAN
  <2>1. downs = 0 /\ ups = 0 /\ now = 0 BY DEF Init
  <2>2. MaxDowns \in Nat /\ MaxUps \in Nat BY QuorumAssumption
  <2>3. downs \in 0 .. MaxDowns /\ ups \in 0 .. MaxUps /\ now \in Nat BY <2>1, <2>2
  <2>4. raced \in BOOLEAN BY DEF Init
  <2> QED BY <2>3, <2>4
<1>7. \A o \in Writes : wr[o].pc = "clock" => wr[o].i <= N BY DEF Init
<1>8. TypeOK BY <1>3, <1>4, <1>5, <1>6, <1>7 DEF TypeOK, WriteState, ReadState
<1>9. \A o \in Writes : WriteOK(o) BY DEF Init, WriteOK, Fixed
<1>10. \A o \in Reads : ReadOK(o) BY DEF Init, ReadOK, Responses, Sound
<1>11. \A r \in Replicas : Sound(replica[r]) BY DEF Init, Sound
<1> QED BY <1>8, <1>9, <1>10, <1>11 DEF IInv

LEMMA Inductive == IInv /\ [Next]_vars => IInv'
<1> SUFFICES ASSUME IInv, [Next]_vars PROVE IInv' OBVIOUS
<1> USE StartWriteInv, ReadClockInv, PutReplicaInv, FinishWriteInv, StartReadInv, GetReplicaInv,
        FinishReadInv, RepairReplicaInv, OutageInv
<1>1. CASE \E o \in Writes : WriteStep(o) BY <1>1 DEF WriteStep
<1>2. CASE \E o \in Reads : ReadStep(o) BY <1>2 DEF ReadStep
<1>3. CASE (\E r \in Replicas : Fail(r) \/ Return(r)) \/ UNCHANGED vars BY <1>3
<1> QED BY <1>1, <1>2, <1>3 DEF Next

LEMMA Invariant == Spec => []IInv
BY InitInv, Inductive, PTL DEF Spec

-----------------------------------------------------------------------------
\* Whatever replicas fail, come back and answer in whatever order, operations and
\* entries stay well formed; readMergedClock never reads past the last replica.
THEOREM TypeCorrect == Spec => []TypeOK
<1>1. IInv => TypeOK BY DEF IInv
<1> QED BY <1>1, Invariant, PTL

-----------------------------------------------------------------------------
(* RepairConverges.  While no write runs that had not ended when a read       *)
(* began, entries change only by repairs, and a repair that does not race    *)
(* replaces an entry by a later one: what a replica answered, and what it    *)
(* was repaired to, is a lower bound of what it holds.                       *)

Quiet(o) == \A w \in Writes : wr[w].pc = "idle" \/ w \in rd[o].ended
Rose(o) == \A r \in Responses(o) : LE(rd[o].got[r].clock, replica[r].clock)
Mended(o) ==
  rd[o].pc = "returned" /\ ups = 0 =>
    \A r \in Lagging(o) \cap up : r \in rd[o].stale \/ LE(rd[o].best.clock, replica[r].clock)

Repaired(o) == ~raced /\ rd[o].pc # "idle" /\ Quiet(o) => Rose(o) /\ Mended(o)

LEMMA EntryClock ==
  ASSUME TypeOK
  PROVE  /\ \A e \in Entries \cup {None} : e.clock \in Clock
         /\ \A r \in Replicas : replica[r] \in Entries \cup {None} /\ replica[r].clock \in Clock
         /\ \A o \in Reads : rd[o].best \in Entries \cup {None} /\ rd[o].best.clock \in Clock
         /\ \A o \in Reads, r \in Replicas :
              rd[o].got[r] \in Entries \cup {None} /\ rd[o].got[r].clock \in Clock
<1>1. \A e \in Entries \cup {None} : e.clock \in Clock BY ZeroLeast DEF Entries, None
<1>2. \A r \in Replicas : replica[r] \in Entries \cup {None} BY TypesExpanded
<1>3. \A o \in Reads : rd[o].best \in Entries \cup {None} BY TypesExpanded DEF ReadState
<1>4. \A o \in Reads, r \in Replicas : rd[o].got[r] \in Entries \cup {None}
  BY TypesExpanded DEF ReadState
<1> QED BY <1>1, <1>2, <1>3, <1>4

LEMMA EntryClockNext == ASSUME TypeOK' PROVE \A r \in Replicas : replica'[r].clock \in Clock
<1>1. \A e \in Entries \cup {None} : e.clock \in Clock BY ZeroLeast DEF Entries, None
<1>2. \A r \in Replicas : replica'[r] \in Entries \cup {None} BY DEF TypeOK
<1> QED BY <1>1, <1>2

\* Whom a read found behind its result.
LEMMA LaggingBehind ==
  ASSUME NEW o \in Reads, NEW r \in Lagging(o)
  PROVE  /\ r \in Replicas /\ rd[o].got[r] # None
         /\ LE(rd[o].got[r].clock, rd[o].best.clock) /\ ~LE(rd[o].best.clock, rd[o].got[r].clock)
BY Comparing DEF Lagging, Responses

Rises == \A r \in Replicas : LE(replica[r].clock, replica'[r].clock)

LEMMA SameRises == ASSUME TypeOK, replica' = replica PROVE Rises
BY EntryClock, ZeroLeast DEF Rises

LEMMA RepairRises ==
  ASSUME IInv, NEW o \in Reads, NEW r \in Replicas, RepairReplica(o, r), ~raced'
  PROVE  Rises
<1>1. TypeOK /\ ReadOK(o) BY DEF IInv
<1>2. /\ r \in rd[o].stale
      /\ replica' = IF r \in up THEN [replica EXCEPT ![r] = rd[o].best] ELSE replica
      /\ raced' = (raced \/ (r \in up /\ replica[r] # rd[o].got[r]))
  BY <1>1, RepairReplicaDoes
<1>3. CASE r \notin up BY <1>1, <1>2, <1>3, SameRises
<1>4. CASE r \in up
  <2>1. replica[r] = rd[o].got[r] BY <1>2, <1>4
  <2>2. LE(replica[r].clock, rd[o].best.clock) BY <1>1, <1>2, <2>1, LaggingBehind DEF ReadOK
  <2>3. replica' = [replica EXCEPT ![r] = rd[o].best] BY <1>2, <1>4
  <2>4. \A s \in Replicas : LE(replica[s].clock, replica[s].clock) BY <1>1, EntryClock, ZeroLeast
  <2> QED BY <1>1, <2>2, <2>3, <2>4, TypesExpanded DEF Rises
<1> QED BY <1>3, <1>4

\* Entries that only rise keep what is known of a read that stands still.
LEMMA RepairedStays ==
  ASSUME IInv, IInv', NEW o \in Reads, Repaired(o), rd'[o] = rd[o], wr' = wr, Rises,
         raced => raced', ups' # 0 \/ (ups = 0 /\ up' \subseteq up)
  PROVE  Repaired(o)'
<1> SUFFICES ASSUME ~raced', rd'[o].pc # "idle", Quiet(o)' PROVE Rose(o)' /\ Mended(o)'
  BY DEF Repaired
<1>1. TypeOK /\ TypeOK' BY DEF IInv
<1>2. Rose(o) /\ Mended(o) BY DEF Repaired, Quiet
<1>3. Responses(o)' = Responses(o) /\ Lagging(o)' = Lagging(o) /\ Responses(o) \subseteq Replicas
      /\ Lagging(o) \subseteq Responses(o)
  BY DEF Responses, Lagging
<1>4. \A r \in Replicas : replica[r].clock \in Clock /\ replica'[r].clock \in Clock
                          /\ LE(replica[r].clock, replica'[r].clock)
  BY <1>1, EntryClock, EntryClockNext DEF Rises
<1>5. rd[o].best.clock \in Clock /\ \A r \in Replicas : rd[o].got[r].clock \in Clock
  BY <1>1, EntryClock
<1>6. Rose(o)' BY <1>2, <1>3, <1>4, <1>5, LETransitive DEF Rose
<1>7. Mended(o)' BY <1>2, <1>3, <1>4, <1>5, LETransitive DEF Mended
<1> QED BY <1>6, <1>7

\* A write that takes a step is none that had ended when a read began.
LEMMA WritesDisturb ==
  ASSUME IInv, IInv', NEW w \in Writes, WriteStep(w), NEW o \in Reads
  PROVE  ~Quiet(o)'
<1>1. TypeOK /\ WriteOK(w) BY DEF IInv
<1>2. wr[w].pc \notin {"ok", "failed"} /\ wr'[w].pc # "idle" /\ rd' = rd
  <2>1. CASE StartWrite(w) BY <1>1, <2>1, StartWriteDoes DEF OnlyWrite
  <2>2. CASE ReadClock(w) BY <1>1, <2>2, ReadClockDoes DEF OnlyWrite
  <2>3. CASE FinishWrite(w) BY <1>1, <2>3, FinishWriteDoes DEF OnlyWrite
  <2>4. ASSUME NEW r \in Replicas, PutReplica(w, r)
        PROVE  wr[w].pc \notin {"ok", "failed"} /\ wr'[w].pc # "idle" /\ rd' = rd
    <3>1. wr[w].todo # {} /\ wr'[w].pc = wr[w].pc /\ rd' = rd
      BY <1>1, <2>4, PutReplicaDoes DEF OnlyWrite
    <3> QED BY <1>1, <3>1 DEF WriteOK
  <2> QED BY <2>1, <2>2, <2>3, <2>4 DEF WriteStep
<1>3. w \notin rd'[o].ended BY <1>2 DEF IInv, ReadOK, Ended
<1> QED BY <1>2, <1>3 DEF Quiet

LEMMA RepairedNext ==
  ASSUME IInv, IInv', [Next]_vars, NEW o \in Reads, Repaired(o)
  PROVE  Repaired(o)'
<1>1. TypeOK /\ ReadOK(o) /\ ReadOK(o)' /\ TypeOK' BY DEF IInv
<1>2. CASE \E w \in Writes : WriteStep(w) BY <1>2, WritesDisturb DEF Repaired
<1>3. ASSUME NEW x \in Reads, StartRead(x) PROVE Repaired(o)'
  <2>1. OnlyRead(x) /\ replica' = replica /\ raced' = raced /\ rd'[x].got = rd[x].got
        /\ rd[x].pc = "idle" /\ rd'[x].pc = "get"
    BY <1>1, <1>3, StartReadDoes
  <2>2. CASE x = o
    <3>1. Responses(o)' = {} BY <1>1, <2>1, <2>2 DEF ReadOK, Responses
    <3> QED BY <2>1, <2>2, <3>1 DEF Repaired, Rose, Mended
  <2>3. CASE x # o
    <3>1. rd'[o] = rd[o] /\ wr' = wr /\ ups' = ups /\ up' = up BY <2>1, <2>3 DEF OnlyRead
    <3> QED BY <1>1, <2>1, <3>1, SameRises, RepairedStays
  <2> QED BY <2>2, <2>3
<1>4. ASSUME NEW x \in Reads, NEW r \in Replicas, GetReplica(x, r) PROVE Repaired(o)'
  <2>1. OnlyRead(x) /\ replica' = replica /\ raced' = raced /\ rd[x].pc = "get" /\ rd'[x].pc = "get"
        /\ rd'[x].got = [rd[x].got EXCEPT ![r] = Answer(r)] /\ rd'[x].ended = rd[x].ended
    BY <1>1, <1>4, GetReplicaDoes
  <2>2. CASE x = o
    <3> SUFFICES ASSUME ~raced', Quiet(o)' PROVE Rose(o)' BY <2>1, <2>2 DEF Repaired, Mended
    <3>1. Rose(o) BY <2>1, <2>2 DEF Repaired, Quiet, OnlyRead
    <3>2. rd[o].got \in [Replicas -> Entries \cup {None}]
      BY <1>1, TypesExpanded DEF ReadState
    <3>3. \A s \in Replicas : LE(replica[s].clock, replica[s].clock)
      BY <1>1, EntryClock, ZeroLeast
    <3> QED BY <2>1, <2>2, <3>1, <3>2, <3>3 DEF Rose, Responses, Answer
  <2>3. CASE x # o
    <3>1. rd'[o] = rd[o] /\ wr' = wr /\ ups' = ups /\ up' = up BY <2>1, <2>3 DEF OnlyRead
    <3> QED BY <1>1, <2>1, <3>1, SameRises, RepairedStays
  <2> QED BY <2>2, <2>3
<1>5. ASSUME NEW x \in Reads, FinishRead(x) PROVE Repaired(o)'
  <2>1. /\ OnlyRead(x) /\ replica' = replica /\ raced' = raced /\ rd[x].pc = "get"
        /\ rd'[x].pc \in {"failed", "returned"}
        /\ rd'[x].pc = "returned" => rd'[x].stale = Lagging(x)
        /\ rd'[x].got = rd[x].got /\ rd'[x].best = rd[x].best /\ rd'[x].ended = rd[x].ended
    BY <1>1, <1>5, FinishReadDoes
  <2>2. CASE x = o
    <3> SUFFICES ASSUME ~raced', Quiet(o)' PROVE Rose(o)' /\ Mended(o)'
      BY <2>2 DEF Repaired
    <3>1. Rose(o) BY <2>1, <2>2 DEF Repaired, Quiet, OnlyRead
    <3>2. Responses(o)' = Responses(o) /\ Lagging(o)' = Lagging(o)
      BY <2>1, <2>2 DEF Responses, Lagging
    <3>3. Rose(o)' BY <2>1, <2>2, <3>1, <3>2 DEF Rose
    <3>4. Mended(o)' BY <2>1, <2>2, <3>2 DEF Mended
    <3> QED BY <3>3, <3>4
  <2>3. CASE x # o
    <3>1. rd'[o] = rd[o] /\ wr' = wr /\ ups' = ups /\ up' = up BY <2>1, <2>3 DEF OnlyRead
    <3> QED BY <1>1, <2>1, <3>1, SameRises, RepairedStays
  <2> QED BY <2>2, <2>3
<1>6. ASSUME NEW x \in Reads, NEW r \in Replicas, RepairReplica(x, r) PROVE Repaired(o)'
  <2> SUFFICES ASSUME ~raced', Quiet(o)', rd'[o].pc # "idle" PROVE Repaired(o)'
    BY DEF Repaired
  <2>1. /\ OnlyRead(x) /\ rd[x].pc = "returned"
        /\ r \in rd[x].stale /\ rd'[x].stale = rd[x].stale \ {r}
        /\ replica' = IF r \in up THEN [replica EXCEPT ![r] = rd[x].best] ELSE replica
        /\ raced' = (raced \/ (r \in up /\ replica[r] # rd[x].got[r]))
        /\ rd'[x].pc = rd[x].pc /\ rd'[x].got = rd[x].got
        /\ rd'[x].best = rd[x].best /\ rd'[x].ended = rd[x].ended
    BY <1>1, <1>6, RepairReplicaDoes
  <2>2. Rises BY <1>6, RepairRises
  <2>3. CASE x = o
    <3>1. Rose(o) /\ Mended(o) BY <2>1, <2>3 DEF Repaired, Quiet, OnlyRead
    <3>2. Responses(o)' = Responses(o) /\ Lagging(o)' = Lagging(o) /\ Responses(o) \subseteq Replicas
          /\ Lagging(o) \subseteq Responses(o)
      BY <2>1, <2>3 DEF Responses, Lagging
    <3>3. \A s \in Replicas : replica[s].clock \in Clock /\ replica'[s].clock \in Clock
                              /\ LE(replica[s].clock, replica'[s].clock)
      BY <1>1, <2>2, EntryClock, EntryClockNext DEF Rises
    <3>4. rd[o].best.clock \in Clock /\ \A s \in Replicas : rd[o].got[s].clock \in Clock
      BY <1>1, EntryClock
    <3>5. Rose(o)' BY <2>1, <2>3, <3>1, <3>2, <3>3, <3>4, LETransitive DEF Rose
    <3>6. Mended(o)'
      <4> SUFFICES ASSUME ups = 0, NEW s \in Lagging(o), s \in up, s \notin rd[o].stale \ {r}
                   PROVE  LE(rd[o].best.clock, replica'[s].clock)
        BY <2>1, <2>3, <3>2 DEF Mended, OnlyRead
      <4>1. CASE s = r
        <5>1. replica'[s] = rd[o].best BY <1>1, <2>1, <2>3, <4>1, TypesExpanded
        <5> QED BY <3>4, <5>1, ZeroLeast
      <4>2. CASE s # r
        <5>1. LE(rd[o].best.clock, replica[s].clock) BY <2>1, <2>3, <3>1, <4>2 DEF Mended
        <5> QED BY <3>2, <3>3, <3>4, <5>1, LETransitive
      <4> QED BY <4>1, <4>2
    <3> QED BY <3>5, <3>6 DEF Repaired
  <2>4. CASE x # o
    <3>1. rd'[o] = rd[o] /\ wr' = wr /\ ups' = ups /\ up' = up BY <2>1, <2>4 DEF OnlyRead
    <3>2. raced => raced' BY <2>1
    <3> QED BY <2>2, <3>1, <3>2, RepairedStays
  <2> QED BY <2>3, <2>4
<1>7. CASE (\E r \in Replicas : Fail(r) \/ Return(r)) \/ UNCHANGED vars
  <2>1. UNCHANGED <<replica, wr, rd, raced>> BY <1>7 DEF Fail, Return, vars
  <2>2. ups \in Nat BY <1>1, TypesExpanded
  <2>3. ups' # 0 \/ (ups = 0 /\ up' \subseteq up) BY <1>7, <2>2 DEF Fail, Return, vars
  <2> QED BY <1>1, <2>1, <2>3, SameRises, RepairedStays
<1> QED BY <1>2, <1>3, <1>4, <1>5, <1>6, <1>7 DEF Next, ReadStep

\* Once a read that ran against finished writes only has repaired what it saw, no
\* reachable replica that answered it is causally behind its result, for any numbers
\* of replicas and of other reads repairing at the same time.
THEOREM RepairsConverge == Spec => []RepairConverges
<1>1. Init => \A o \in Reads : Repaired(o) BY DEF Init, Repaired
<1>2. IInv /\ IInv' /\ (\A o \in Reads : Repaired(o)) /\ [Next]_vars => (\A o \in Reads : Repaired(o))'
  <2> SUFFICES ASSUME IInv, IInv', [Next]_vars, \A o \in Reads : Repaired(o), NEW o \in Reads
               PROVE  Repaired(o)'
    OBVIOUS
  <2> QED BY RepairedNext
<1>3. IInv /\ (\A o \in Reads : Repaired(o)) => RepairConverges
  <2> SUFFICES ASSUME IInv, NEW o \in Reads, Repaired(o), ~raced, ups = 0,
                      rd[o].pc = "returned", rd[o].stale = {}, Quiet(o),
                      NEW r \in Responses(o) \cap up
               PROVE  Compare(replica[r].clock, rd[o].best.clock) # "Before"
    BY DEF RepairConverges, Quiet
  <2>1. Rose(o) /\ Mended(o) BY DEF Repaired
  <2>2. TypeOK /\ r \in Replicas BY DEF IInv, Responses
  <2>3. /\ replica[r].clock \in Clock /\ rd[o].best.clock \in Clock /\ rd[o].got[r].clock \in Clock
        /\ LE(rd[o].got[r].clock, replica[r].clock)
    BY <2>1, <2>2, EntryClock DEF Rose
  <2>4. CASE r \in Lagging(o) BY <2>1, <2>4, Comparing DEF Mended
  <2>5. CASE r \notin Lagging(o)
    <3>1. ~LE(rd[o].got[r].clock, rd[o].best.clock) \/ LE(rd[o].best.clock, rd[o].got[r].clock)
      BY <2>5, Comparing DEF Lagging
    <3> QED BY <2>3, <3>1, LETransitive, Comparing
  <2> QED BY <2>4, <2>5
<1> QED BY <1>1, <1>2, <1>3, Invariant, PTL DEF Spec

-----------------------------------------------------------------------------
(* What every step has in common.                                            *)

LEMMA StepMoves == ASSUME IInv, [Next]_vars PROVE Moves
<1>1. TypeOK BY DEF IInv
<1>2. ASSUME NEW w \in Writes, StartWrite(w) PROVE Moves
  BY <1>1, <1>2, StartWriteDoes, WriteMoves DEF Fixed
<1>3. ASSUME NEW w \in Writes, ReadClock(w) PROVE Moves
  BY <1>1, <1>3, ReadClockDoes, WriteMoves DEF Fixed
<1>4. ASSUME NEW w \in Writes, FinishWrite(w) PROVE Moves
  BY <1>1, <1>4, FinishWriteDoes, WriteMoves DEF Fixed
<1>5. ASSUME NEW w \in Writes, NEW r \in Replicas, PutReplica(w, r) PROVE Moves
  <2>1. /\ OnlyWrite(w) /\ now' = now /\ r \in wr[w].todo /\ wr'[w].pc = wr[w].pc
        /\ wr'[w].ts = wr[w].ts /\ wr'[w].base = wr[w].base /\ wr'[w].after = wr[w].after
    BY <1>1, <1>5, PutReplicaDoes
  <2>2. wr[w].pc = "put" BY <2>1 DEF IInv, WriteOK
  <2> QED BY <1>1, <2>1, <2>2, WriteMoves
<1>6. CASE (\E o \in Reads : ReadStep(o)) \/ (\E r \in Replicas : Fail(r) \/ Return(r))
           \/ UNCHANGED vars
  <2>1. wr' = wr /\ now' = now
    BY <1>6 DEF ReadStep, StartRead, FinishRead, GetReplica, RepairReplica, Fail, Return, vars
  <2> QED BY <1>1, <2>1, StillMoves
<1> QED BY <1>2, <1>3, <1>4, <1>5, <1>6 DEF Next, WriteStep

\* A version is that of a write that has started; it never changes.
LEMMA VersionStays ==
  ASSUME Moves, NEW w \in Writes, wr[w].pc \in Fixed
  PROVE  Version(w)' = Version(w) /\ wr'[w].pc \in Fixed
<1>1. wr[w].pc # "idle" BY DEF Fixed
<1> QED BY <1>1 DEF Moves, Version

LEMMA StartedStays == ASSUME Moves PROVE Started \subseteq Started'
BY DEF Moves, Started

LEMMA SoundStarted ==
  ASSUME NEW e, Sound(e), e # None
  PROVE  e.op \in Started /\ wr[e.op].pc \in Fixed /\ e = Version(e.op)
BY DEF Sound, Started, Fixed

\* Who ended before another began.
LEMMA AfterEnded ==
  ASSUME IInv, NEW w \in Writes, NEW v \in wr[w].after
  PROVE  /\ v \in Writes /\ v # w /\ v \in Started /\ w \in Started
         /\ wr[v].pc \in {"ok", "failed"} /\ wr[v].pc \in Fixed /\ wr[v].todo = {}
         /\ wr[v].ts < wr[w].ts
<1>1. v \in Ended /\ v # w /\ wr[v].ts < wr[w].ts /\ wr[w].pc # "idle" BY DEF IInv, WriteOK
<1>2. v \in Writes /\ wr[v].pc \in {"ok", "failed"} BY <1>1 DEF Ended
<1>3. wr[v].todo = {} BY <1>2 DEF IInv, WriteOK
<1> QED BY <1>1, <1>2, <1>3 DEF Started, Fixed

-----------------------------------------------------------------------------
(* Two writes.  The first that ends before the other begins has read no      *)
(* clock, so the second is behind it in no way, and a repair with the first  *)
(* finds nobody to repair.                                                   *)

Few == \A x, y, z \in Started : x = y \/ y = z \/ x = z
Single == \A x, y \in Started : x = y

Alone ==
  Single => /\ \A x \in Started : wr[x].base = Zero
            /\ \A o \in Reads : rd[o].stale = {}

Holds(e, w) == e # None /\ e.op = w

Pair(v, w) ==
  Few /\ v \in wr[w].after =>
    /\ wr[v].base = Zero
    /\ \A o \in Reads : Holds(rd[o].best, v) => rd[o].stale = {}
    /\ \A r \in wr[w].acked : Holds(replica[r], w)
    /\ \A o \in Reads : w \in rd[o].acked =>
         \A r \in wr[w].acked : rd[o].got[r] = None \/ Holds(rd[o].got[r], w)
    /\ \A o \in Reads, r \in Replicas : Holds(rd[o].got[r], w) => Holds(rd[o].best, w)

LEMMA FewBefore == ASSUME Moves PROVE (Few' => Few) /\ (Single' => Single)
BY StartedStays DEF Few, Single

\* An answer of a read that lags behind its result is of another write.
LEMMA LaggingDiffers ==
  ASSUME IInv, NEW o \in Reads, NEW r \in Lagging(o)
  PROVE  /\ rd[o].got[r] # None /\ rd[o].best # None
         /\ rd[o].got[r].op \in Started /\ rd[o].best.op \in Started
         /\ rd[o].got[r].op # rd[o].best.op
<1>1. ReadOK(o) BY DEF IInv
<1>2. /\ r \in Replicas /\ r \in Responses(o) /\ rd[o].got[r] # None
      /\ LE(rd[o].got[r].clock, rd[o].best.clock) /\ ~LE(rd[o].best.clock, rd[o].got[r].clock)
  BY LaggingBehind DEF Responses
<1>3. PICK s \in Responses(o) : rd[o].best = rd[o].got[s] BY <1>1, <1>2 DEF ReadOK
<1>4. rd[o].best # None /\ Sound(rd[o].best) /\ Sound(rd[o].got[r])
  BY <1>1, <1>2, <1>3 DEF ReadOK, Responses
<1>5. /\ rd[o].got[r].op \in Started /\ rd[o].best.op \in Started
      /\ rd[o].got[r] = Version(rd[o].got[r].op) /\ rd[o].best = Version(rd[o].best.op)
  BY <1>2, <1>4, SoundStarted
<1>6. rd[o].got[r] # rd[o].best BY <1>2
<1> QED BY <1>2, <1>4, <1>5, <1>6

LEMMA AloneNext == ASSUME IInv, [Next]_vars, Alone PROVE Alone'
<1> SUFFICES ASSUME Single'
             PROVE  (\A x \in Started' : wr'[x].base = Zero) /\ \A o \in Reads : rd'[o].stale = {}
  BY DEF Alone
<1>1. TypeOK BY DEF IInv
<1>2. Moves BY StepMoves
<1>3. Single /\ (\A x \in Started : wr[x].base = Zero) /\ \A o \in Reads : rd[o].stale = {}
  BY <1>2, FewBefore DEF Alone
<1> DEFINE Goal == (\A x \in Started' : wr'[x].base = Zero) /\ \A o \in Reads : rd'[o].stale = {}
<1>4. ASSUME NEW w \in Writes, StartWrite(w) PROVE Goal
  <2>1. wr[w].pc = "idle" /\ OnlyWrite(w) /\ wr'[w].pc = "clock" /\ wr'[w].base = wr[w].base
    BY <1>1, <1>4, StartWriteDoes
  <2>2. wr[w].base = Zero BY <2>1 DEF IInv, WriteOK
  <2>3. w \in Started' BY <2>1 DEF Started
  <2>4. \A x \in Started' : x = w BY <2>3 DEF Single
  <2> QED BY <1>3, <2>1, <2>2, <2>4 DEF OnlyWrite
<1>5. ASSUME NEW w \in Writes, ReadClock(w) PROVE Goal
  <2> DEFINE r == Order[wr[w].i]
  <2>1. /\ wr[w].pc = "clock" /\ OnlyWrite(w) /\ r \in Replicas /\ wr'[w].base = Merged(w, r)
        /\ wr'[w].pc # "idle"
    BY <1>1, <1>5, ReadClockDoes
  <2> HIDE DEF r
  <2>2. w \in Started /\ wr[w].pc \notin Fixed BY <2>1 DEF Started, Fixed
  <2>3. replica[r] = None
    <3>1. Sound(replica[r]) BY <2>1 DEF IInv
    <3> QED BY <1>3, <2>2, <3>1, SoundStarted DEF Single
  <2>4. wr'[w].base = Zero BY <1>3, <2>1, <2>2, <2>3 DEF Merged
  <2>5. \A x \in Started' : x = w \/ x \in Started BY <2>1 DEF Started, OnlyWrite
  <2> QED BY <1>3, <2>1, <2>4, <2>5 DEF OnlyWrite, Started
<1>6. ASSUME NEW w \in Writes, FinishWrite(w) \/ \E r \in Replicas : PutReplica(w, r) PROVE Goal
  <2>1. OnlyWrite(w) /\ wr'[w].base = wr[w].base /\ wr[w].pc # "idle"
    <3>1. CASE FinishWrite(w) BY <1>1, <3>1, FinishWriteDoes
    <3>2. ASSUME NEW r \in Replicas, PutReplica(w, r)
          PROVE  OnlyWrite(w) /\ wr'[w].base = wr[w].base /\ wr[w].pc # "idle"
      BY <1>1, <3>2, PutReplicaDoes DEF IInv, WriteOK
    <3> QED BY <1>6, <3>1, <3>2
  <2>2. \A x \in Started' : x \in Started BY <2>1 DEF OnlyWrite, Started
  <2> QED BY <1>3, <2>1, <2>2 DEF OnlyWrite, Started
<1>7. ASSUME NEW o \in Reads, ReadStep(o) PROVE Goal
  <2>1. OnlyRead(o) /\ rd'[o].stale = {}
    <3>1. CASE StartRead(o) BY <1>1, <1>3, <3>1, StartReadDoes
    <3>2. CASE FinishRead(o)
      <4>1. Lagging(o) = {} BY <1>3, LaggingDiffers DEF Single
      <4> QED BY <1>1, <1>3, <3>2, <4>1, FinishReadDoes
    <3>3. ASSUME NEW r \in Replicas, GetReplica(o, r) PROVE OnlyRead(o) /\ rd'[o].stale = {}
      BY <1>1, <1>3, <3>3, GetReplicaDoes
    <3>4. ASSUME NEW r \in Replicas, RepairReplica(o, r) PROVE OnlyRead(o) /\ rd'[o].stale = {}
      BY <1>1, <1>3, <3>4, RepairReplicaDoes
    <3> QED BY <1>7, <3>1, <3>2, <3>3, <3>4 DEF ReadStep
  <2> QED BY <1>3, <2>1 DEF OnlyRead, Started
<1>8. CASE (\E r \in Replicas : Fail(r) \/ Return(r)) \/ UNCHANGED vars
  <2>1. wr' = wr /\ rd' = rd BY <1>8 DEF Fail, Return, vars
  <2> QED BY <1>3, <2>1 DEF Started
<1> QED BY <1>4, <1>5, <1>6, <1>7, <1>8 DEF Next, WriteStep

\* With few writes nobody but the two of a pair has started.
LEMMA OnlyTwo ==
  ASSUME IInv, Few, NEW w \in Writes, NEW v \in wr[w].after, NEW x \in Started
  PROVE  x = v \/ x = w
BY AfterEnded DEF Few

\* Resolve prefers the second of a pair, whichever it sees first.
LEMMA SecondPicked ==
  ASSUME IInv, NEW w \in Writes, NEW v \in wr[w].after, wr[v].base = Zero
  PROVE  /\ Pick(Version(v), Version(w)) = Version(w)
         /\ Pick(Version(w), Version(v)) = Version(w)
<1>1. v \in Writes /\ wr[v].ts < wr[w].ts BY AfterEnded
<1>2. TypeOK BY DEF IInv
<1>3. /\ Version(v).clock = Increment(Zero, writerOf[v]) /\ Version(v).ts = wr[v].ts
      /\ Version(w).clock = Increment(wr[w].base, writerOf[w]) /\ Version(w).ts = wr[w].ts
  BY <1>1, <1>2, VersionIsEntry
<1>4. wr[w].base \in Clock /\ writerOf[v] \in Writers /\ writerOf[w] \in Writers
      /\ wr[v].ts \in Nat /\ wr[w].ts \in Nat
  BY <1>1, <1>2, TypesExpanded, QuorumAssumption DEF WriteState
<1>5. LE(Version(w).clock, Version(v).clock) => LE(Version(v).clock, Version(w).clock)
  BY <1>3, <1>4, FirstClock
<1>6. Version(w).ts > Version(v).ts /\ ~(Version(v).ts > Version(w).ts) BY <1>1, <1>3, <1>4
<1> QED BY <1>5, <1>6, Picking

LEMMA PairNext ==
  ASSUME IInv, [Next]_vars, Alone, NEW v \in Writes, NEW w \in Writes, Pair(v, w)
  PROVE  Pair(v, w)'
<1> DEFINE C1 == wr'[v].base = Zero
           C2 == \A o \in Reads : Holds(rd'[o].best, v) => rd'[o].stale = {}
           C3 == \A r \in wr'[w].acked : Holds(replica'[r], w)
           C4 == \A o \in Reads : w \in rd'[o].acked =>
                   \A r \in wr'[w].acked : rd'[o].got[r] = None \/ Holds(rd'[o].got[r], w)
           C5 == \A o \in Reads, r \in Replicas : Holds(rd'[o].got[r], w) => Holds(rd'[o].best, w)
           Goal == C1 /\ C2 /\ C3 /\ C4 /\ C5
<1> SUFFICES ASSUME Few', v \in wr'[w].after PROVE Goal BY DEF Pair, Holds
<1>1. TypeOK BY DEF IInv
<1>2. Moves BY StepMoves
<1>3. Few BY <1>2, FewBefore
\* Once the second has begun, what is known of the two can be used.
<1>4. ASSUME v \in wr[w].after
      PROVE  /\ wr[v].base = Zero
             /\ \A o \in Reads : Holds(rd[o].best, v) => rd[o].stale = {}
             /\ \A r \in wr[w].acked : Holds(replica[r], w)
             /\ \A o \in Reads : w \in rd[o].acked =>
                  \A r \in wr[w].acked : rd[o].got[r] = None \/ Holds(rd[o].got[r], w)
             /\ \A o \in Reads, r \in Replicas : Holds(rd[o].got[r], w) => Holds(rd[o].best, w)
             /\ \A x \in Started : x = v \/ x = w
             /\ v # w /\ wr[v].pc \in {"ok", "failed"} /\ wr[v].todo = {}
  BY <1>3, <1>4, OnlyTwo, AfterEnded DEF Pair
<1>5. wr[w].acked \in SUBSET Replicas BY <1>1, TypesExpanded DEF WriteState
<1>6. ASSUME NEW x \in Writes, StartWrite(x) PROVE Goal
  <2>1. /\ wr[x].pc = "idle" /\ OnlyWrite(x) /\ replica' = replica /\ wr'[x].after = Ended
        /\ wr'[x].pc = "clock" /\ wr'[x].acked = wr[x].acked
    BY <1>1, <1>6, StartWriteDoes
  <2>2. x \in Started' /\ x \notin Started BY <2>1 DEF Started
  <2>3. Started \subseteq Started' BY <1>2, StartedStays
  <2>4. CASE x = w
    <3>1. v \in Started BY <2>1, <2>4 DEF Started, Ended
    <3>2. \A y \in Started : y = v BY <2>2, <2>3, <3>1 DEF Few
    <3>3. wr[v].base = Zero /\ \A o \in Reads : rd[o].stale = {} BY <3>1, <3>2 DEF Alone, Single
    <3>4. wr'[v] = wr[v] /\ rd' = rd BY <2>1, <2>2, <2>4, <3>1 DEF OnlyWrite
    <3>5. wr'[w].acked = {} BY <2>1, <2>4 DEF IInv, WriteOK
    <3>6. \A o \in Reads : w \notin rd[o].acked BY <2>1, <2>4 DEF IInv, ReadOK, Acked
    <3>7. \A o \in Reads, r \in Replicas : ~Holds(rd[o].got[r], w)
      <4> SUFFICES ASSUME NEW o \in Reads, NEW r \in Replicas, Holds(rd[o].got[r], w) PROVE FALSE
        OBVIOUS
      <4>1. Sound(rd[o].got[r]) BY DEF IInv, ReadOK
      <4> QED BY <2>2, <2>4, <4>1, SoundStarted DEF Holds
    <3> QED BY <3>3, <3>4, <3>5, <3>6, <3>7
  <2>5. CASE x # w
    <3>1. v \in wr[w].after BY <2>1, <2>5 DEF OnlyWrite
    <3>2. v \in Started /\ w \in Started /\ v # w BY <3>1, AfterEnded
    <3> QED BY <2>2, <2>3, <3>2 DEF Few
  <2> QED BY <2>4, <2>5
<1>7. ASSUME NEW x \in Writes, ReadClock(x) PROVE Goal
  <2>1. /\ wr[x].pc = "clock" /\ OnlyWrite(x) /\ replica' = replica
        /\ wr'[x].acked = wr[x].acked /\ wr'[x].after = wr[x].after
    BY <1>1, <1>7, ReadClockDoes
  <2>2. v \in wr[w].after /\ wr'[w].acked = wr[w].acked /\ rd' = rd BY <2>1 DEF OnlyWrite
  <2>3. wr'[v].base = wr[v].base BY <1>4, <2>1, <2>2 DEF OnlyWrite
  <2> QED BY <1>4, <2>1, <2>2, <2>3
<1>8. ASSUME NEW x \in Writes, FinishWrite(x) PROVE Goal
  <2>1. /\ OnlyWrite(x) /\ replica' = replica /\ wr'[x].base = wr[x].base
        /\ wr'[x].acked = wr[x].acked /\ wr'[x].after = wr[x].after
    BY <1>1, <1>8, FinishWriteDoes
  <2>2. /\ v \in wr[w].after /\ wr'[w].acked = wr[w].acked /\ rd' = rd
        /\ wr'[v].base = wr[v].base
    BY <2>1 DEF OnlyWrite
  <2> QED BY <1>4, <2>1, <2>2
<1>9. ASSUME NEW x \in Writes, NEW r \in Replicas, PutReplica(x, r) PROVE Goal
  <2>1. /\ OnlyWrite(x) /\ r \in wr[x].todo /\ wr'[x].after = wr[x].after /\ wr'[x].base = wr[x].base
        /\ wr'[x].acked = IF r \in up THEN wr[x].acked \cup {r} ELSE wr[x].acked
        /\ replica' = IF r \in up THEN [replica EXCEPT ![r] = Version(x)] ELSE replica
    BY <1>1, <1>9, PutReplicaDoes
  <2>2. wr[x].pc = "put" BY <2>1 DEF IInv, WriteOK
  <2>3. v \in wr[w].after /\ wr'[v].base = wr[v].base /\ rd' = rd BY <2>1 DEF OnlyWrite
  <2>4. x = w BY <1>4, <2>2, <2>3 DEF Started
  <2>5. Holds(Version(w), w) BY <1>1, <2>2, <2>4, VersionIsEntry DEF Holds, IInv, WriteOK
  <2>6. C3
    <3>1. replica \in [Replicas -> Entries \cup {None}] BY <1>1, TypesExpanded
    <3> QED BY <1>4, <1>5, <2>1, <2>3, <2>4, <2>5, <3>1
  <2>7. \A o \in Reads : w \notin rd[o].acked BY <2>2, <2>4 DEF IInv, ReadOK, Acked
  <2> QED BY <1>4, <2>3, <2>6, <2>7
<1>10. ASSUME NEW x \in Reads, StartRead(x) PROVE Goal
  <2>1. /\ rd[x].pc = "idle" /\ OnlyRead(x) /\ replica' = replica
        /\ rd'[x].got = rd[x].got /\ rd'[x].best = rd[x].best /\ rd'[x].stale = rd[x].stale
    BY <1>1, <1>10, StartReadDoes
  <2>2. v \in wr[w].after /\ wr' = wr BY <2>1 DEF OnlyRead
  <2>3. \A r \in Replicas : rd'[x].got[r] = None BY <2>1 DEF IInv, ReadOK
  <2>4. C2 BY <1>4, <2>1, <2>2 DEF OnlyRead
  <2>5. C4 BY <1>4, <1>5, <2>1, <2>2, <2>3 DEF OnlyRead
  <2>6. C5 BY <1>4, <2>1, <2>2, <2>3 DEF OnlyRead
  <2> QED BY <1>4, <2>1, <2>2, <2>4, <2>5, <2>6
<1>11. ASSUME NEW x \in Reads, NEW r \in Replicas, GetReplica(x, r) PROVE Goal
  <2>1. /\ rd[x].pc = "get" /\ OnlyRead(x) /\ replica' = replica
        /\ rd'[x].got = [rd[x].got EXCEPT ![r] = Answer(r)]
        /\ rd'[x].best = Better(rd[x].best, Answer(r)) /\ r \in rd[x].todo
        /\ rd'[x].stale = rd[x].stale /\ rd'[x].acked = rd[x].acked
    BY <1>1, <1>11, GetReplicaDoes
  <2>2. v \in wr[w].after /\ wr' = wr BY <2>1 DEF OnlyRead
  <2>3. /\ rd'[x].got[r] = Answer(r)
        /\ \A s \in Replicas : s # r => rd'[x].got[s] = rd[x].got[s]
    <3>1. rd[x].got \in [Replicas -> Entries \cup {None}] BY <1>1, TypesExpanded DEF ReadState
    <3> QED BY <2>1, <3>1
  <2>4. C2
    <3>1. rd[x].stale = {} BY <2>1 DEF IInv, ReadOK
    <3> QED BY <1>4, <2>1, <2>2, <3>1 DEF OnlyRead
  <2>5. C4
    <3> SUFFICES ASSUME NEW o \in Reads, w \in rd'[o].acked, NEW s \in wr[w].acked
                 PROVE  rd'[o].got[s] = None \/ Holds(rd'[o].got[s], w)
      BY <2>2
    <3>1. w \in rd[o].acked BY <2>1 DEF OnlyRead
    <3>2. /\ s \in Replicas /\ Holds(replica[s], w)
          /\ rd[o].got[s] = None \/ Holds(rd[o].got[s], w)
      BY <1>4, <1>5, <2>2, <3>1
    <3>3. CASE o # x BY <2>1, <3>2, <3>3 DEF OnlyRead
    <3>4. CASE o = x /\ s # r BY <2>3, <3>2, <3>4
    <3>5. CASE o = x /\ s = r BY <2>3, <3>2, <3>5 DEF Answer
    <3> QED BY <3>3, <3>4, <3>5
  <2>6. \A s \in Replicas : Holds(rd'[x].got[s], w) => Holds(rd'[x].best, w)
    <3>1. Sound(Answer(r)) BY DEF Answer, IInv, Sound
    <3>2. Sound(rd[x].best)
      <4>1. ReadOK(x) BY DEF IInv
      <4>2. CASE rd[x].best = None BY <4>2 DEF Sound
      <4>3. CASE rd[x].best # None
        <5>1. PICK s \in Responses(x) : rd[x].best = rd[x].got[s] BY <4>1, <4>3 DEF ReadOK
        <5>2. s \in Replicas /\ Sound(rd[x].got[s]) BY <4>1, <5>1 DEF ReadOK, Responses
        <5> QED BY <5>1, <5>2
      <4> QED BY <4>2, <4>3
    <3>3. CASE Answer(r) = None
      <4>1. rd'[x].best = rd[x].best BY <2>1, <3>3 DEF Better
      <4>2. \A s \in Replicas : Holds(rd'[x].got[s], w) => Holds(rd[x].got[s], w)
        BY <2>3, <3>3 DEF Holds
      <4> QED BY <1>4, <2>2, <4>1, <4>2
    <3>4. CASE Answer(r) # None /\ rd[x].best = None
      <4>1. rd'[x].best = Answer(r) BY <2>1, <3>4 DEF Better
      <4>2. \A s \in Replicas : rd[x].got[s] = None BY <3>4 DEF IInv, ReadOK, Responses
      <4> QED BY <2>3, <4>1, <4>2 DEF Holds
    <3>5. CASE Answer(r) # None /\ rd[x].best # None
      <4>1. rd'[x].best = Pick(rd[x].best, Answer(r)) BY <2>1, <3>5 DEF Better
      <4>2. /\ Answer(r).op \in {v, w} /\ Answer(r) = Version(Answer(r).op)
            /\ rd[x].best.op \in {v, w} /\ rd[x].best = Version(rd[x].best.op)
        BY <1>4, <2>2, <3>1, <3>2, <3>5, SoundStarted
      <4>3. CASE Answer(r).op = w \/ rd[x].best.op = w
        <5>1. Holds(Answer(r), w) \/ Holds(rd[x].best, w) BY <3>5, <4>3 DEF Holds
        <5>2. rd'[x].best = Version(w)
          <6>1. CASE Answer(r).op = rd[x].best.op BY <4>1, <4>2, <4>3, <6>1, Picking
          <6>2. CASE Answer(r).op = w /\ rd[x].best.op = v
            BY <1>4, <2>2, <4>1, <4>2, <6>2, SecondPicked
          <6>3. CASE Answer(r).op = v /\ rd[x].best.op = w
            BY <1>4, <2>2, <4>1, <4>2, <6>3, SecondPicked
          <6> QED BY <4>2, <4>3, <6>1, <6>2, <6>3
        <5>3. Holds(Version(w), w) BY <4>2, <4>3, <5>1 DEF Holds
        <5> QED BY <5>2, <5>3
      <4>4. CASE Answer(r).op # w /\ rd[x].best.op # w
        <5>1. \A s \in Replicas : ~Holds(rd'[x].got[s], w)
          BY <1>4, <2>2, <2>3, <4>4 DEF Holds
        <5> QED BY <5>1
      <4> QED BY <4>3, <4>4
    <3> QED BY <3>3, <3>4, <3>5
  <2>7. C5 BY <1>4, <2>1, <2>2, <2>6 DEF OnlyRead
  <2> QED BY <1>4, <2>1, <2>2, <2>4, <2>5, <2>7
<1>12. ASSUME NEW x \in Reads, FinishRead(x) PROVE Goal
  <2>1. /\ OnlyRead(x) /\ replica' = replica
        /\ rd'[x].stale \in {rd[x].stale, Lagging(x)}
        /\ rd'[x].got = rd[x].got /\ rd'[x].best = rd[x].best /\ rd'[x].acked = rd[x].acked
    BY <1>1, <1>12, FinishReadDoes
  <2>2. v \in wr[w].after /\ wr' = wr BY <2>1 DEF OnlyRead
  <2>3. Holds(rd[x].best, v) => Lagging(x) = {}
    <3> SUFFICES ASSUME Holds(rd[x].best, v), NEW r \in Lagging(x) PROVE FALSE OBVIOUS
    <3>1. rd[x].got[r] # None /\ rd[x].got[r].op \in Started /\ rd[x].got[r].op # v
      BY LaggingDiffers DEF Holds
    <3>2. Holds(rd[x].got[r], w) BY <1>4, <2>2, <3>1 DEF Holds
    <3>3. Holds(rd[x].best, w) BY <1>4, <2>2, <3>2, LaggingBehind
    <3> QED BY <1>4, <2>2, <3>3 DEF Holds
  <2>4. C2 BY <1>4, <2>1, <2>2, <2>3 DEF OnlyRead
  <2> QED BY <1>4, <2>1, <2>2, <2>4 DEF OnlyRead
<1>13. ASSUME NEW x \in Reads, NEW r \in Replicas, RepairReplica(x, r) PROVE Goal
  <2>1. /\ OnlyRead(x) /\ r \in rd[x].stale /\ rd'[x].stale = rd[x].stale \ {r}
        /\ replica' = IF r \in up THEN [replica EXCEPT ![r] = rd[x].best] ELSE replica
        /\ rd'[x].got = rd[x].got /\ rd'[x].best = rd[x].best /\ rd'[x].acked = rd[x].acked
    BY <1>1, <1>13, RepairReplicaDoes
  <2>2. v \in wr[w].after /\ wr' = wr BY <2>1 DEF OnlyRead
  <2>3. C2 BY <1>4, <2>1, <2>2 DEF OnlyRead
  <2>4. Holds(rd[x].best, w)
    <3>1. r \in Lagging(x) BY <2>1 DEF IInv, ReadOK
    <3>2. rd[x].best # None /\ rd[x].best.op \in Started BY <3>1, LaggingDiffers
    <3>3. rd[x].best.op # v BY <1>4, <2>1, <2>2, <3>2 DEF Holds
    <3> QED BY <1>4, <2>2, <3>2, <3>3 DEF Holds
  <2>5. C3
    <3>1. replica \in [Replicas -> Entries \cup {None}] BY <1>1, TypesExpanded
    <3> QED BY <1>4, <1>5, <2>1, <2>2, <2>4, <3>1
  <2>6. \A o \in Reads : rd'[o].got = rd[o].got /\ rd'[o].best = rd[o].best
                         /\ rd'[o].acked = rd[o].acked
    BY <2>1 DEF OnlyRead
  <2> QED BY <1>4, <2>2, <2>3, <2>5, <2>6
<1>14. CASE (\E r \in Replicas : Fail(r) \/ Return(r)) \/ UNCHANGED vars
  <2>1. UNCHANGED <<replica, wr, rd>> BY <1>14 DEF Fail, Return, vars
  <2> QED BY <1>4, <2>1
<1> QED BY <1>6, <1>7, <1>8, <1>9, <1>10, <1>11, <1>12, <1>13, <1>14 DEF Next, WriteStep, ReadStep

\* Two writes at most: the reads are fresh.
LEMMA FewAreFresh ==
  ASSUME W + R > N, IInv, Few, \A v, w \in Writes : Pair(v, w)
  PROVE  NoStaleRead
<1> SUFFICES ASSUME NEW o \in Reads, rd[o].pc = "returned", NEW w \in rd[o].acked,
                    rd[o].best.op \in wr[w].after
             PROVE  FALSE
  BY DEF NoStaleRead
<1> DEFINE v == rd[o].best.op
<1>1. TypeOK /\ ReadOK(o) BY DEF IInv
<1>2. w \in Writes /\ wr[w].pc = "ok" /\ Cardinality(wr[w].acked) >= W
  BY <1>1 DEF ReadOK, Acked, IInv, WriteOK
<1>3. v \in Writes /\ v # w BY <1>2, AfterEnded
<1>4. Pair(v, w) BY <1>2, <1>3
<1>5. Responses(o) \in SUBSET Replicas /\ Cardinality(Responses(o)) >= R
  BY <1>1 DEF ReadOK, Responses
<1>6. wr[w].acked \in SUBSET Replicas BY <1>1, <1>2, TypesExpanded DEF WriteState
<1>7. PICK r \in wr[w].acked : r \in Responses(o) BY <1>2, <1>5, <1>6, QuorumsMeet
<1>8. Holds(rd[o].got[r], w) /\ r \in Replicas BY <1>4, <1>6, <1>7 DEF Pair, Responses
<1>9. Holds(rd[o].best, w) BY <1>4, <1>8 DEF Pair
<1> QED BY <1>3, <1>9 DEF Holds

-----------------------------------------------------------------------------
(* Writes one by one, while no replica has returned and no repair has raced. *)
(* A replica that is up has been up ever since, so each write has read the   *)
(* versions before it on every one of them and is causally after them; what  *)
(* a replica holds only rises.                                               *)

Calm == OneByOne /\ ups = 0 /\ ~raced

\* A replica has what was put there, or something later.
Kept == \A w \in Writes, r \in up : wr[w].pc \in Fixed /\ r \notin wr[w].todo =>
          replica[r] # None /\ LE(Version(w).clock, replica[r].clock)

\* A write has seen the versions before it on the replicas it has read.
Seen == \A w \in Writes : \A v \in wr[w].after, j \in 1 .. N :
          j < wr[w].i /\ Order[j] \in up => LE(Version(v).clock, wr[w].base)

\* With a single ack it has seen them all.
Later == \A w \in Writes : \A v \in wr[w].after :
           wr[w].acked # {} => LE(Version(v).clock, wr[w].base)

\* No answer of a read is behind a write acknowledged before.
Answers == \A o \in Reads : \A w \in rd[o].acked, r \in Responses(o) :
             LE(Version(w).clock, rd[o].got[r].clock)

Rising == Calm => Kept /\ Seen /\ Later /\ Answers

LEMMA ByOneBefore == ASSUME Moves PROVE OneByOne' => OneByOne
<1>1. Started \subseteq Started' BY StartedStays
<1>2. \A w \in Started : w \in Writes /\ wr'[w].after = wr[w].after BY DEF Moves, Started
<1> QED BY <1>1, <1>2 DEF OneByOne

\* What came before a write is fixed.
LEMMA AfterStays ==
  ASSUME IInv, Moves, NEW w \in Writes, NEW v \in wr[w].after
  PROVE  v \in Writes /\ Version(v)' = Version(v) /\ Version(v).clock \in Clock
BY AfterEnded, VersionStays, VersionIsEntry DEF IInv

\* Entries that do not fall keep what is known of the writes, if those and the reads
\* stand still.
LEMMA KeptStays ==
  ASSUME IInv, IInv', Moves, Kept, wr' = wr, up' \subseteq up, Rises,
         \A r \in up : replica[r] # None => replica'[r] # None
  PROVE  Kept'
<1> SUFFICES ASSUME NEW w \in Writes, NEW r \in up', wr'[w].pc \in Fixed, r \notin wr'[w].todo
             PROVE  replica'[r] # None /\ LE(Version(w).clock', replica'[r].clock)
  BY DEF Kept
<1>1. TypeOK /\ TypeOK' BY DEF IInv
<1>2. r \in up /\ r \in Replicas BY <1>1, TypesExpanded
<1>3. replica[r] # None /\ LE(Version(w).clock, replica[r].clock) BY <1>2 DEF Kept
<1>4. Version(w)' = Version(w) BY VersionStays
<1>5. Version(w).clock \in Clock /\ replica[r].clock \in Clock /\ replica'[r].clock \in Clock
  BY <1>1, <1>2, VersionIsEntry, EntryClock, EntryClockNext
<1> QED BY <1>2, <1>3, <1>4, <1>5, LETransitive DEF Rises

LEMMA SeenStays ==
  ASSUME IInv, Moves, wr' = wr, up' \subseteq up, Seen, Later
  PROVE  Seen' /\ Later'
<1>1. \A w \in Writes : \A v \in wr[w].after : Version(v)' = Version(v) BY AfterStays
<1> QED BY <1>1 DEF Seen, Later

LEMMA AnswersStay ==
  ASSUME IInv, Moves, Answers,
         \A o \in Reads : rd'[o].acked = rd[o].acked /\ rd'[o].got = rd[o].got
  PROVE  Answers'
<1>1. \A o \in Reads : \A w \in rd[o].acked : w \in Writes /\ wr[w].pc \in Fixed
  BY DEF IInv, ReadOK, Acked, Fixed
<1>2. \A o \in Reads : \A w \in rd[o].acked : Version(w)' = Version(w) BY <1>1, VersionStays
<1>3. \A o \in Reads : Responses(o)' = Responses(o) BY DEF Responses
<1> QED BY <1>2, <1>3 DEF Answers

\* What a write finds on a replica that is up is not behind what came before it.
LEMMA ReadsClock ==
  ASSUME IInv, Kept, Seen, NEW w \in Writes, ReadClock(w), NEW v \in wr[w].after,
         NEW j \in 1 .. N, j < wr[w].i + 1, Order[j] \in up
  PROVE  LE(Version(v).clock, Merged(w, Order[wr[w].i]))
<1> DEFINE r == Order[wr[w].i]
<1>1. TypeOK BY DEF IInv
<1>2. wr[w].i \in 1 .. N /\ r \in Replicas BY <1>1, ReadClockDoes
<1>3. /\ v \in Writes /\ wr[v].pc \in Fixed /\ wr[v].todo = {} /\ Version(v).clock \in Clock
  BY <1>1, AfterEnded, VersionIsEntry
<1>4. wr[w].base \in Clock /\ replica[r].clock \in Clock
  BY <1>1, <1>2, TypesExpanded, EntryClock DEF WriteState
<1>5. wr[w].i \in Nat /\ j \in Nat BY <1>2, OrderLength
<1> HIDE DEF r
<1>6. CASE j < wr[w].i
  <2>1. LE(Version(v).clock, wr[w].base) BY <1>6 DEF Seen
  <2>2. LE(wr[w].base, Merged(w, r))
    BY <1>4, Merging, ZeroLeast DEF Merged
  <2>3. Merged(w, r) \in Clock BY <1>4, Merging DEF Merged
  <2> QED BY <1>3, <1>4, <2>1, <2>2, <2>3, LETransitive DEF r
<1>7. CASE j = wr[w].i
  <2>1. r \in up BY <1>7 DEF r
  <2>2. replica[r] # None /\ LE(Version(v).clock, replica[r].clock) BY <1>3, <2>1 DEF Kept
  <2>3. /\ Merged(w, r) = Merge(wr[w].base, replica[r].clock) /\ Merged(w, r) \in Clock
        /\ LE(replica[r].clock, Merged(w, r))
    BY <1>4, <2>1, <2>2, Merging DEF Merged
  <2> QED BY <1>3, <1>4, <2>2, <2>3, LETransitive DEF r
<1> QED BY <1>5, <1>6, <1>7

\* A write that puts its version on a replica has seen what came before it there.
LEMMA PutsLater ==
  ASSUME IInv, Seen, NEW w \in Writes, wr[w].pc \in Fixed, NEW v \in wr[w].after,
         NEW r \in Replicas, r \in up
  PROVE  LE(Version(v).clock, wr[w].base)
<1>1. PICK j \in 1 .. N : Order[j] = r BY QuorumAssumption DEF N
<1>2. wr[w].i = N + 1 BY DEF IInv, WriteOK
<1>3. j < wr[w].i BY <1>1, <1>2, OrderLength
<1> QED BY <1>1, <1>3 DEF Seen

LEMMA RisingWrites ==
  ASSUME IInv, IInv', Moves, Calm, Kept, Seen, Later, Answers, OneByOne',
         NEW w \in Writes, WriteStep(w)
  PROVE  Kept' /\ Seen' /\ Later' /\ Answers'
<1>1. TypeOK /\ TypeOK' BY DEF IInv
<1>2. rd' = rd /\ up' = up
  BY DEF WriteStep, StartWrite, ReadClock, FinishWrite, PutReplica
<1>3. Answers' BY <1>2, AnswersStay
<1>4. \A x \in Writes : \A v \in wr[x].after : v \in Writes /\ Version(v)' = Version(v)
  BY AfterStays
<1>5. CASE StartWrite(w)
  <2>1. /\ OnlyWrite(w) /\ replica' = replica /\ wr'[w].pc = "clock" /\ wr[w].pc = "idle"
        /\ wr'[w].i = wr[w].i /\ wr'[w].acked = wr[w].acked
    BY <1>1, <1>5, StartWriteDoes
  <2>2. wr'[w].i = 1 /\ wr'[w].acked = {} /\ wr'[w].pc \notin Fixed
    BY <2>1 DEF IInv, WriteOK, Fixed
  <2>3. Kept'
    <3> SUFFICES ASSUME NEW x \in Writes, NEW r \in up, wr'[x].pc \in Fixed, r \notin wr'[x].todo
                 PROVE  replica'[r] # None /\ LE(Version(x).clock', replica'[r].clock)
      BY <1>2 DEF Kept
    <3>1. x # w /\ wr'[x] = wr[x] BY <2>1, <2>2 DEF OnlyWrite
    <3>2. Version(x)' = Version(x) BY <3>1, VersionStays
    <3> QED BY <2>1, <3>1, <3>2 DEF Kept
  <2>4. Seen'
    <3> SUFFICES ASSUME NEW x \in Writes, NEW v \in wr'[x].after, NEW j \in 1 .. N,
                        j < wr'[x].i, Order[j] \in up
                 PROVE  LE(Version(v).clock', wr'[x].base)
      BY <1>2 DEF Seen
    <3>1. x # w /\ wr'[x] = wr[x] BY <2>1, <2>2, OrderLength DEF OnlyWrite
    <3> QED BY <1>4, <3>1 DEF Seen
  <2>5. Later'
    <3> SUFFICES ASSUME NEW x \in Writes, NEW v \in wr'[x].after, wr'[x].acked # {}
                 PROVE  LE(Version(v).clock', wr'[x].base)
      BY DEF Later
    <3>1. x # w /\ wr'[x] = wr[x] BY <2>1, <2>2 DEF OnlyWrite
    <3> QED BY <1>4, <3>1 DEF Later
  <2> QED BY <1>3, <2>3, <2>4, <2>5
<1>6. CASE ReadClock(w)
  <2>1. /\ wr[w].pc = "clock" /\ OnlyWrite(w) /\ replica' = replica
        /\ wr'[w].pc = IF wr[w].i = N THEN "put" ELSE "clock"
        /\ wr'[w].base = Merged(w, Order[wr[w].i]) /\ wr'[w].i = wr[w].i + 1
        /\ wr'[w].todo = IF wr[w].i = N THEN Replicas ELSE {}
        /\ wr'[w].after = wr[w].after /\ wr'[w].acked = wr[w].acked
    BY <1>1, <1>6, ReadClockDoes
  <2>2. wr'[w].acked = {} BY <2>1 DEF IInv, WriteOK
  <2>3. Kept'
    <3> SUFFICES ASSUME NEW x \in Writes, NEW r \in up, wr'[x].pc \in Fixed, r \notin wr'[x].todo
                 PROVE  replica'[r] # None /\ LE(Version(x).clock', replica'[r].clock)
      BY <1>2 DEF Kept
    <3>1. r \in Replicas BY <1>1, TypesExpanded
    <3>2. x # w /\ wr'[x] = wr[x] BY <2>1, <3>1 DEF OnlyWrite, Fixed
    <3>3. Version(x)' = Version(x) BY <3>2, VersionStays
    <3> QED BY <2>1, <3>2, <3>3 DEF Kept
  <2>4. Seen'
    <3> SUFFICES ASSUME NEW x \in Writes, NEW v \in wr'[x].after, NEW j \in 1 .. N,
                        j < wr'[x].i, Order[j] \in up
                 PROVE  LE(Version(v).clock', wr'[x].base)
      BY <1>2 DEF Seen
    <3>1. CASE x = w BY <1>4, <1>6, <2>1, <3>1, ReadsClock
    <3>2. CASE x # w BY <1>4, <2>1, <3>2 DEF Seen, OnlyWrite
    <3> QED BY <3>1, <3>2
  <2>5. Later'
    <3> SUFFICES ASSUME NEW x \in Writes, NEW v \in wr'[x].after, wr'[x].acked # {}
                 PROVE  LE(Version(v).clock', wr'[x].base)
      BY DEF Later
    <3>1. x # w /\ wr'[x] = wr[x] BY <2>1, <2>2 DEF OnlyWrite
    <3> QED BY <1>4, <3>1 DEF Later
  <2> QED BY <1>3, <2>3, <2>4, <2>5
<1>7. CASE FinishWrite(w)
  <2>1. /\ wr[w].pc = "put" /\ OnlyWrite(w) /\ replica' = replica
        /\ wr'[w].todo = wr[w].todo /\ wr'[w].acked = wr[w].acked
        /\ wr'[w].base = wr[w].base /\ wr'[w].i = wr[w].i /\ wr'[w].after = wr[w].after
    BY <1>1, <1>7, FinishWriteDoes
  <2>2. \A x \in Writes : /\ wr'[x].todo = wr[x].todo /\ wr'[x].acked = wr[x].acked
                          /\ wr'[x].base = wr[x].base /\ wr'[x].i = wr[x].i
                          /\ wr'[x].after = wr[x].after
                          /\ wr'[x].pc \in Fixed => wr[x].pc \in Fixed
    BY <2>1 DEF OnlyWrite, Fixed
  <2>3. \A x \in Writes : wr'[x].pc \in Fixed => Version(x)' = Version(x)
    BY <2>2, VersionStays
  <2>4. Kept' BY <1>2, <2>1, <2>2, <2>3 DEF Kept
  <2>5. Seen' BY <1>2, <1>4, <2>2 DEF Seen
  <2>6. Later' BY <1>4, <2>2 DEF Later
  <2> QED BY <1>3, <2>4, <2>5, <2>6
<1>8. ASSUME NEW r \in Replicas, PutReplica(w, r) PROVE Kept' /\ Seen' /\ Later'
  <2>1. /\ OnlyWrite(w) /\ r \in wr[w].todo /\ wr'[w].todo = wr[w].todo \ {r}
        /\ wr'[w].acked = IF r \in up THEN wr[w].acked \cup {r} ELSE wr[w].acked
        /\ replica' = IF r \in up THEN [replica EXCEPT ![r] = Version(w)] ELSE replica
        /\ wr'[w].pc = wr[w].pc /\ wr'[w].base = wr[w].base
        /\ wr'[w].i = wr[w].i /\ wr'[w].after = wr[w].after
    BY <1>1, <1>8, PutReplicaDoes
  <2>2. wr[w].pc = "put" /\ wr[w].pc \in Fixed /\ 0 < wr[w].ts BY <2>1 DEF IInv, WriteOK, Fixed
  <2>3. \A x \in Writes : /\ wr'[x].base = wr[x].base /\ wr'[x].i = wr[x].i
                          /\ wr'[x].after = wr[x].after /\ wr'[x].pc = wr[x].pc
                          /\ x # w => wr'[x] = wr[x]
    BY <2>1 DEF OnlyWrite
  <2>4. Seen' BY <1>2, <1>4, <2>3 DEF Seen
  <2>5. Later'
    <3> SUFFICES ASSUME NEW x \in Writes, NEW v \in wr[x].after, wr'[x].acked # {}
                 PROVE  LE(Version(v).clock, wr[x].base)
      BY <1>4, <2>3 DEF Later
    <3>1. CASE x # w \/ r \notin up BY <2>1, <2>3, <3>1 DEF Later
    <3>2. CASE x = w /\ r \in up BY <2>2, <3>2, PutsLater
    <3> QED BY <3>1, <3>2
  <2>6. Version(w) # None /\ Version(w).clock \in Clock BY <1>1, <2>2, VersionIsEntry
  <2>7. Kept'
    <3> SUFFICES ASSUME NEW x \in Writes, NEW s \in up, wr[x].pc \in Fixed, s \notin wr'[x].todo
                 PROVE  replica'[s] # None /\ LE(Version(x).clock', replica'[s].clock)
      BY <1>2, <2>3 DEF Kept
    <3>1. Version(x)' = Version(x) BY VersionStays
    <3>2. replica \in [Replicas -> Entries \cup {None}] /\ s \in Replicas BY <1>1, TypesExpanded
    <3>3. CASE s # r
      <4>1. replica'[s] = replica[s] /\ s \notin wr[x].todo BY <2>1, <2>3, <3>2, <3>3
      <4> QED BY <3>1, <4>1 DEF Kept
    <3>4. CASE s = r /\ x = w
      <4>1. replica'[s] = Version(w) BY <2>1, <3>2, <3>4
      <4> QED BY <2>6, <3>1, <3>4, <4>1, ZeroLeast
    <3>5. CASE s = r /\ x # w
      <4>1. replica'[s] = Version(w) BY <2>1, <3>2, <3>5
      <4>2. x \in Started /\ w \in Started BY <2>2 DEF Started, Fixed
      <4>3. w \notin wr[x].after BY <2>2, AfterEnded
      <4>4. x \in wr[w].after BY <3>5, <4>2, <4>3 DEF Calm, OneByOne
      <4>5. LE(Version(x).clock, wr[w].base) BY <2>2, <3>5, <4>4, PutsLater
      <4>6. /\ wr[w].base \in Clock /\ LE(wr[w].base, Version(w).clock) /\ Version(x).clock \in Clock
        BY <1>1, VersionIsEntry, TypesExpanded, Incrementing, QuorumAssumption DEF WriteState
      <4>7. LE(Version(x).clock, Version(w).clock) BY <2>6, <4>5, <4>6, LETransitive
      <4> QED BY <2>6, <3>1, <4>1, <4>7
    <3> QED BY <3>3, <3>4, <3>5
  <2> QED BY <2>4, <2>5, <2>7
<1> QED BY <1>3, <1>5, <1>6, <1>7, <1>8 DEF WriteStep

LEMMA RisingReads ==
  ASSUME IInv, IInv', Moves, Kept, Seen, Later, Answers, ~raced',
         NEW o \in Reads, ReadStep(o)
  PROVE  Kept' /\ Seen' /\ Later' /\ Answers'
<1>1. TypeOK /\ TypeOK' BY DEF IInv
<1>2. wr' = wr /\ up' = up
  BY DEF ReadStep, StartRead, FinishRead, GetReplica, RepairReplica
<1>3. Seen' /\ Later' BY <1>2, SeenStays
<1>4. ASSUME replica' = replica PROVE Kept' BY <1>1, <1>2, <1>4, SameRises, KeptStays
<1>5. \A w \in Acked : w \in Writes /\ wr[w].pc \in Fixed /\ Version(w)' = Version(w)
                       /\ wr[w].todo = {}
  BY VersionStays DEF Acked, Fixed, IInv, WriteOK
<1>6. CASE StartRead(o)
  <2>1. /\ OnlyRead(o) /\ replica' = replica /\ rd[o].pc = "idle" /\ rd'[o].got = rd[o].got
    BY <1>1, <1>6, StartReadDoes
  <2>2. Responses(o)' = {} BY <2>1 DEF IInv, ReadOK, Responses
  <2>3. Answers'
    <3> SUFFICES ASSUME NEW x \in Reads, NEW w \in rd'[x].acked, NEW r \in Responses(x)'
                 PROVE  LE(Version(w).clock', rd'[x].got[r].clock)
      BY DEF Answers
    <3>1. x # o /\ rd'[x] = rd[x] BY <2>1, <2>2 DEF OnlyRead
    <3>2. w \in Acked /\ r \in Responses(x) BY <3>1 DEF IInv, ReadOK, Responses
    <3> QED BY <1>5, <3>1, <3>2 DEF Answers
  <2> QED BY <1>3, <1>4, <2>1, <2>3
<1>7. ASSUME NEW r \in Replicas, GetReplica(o, r) PROVE Kept' /\ Answers'
  <2>1. /\ OnlyRead(o) /\ replica' = replica /\ rd'[o].acked = rd[o].acked
        /\ rd'[o].got = [rd[o].got EXCEPT ![r] = Answer(r)]
    BY <1>1, <1>7, GetReplicaDoes
  <2>2. rd[o].got \in [Replicas -> Entries \cup {None}] BY <1>1, TypesExpanded DEF ReadState
  <2>3. Answers'
    <3> SUFFICES ASSUME NEW x \in Reads, NEW w \in rd'[x].acked, NEW s \in Responses(x)'
                 PROVE  LE(Version(w).clock', rd'[x].got[s].clock)
      BY DEF Answers
    <3>1. w \in rd[x].acked BY <2>1 DEF OnlyRead
    <3>2. w \in Acked BY <3>1 DEF IInv, ReadOK
    <3>3. s \in Replicas /\ rd'[x].got[s] # None BY DEF Responses
    <3>4. CASE x = o /\ s = r
      <4>1. rd'[x].got[s] = Answer(r) BY <2>1, <2>2, <3>4
      <4>2. r \in up /\ rd'[x].got[s] = replica[r] BY <3>3, <4>1 DEF Answer
      <4>3. LE(Version(w).clock, replica[r].clock) BY <1>5, <3>2, <4>2 DEF Kept
      <4> QED BY <1>5, <3>2, <4>2, <4>3
    <3>5. CASE ~(x = o /\ s = r)
      <4>1. rd'[x].got[s] = rd[x].got[s] BY <2>1, <2>2, <3>3, <3>5 DEF OnlyRead
      <4>2. s \in Responses(x) BY <3>3, <4>1 DEF Responses
      <4> QED BY <1>5, <3>1, <3>2, <4>1, <4>2 DEF Answers
    <3> QED BY <3>4, <3>5
  <2> QED BY <1>4, <2>1, <2>3
<1>8. CASE FinishRead(o)
  <2>1. /\ OnlyRead(o) /\ replica' = replica /\ rd'[o].acked = rd[o].acked
        /\ rd'[o].got = rd[o].got
    BY <1>1, <1>8, FinishReadDoes
  <2>2. \A x \in Reads : rd'[x].acked = rd[x].acked /\ rd'[x].got = rd[x].got
    BY <2>1 DEF OnlyRead
  <2> QED BY <1>3, <1>4, <2>1, <2>2, AnswersStay
<1>9. ASSUME NEW r \in Replicas, RepairReplica(o, r) PROVE Kept' /\ Answers'
  <2>1. /\ OnlyRead(o) /\ r \in rd[o].stale /\ rd'[o].acked = rd[o].acked /\ rd'[o].got = rd[o].got
        /\ replica' = IF r \in up THEN [replica EXCEPT ![r] = rd[o].best] ELSE replica
    BY <1>1, <1>9, RepairReplicaDoes
  <2>2. \A x \in Reads : rd'[x].acked = rd[x].acked /\ rd'[x].got = rd[x].got
    BY <2>1 DEF OnlyRead
  <2>3. r \in Lagging(o) BY <2>1 DEF IInv, ReadOK
  <2>4. rd[o].best # None BY <2>3, LaggingDiffers
  <2>5. replica \in [Replicas -> Entries \cup {None}] /\ up \subseteq Replicas
    BY <1>1, TypesExpanded
  <2>6. \A s \in up : replica[s] # None => replica'[s] # None BY <2>1, <2>4, <2>5
  <2> QED BY <1>2, <1>9, <2>2, <2>6, RepairRises, KeptStays, AnswersStay
<1> QED BY <1>3, <1>6, <1>7, <1>8, <1>9 DEF ReadStep

LEMMA RisingNext == ASSUME IInv, IInv', [Next]_vars, Rising PROVE Rising'
<1> SUFFICES ASSUME Calm' PROVE Kept' /\ Seen' /\ Later' /\ Answers' BY DEF Rising
<1>1. TypeOK BY DEF IInv
<1>2. Moves BY StepMoves
<1>3. ASSUME NEW w \in Writes, WriteStep(w) PROVE ups' = ups /\ raced' = raced
  BY <1>3 DEF WriteStep, StartWrite, ReadClock, FinishWrite, PutReplica
<1>4. ASSUME NEW o \in Reads, ReadStep(o) PROVE ups' = ups /\ (raced => raced')
  <2>1. CASE StartRead(o) \/ FinishRead(o) \/ \E r \in Replicas : GetReplica(o, r)
    <3>1. ups' = ups BY <2>1 DEF StartRead, FinishRead, GetReplica
    <3>2. raced' = raced BY <2>1 DEF StartRead, FinishRead, GetReplica
    <3> QED BY <3>1, <3>2, Zenon
  <2>2. ASSUME NEW r \in Replicas, RepairReplica(o, r) PROVE ups' = ups /\ (raced => raced')
    <3>1. ups' = ups BY <2>2 DEF RepairReplica
    <3>2. raced' = (raced \/ (r \in up /\ replica[r] # rd[o].got[r])) BY <2>2 DEF RepairReplica
    <3> QED BY <3>1, <3>2, Zenon
  <2> QED BY <1>4, <2>1, <2>2 DEF ReadStep
<1>5. ups \in Nat BY <1>1, TypesExpanded
<1>6. ASSUME NEW r \in Replicas, Fail(r) \/ Return(r)
      PROVE  /\ UNCHANGED <<replica, wr, rd, raced, now>> /\ up' \subseteq up /\ ups' = ups
  BY <1>5, <1>6 DEF Fail, Return, Calm
<1>7. Calm
  <2>1. OneByOne BY <1>2, ByOneBefore DEF Calm
  <2>2. ups = 0 /\ ~raced
    BY <1>3, <1>4, <1>6 DEF Calm, Next, vars
  <2> QED BY <2>1, <2>2 DEF Calm
<1>8. Kept /\ Seen /\ Later /\ Answers BY <1>7 DEF Rising
<1>9. CASE \E w \in Writes : WriteStep(w) BY <1>2, <1>7, <1>8, <1>9, RisingWrites DEF Calm
<1>10. CASE \E o \in Reads : ReadStep(o) BY <1>2, <1>8, <1>10, RisingReads DEF Calm
<1>11. CASE (\E r \in Replicas : Fail(r) \/ Return(r)) \/ UNCHANGED vars
  <2>1. UNCHANGED <<replica, wr, rd>> /\ up' \subseteq up BY <1>6, <1>11 DEF vars
  <2> QED BY <1>1, <1>2, <1>8, <2>1, SameRises, KeptStays, SeenStays, AnswersStay
<1> QED BY <1>9, <1>10, <1>11 DEF Next

LEMMA OneByOneIsFresh == ASSUME IInv, Calm, Rising PROVE NoStaleRead
<1> SUFFICES ASSUME NEW o \in Reads, rd[o].pc = "returned", NEW w \in rd[o].acked,
                    rd[o].best.op \in wr[w].after
             PROVE  FALSE
  BY DEF NoStaleRead
<1> DEFINE v == rd[o].best.op
<1>1. TypeOK /\ ReadOK(o) /\ Later /\ Answers BY DEF IInv, Rising
<1>2. w \in Writes /\ Cardinality(wr[w].acked) >= W BY <1>1 DEF ReadOK, Acked, IInv, WriteOK
<1>3. wr[w].acked # {} /\ Responses(o) # {}
  <2>1. Cardinality({}) = 0 BY FS_EmptySet
  <2>2. ~(0 >= W) /\ ~(0 >= R) BY QuorumAssumption
  <2>3. Cardinality(Responses(o)) >= R BY <1>1 DEF ReadOK
  <2>4. wr[w].acked # {} BY <1>2, <2>1, <2>2, Zenon
  <2>5. Responses(o) # {} BY <2>1, <2>2, <2>3, Zenon
  <2> QED BY <2>4, <2>5
<1>4. PICK r \in Responses(o) : rd[o].best = rd[o].got[r] BY <1>1, <1>3 DEF ReadOK
<1>5. rd[o].best = Version(v) /\ LE(Version(w).clock, Version(v).clock)
  <2>1. rd[o].best # None /\ Sound(rd[o].best) BY <1>1, <1>4 DEF ReadOK, Responses
  <2> QED BY <1>1, <1>4, <2>1, SoundStarted DEF Answers
<1>6. v \in Writes BY <1>2, AfterEnded
<1>7. LE(Version(v).clock, wr[w].base) BY <1>1, <1>2, <1>3 DEF Later
<1>8. /\ wr[w].base \in Clock /\ Version(v).clock \in Clock /\ writerOf[w] \in Writers
      /\ Version(w).clock = Increment(wr[w].base, writerOf[w])
  BY <1>1, <1>2, <1>6, TypesExpanded, VersionIsEntry, QuorumAssumption DEF WriteState
<1> QED BY <1>5, <1>7, <1>8, Incrementing

-----------------------------------------------------------------------------
\* Finitely many writes have started.
LEMMA StartedFinite == ASSUME IInv, [Next]_vars, IsFiniteSet(Started) PROVE IsFiniteSet(Started)'
<1>1. TypeOK BY DEF IInv
<1>2. ASSUME NEW w \in Writes, WriteStep(w) PROVE Started' \subseteq Started \cup {w}
  <2>1. OnlyWrite(w)
    <3>1. CASE StartWrite(w) BY <1>1, <3>1, StartWriteDoes
    <3>2. CASE ReadClock(w) BY <1>1, <3>2, ReadClockDoes
    <3>3. CASE FinishWrite(w) BY <1>1, <3>3, FinishWriteDoes
    <3>4. ASSUME NEW r \in Replicas, PutReplica(w, r) PROVE OnlyWrite(w)
      BY <1>1, <3>4, PutReplicaDoes
    <3> QED BY <1>2, <3>1, <3>2, <3>3, <3>4 DEF WriteStep
  <2> QED BY <2>1 DEF OnlyWrite, Started
<1>3. CASE \E w \in Writes : WriteStep(w)
  <2>1. PICK w \in Writes : WriteStep(w) BY <1>3
  <2>2. IsFiniteSet(Started \cup {w}) BY FS_AddElement
  <2> QED BY <1>2, <2>1, <2>2, FS_Subset
<1>4. CASE (\E o \in Reads : ReadStep(o)) \/ (\E r \in Replicas : Fail(r) \/ Return(r))
           \/ UNCHANGED vars
  <2>1. wr' = wr
    BY <1>4 DEF ReadStep, StartRead, FinishRead, GetReplica, RepairReplica, Fail, Return, vars
  <2>2. Started' = Started BY <2>1 DEF Started
  <2> QED BY <2>2
<1> QED BY <1>3, <1>4 DEF Next

LEMMA TwoAreFew == ASSUME IsFiniteSet(Started), Cardinality(Started) <= 2 PROVE Few
<1> SUFFICES ASSUME NEW x \in Started, NEW y \in Started, NEW z \in Started,
                    x # y, y # z, x # z
             PROVE  FALSE
  BY DEF Few
<1>1. IsFiniteSet({x}) /\ Cardinality({x}) = 1 BY FS_Singleton
<1>2. IsFiniteSet({x} \cup {y}) /\ Cardinality({x} \cup {y}) = 2
  <2> DEFINE T == {x}
  <2>1. y \notin T OBVIOUS
  <2> HIDE DEF T
  <2>2. IsFiniteSet(T) /\ Cardinality(T) = 1 BY <1>1 DEF T
  <2>3. IsFiniteSet(T \cup {y}) /\ Cardinality(T \cup {y}) = Cardinality(T) + 1
    BY <2>1, <2>2, FS_AddElement, Zenon
  <2>4. Cardinality(T \cup {y}) = 2 BY <2>2, <2>3
  <2> QED BY <2>3, <2>4 DEF T
<1>3. IsFiniteSet(({x} \cup {y}) \cup {z}) /\ Cardinality(({x} \cup {y}) \cup {z}) = 3
  <2> DEFINE T == {x} \cup {y}
  <2>1. z \notin T OBVIOUS
  <2> HIDE DEF T
  <2>2. IsFiniteSet(T) /\ Cardinality(T) = 2 BY <1>2 DEF T
  <2>3. IsFiniteSet(T \cup {z}) /\ Cardinality(T \cup {z}) = Cardinality(T) + 1
    BY <2>1, <2>2, FS_AddElement, Zenon
  <2>4. Cardinality(T \cup {z}) = 3 BY <2>2, <2>3
  <2> QED BY <2>3, <2>4 DEF T
<1>4. Cardinality(({x} \cup {y}) \cup {z}) <= Cardinality(Started)
  <2>1. ({x} \cup {y}) \cup {z} \subseteq Started OBVIOUS
  <2> QED BY <2>1, FS_Subset, Zenon
<1>5. Cardinality(Started) \in Nat BY FS_CardinalityType
<1> QED BY <1>3, <1>4, <1>5

Fresh ==
  /\ IsFiniteSet(Started)
  /\ Alone /\ \A v, w \in Writes : Pair(v, w)
  /\ Rising

\* With W + R > N a read never returns a version that was superseded before it began,
\* as long as there are two writes at most, whatever fails, returns and is repaired;
\* or any number of writes one by one, as long as no replica has returned and no
\* read-repair has raced.
THEOREM FreshReads ==
  ASSUME W + R > N
  PROVE  Spec => []ReadsFresh
<1>1. Init => Fresh
  <2> SUFFICES ASSUME Init PROVE Fresh OBVIOUS
  <2>1. Started = {} BY DEF Init, Started
  <2>2. /\ \A w \in Writes : wr[w].after = {} /\ wr[w].pc \notin Fixed
        /\ \A o \in Reads : rd[o].stale = {} /\ rd[o].acked = {}
    BY DEF Init, Fixed
  <2>3. IsFiniteSet(Started) BY <2>1, FS_EmptySet
  <2>4. Alone /\ \A v, w \in Writes : Pair(v, w) BY <2>1, <2>2 DEF Alone, Pair
  <2>5. Rising BY <2>2 DEF Rising, Kept, Seen, Later, Answers
  <2> QED BY <2>3, <2>4, <2>5 DEF Fresh
<1>2. IInv /\ IInv' /\ Fresh /\ [Next]_vars => Fresh'
  <2> SUFFICES ASSUME IInv, IInv', Fresh, [Next]_vars PROVE Fresh' OBVIOUS
  <2>1. IsFiniteSet(Started)' BY StartedFinite DEF Fresh
  <2>2. Alone' BY AloneNext DEF Fresh
  <2>3. \A v, w \in Writes : Pair(v, w)' BY PairNext DEF Fresh
  <2>4. Rising' BY RisingNext DEF Fresh
  <2> QED BY <2>1, <2>2, <2>3, <2>4 DEF Fresh
<1>3. IInv /\ Fresh => ReadsFresh
  BY FewAreFresh, TwoAreFew, OneByOneIsFresh DEF Fresh, ReadsFresh, Calm
<1> QED BY <1>1, <1>2, <1>3, Invariant, PTL DEF Spec

=============================================================================

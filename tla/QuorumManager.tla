--------------------------- MODULE QuorumManager ---------------------------
(***************************************************************************)
(* QuorumManager (internal/replication/quorum.go) on one key: Write reads  *)
(* the replicas' clocks one after the other, then stores its version on    *)
(* all of them in parallel; Read asks all of them in parallel, resolves    *)
(* the answers and repairs the replicas that lag behind after it has       *)
(* returned.  Any number of these operations run at the same time.         *)
(*                                                                         *)
(* The replicas FindReplicas names are fixed; each can become unreachable  *)
(* (crash, partition) and reachable again.  KVStore.Put replaces what is   *)
(* there, whatever its clock: a stale Put wins over a newer version.       *)
(***************************************************************************)
EXTENDS VectorClock, Sequences, FiniteSets

CONSTANTS
  Replicas,      \* the nodes FindReplicas returns, in this order:
  Order,         \*   a sequence of all of them
  W, R,          \* Config.W and Config.R; Config.N is their number
  Writes, Reads, \* bound: the operations of a behavior
  writerOf,      \* the writerID each write passes
  MaxDowns,      \* bound: replicas that become unreachable
  MaxUps         \* bound: replicas that become reachable again

N == Len(Order)

ASSUME QuorumAssumption ==
  /\ Order \in Seq(Replicas)
  /\ \A r \in Replicas : \E i \in 1 .. Len(Order) : Order[i] = r
  /\ Order # <<>>
  /\ W \in Nat \ {0} /\ R \in Nat \ {0}
  /\ writerOf \in [Writes -> Writers]
  /\ MaxDowns \in Nat /\ MaxUps \in Nat

None == [op |-> "none", clock |-> Zero, ts |-> 0]   \* no entry under the key
Entries == [op : Writes, clock : Clock, ts : Nat]

VARIABLES
  replica,     \* each replica's entry, or None
  up,          \* the reachable replicas
  downs, ups,  \* how often reachability has changed
  now,         \* the wall clock Write takes its timestamp from
  wr,          \* the state of each Write
  rd,          \* the state of each Read and of its repair
  raced        \* history: a repair hit a replica changed since it was read

vars == <<replica, up, downs, ups, now, wr, rd, raced>>

-----------------------------------------------------------------------------
Init ==
  /\ replica = [r \in Replicas |-> None]
  /\ up = Replicas
  /\ downs = 0 /\ ups = 0
  /\ now = 0
  /\ wr = [o \in Writes |-> [pc |-> "idle", ts |-> 0, base |-> Zero, i |-> 1,
                             todo |-> {}, acked |-> {}, after |-> {}]]
  /\ raced = FALSE
  /\ rd = [o \in Reads |-> [pc |-> "idle", todo |-> {}, got |-> [r \in Replicas |-> None],
                            best |-> None, stale |-> {}, acked |-> {}, ended |-> {}]]

\* Writes that have returned, and those that have returned success.
Ended == {o \in Writes : wr[o].pc \in {"ok", "failed"}}
Acked == {o \in Writes : wr[o].pc = "ok"}

-----------------------------------------------------------------------------
(* Write.                                                                  *)

\* The timestamp is taken before anything else.
StartWrite(o) ==
  /\ wr[o].pc = "idle"
  /\ now' = now + 1
  /\ wr' = [wr EXCEPT ![o].pc = "clock", ![o].ts = now + 1, ![o].after = Ended]
  /\ UNCHANGED <<replica, up, downs, ups, rd, raced>>

\* readMergedClock: one replica at a time, skipping those that do not answer.
Merged(o, r) ==
  IF r \in up /\ replica[r] # None THEN Merge(wr[o].base, replica[r].clock) ELSE wr[o].base

\* Seeded fault: the loop over the replicas runs once too often.
ReadClockPast(o) ==
  /\ wr[o].pc = "clock"
  /\ wr' = [wr EXCEPT ![o].base = Merged(o, Order[wr[o].i]),
                      ![o].i = @ + 1,
                      ![o].pc = IF wr[o].i > N THEN "put" ELSE "clock",
                      ![o].todo = IF wr[o].i > N THEN Replicas ELSE {}]
  /\ UNCHANGED <<replica, up, downs, ups, now, rd, raced>>

ReadClock(o) ==
  /\ wr[o].pc = "clock"
  /\ wr' = [wr EXCEPT ![o].base = Merged(o, Order[wr[o].i]),
                      ![o].i = @ + 1,
                      ![o].pc = IF wr[o].i = N THEN "put" ELSE "clock",
                      ![o].todo = IF wr[o].i = N THEN Replicas ELSE {}]
  /\ UNCHANGED <<replica, up, downs, ups, now, rd, raced>>

Version(o) == [op |-> o, clock |-> Increment(wr[o].base, writerOf[o]), ts |-> wr[o].ts]

\* PutEntry at replica r; the store takes whatever it is given.
Put(r, e) == replica' = [replica EXCEPT ![r] = e]

\* Seeded fault: a replica that did not answer counts as an ack.
PutReplicaAcks(o, r) ==
  /\ r \in wr[o].todo
  /\ IF r \in up THEN Put(r, Version(o)) ELSE UNCHANGED replica
  /\ wr' = [wr EXCEPT ![o].todo = @ \ {r}, ![o].acked = @ \cup {r}]
  /\ UNCHANGED <<up, downs, ups, now, rd, raced>>

PutReplica(o, r) ==
  /\ r \in wr[o].todo
  /\ IF r \in up
     THEN /\ Put(r, Version(o))
          /\ wr' = [wr EXCEPT ![o].todo = @ \ {r}, ![o].acked = @ \cup {r}]
     ELSE /\ UNCHANGED replica
          /\ wr' = [wr EXCEPT ![o].todo = @ \ {r}]
  /\ UNCHANGED <<up, downs, ups, now, rd, raced>>

\* Write waits for every replica's goroutine, not only for W of them.
WaitsFor(o) == wr[o].todo = {}

FinishWrite(o) ==
  /\ wr[o].pc = "put"
  /\ WaitsFor(o)
  /\ wr' = [wr EXCEPT ![o].pc = IF Cardinality(wr[o].acked) >= W THEN "ok" ELSE "failed"]
  /\ UNCHANGED <<replica, up, downs, ups, now, rd, raced>>

-----------------------------------------------------------------------------
(* Read.                                                                   *)

StartRead(o) ==
  /\ rd[o].pc = "idle"
  /\ rd' = [rd EXCEPT ![o].pc = "get", ![o].todo = Replicas,
                      ![o].acked = Acked, ![o].ended = Ended]
  /\ UNCHANGED <<replica, up, downs, ups, now, wr, raced>>

\* A response arrives.  best is Resolve of the responses so far, in the order
\* they came, which is the order Resolve goes through them.
GetReplica(o, r) ==
  /\ rd[o].pc = "get"
  /\ r \in rd[o].todo
  /\ LET e == IF r \in up THEN replica[r] ELSE None IN
     rd' = [rd EXCEPT ![o].todo = @ \ {r},
                      ![o].got[r] = e,
                      ![o].best = IF e = None THEN @
                                  ELSE IF @ = None THEN e ELSE Pick(@, e)]
  /\ UNCHANGED <<replica, up, downs, ups, now, wr, raced>>

Responses(o) == {r \in Replicas : rd[o].got[r] # None}

\* Seeded fault: the comparison turned around.
LaggingSwapped(o) ==
  {r \in Responses(o) : Compare(rd[o].got[r].clock, rd[o].best.clock) = "After"}

\* Whom readRepair writes to.
Lagging(o) ==
  {r \in Responses(o) : Compare(rd[o].got[r].clock, rd[o].best.clock) = "Before"}

FinishRead(o) ==
  /\ rd[o].pc = "get"
  /\ rd[o].todo = {}
  /\ rd' = IF Cardinality(Responses(o)) < R
           THEN [rd EXCEPT ![o].pc = "failed"]
           ELSE [rd EXCEPT ![o].pc = "returned", ![o].stale = Lagging(o)]
  /\ UNCHANGED <<replica, up, downs, ups, now, wr, raced>>

\* readRepair, running on after Read has returned.
RepairReplica(o, r) ==
  /\ rd[o].pc = "returned"
  /\ r \in rd[o].stale
  /\ rd' = [rd EXCEPT ![o].stale = @ \ {r}]
  /\ IF r \in up THEN Put(r, rd[o].best) ELSE UNCHANGED replica
  /\ raced' = (raced \/ (r \in up /\ replica[r] # rd[o].got[r]))
  /\ UNCHANGED <<up, downs, ups, now, wr>>

-----------------------------------------------------------------------------
(* The replicas' reachability.                                             *)

Fail(r) ==
  /\ r \in up
  /\ downs < MaxDowns
  /\ up' = up \ {r}
  /\ downs' = downs + 1
  /\ UNCHANGED <<replica, ups, now, wr, rd, raced>>

Return(r) ==
  /\ r \notin up
  /\ ups < MaxUps
  /\ up' = up \cup {r}
  /\ ups' = ups + 1
  /\ UNCHANGED <<replica, downs, now, wr, rd, raced>>

-----------------------------------------------------------------------------
WriteStep(o) ==
  \/ StartWrite(o) \/ ReadClock(o) \/ FinishWrite(o)
  \/ \E r \in Replicas : PutReplica(o, r)

ReadStep(o) ==
  \/ StartRead(o) \/ FinishRead(o)
  \/ \E r \in Replicas : GetReplica(o, r) \/ RepairReplica(o, r)

Next ==
  \/ \E o \in Writes : WriteStep(o)
  \/ \E o \in Reads : ReadStep(o)
  \/ \E r \in Replicas : Fail(r) \/ Return(r)

Spec == Init /\ [][Next]_vars

-----------------------------------------------------------------------------
(* What must hold.  The history fields after, acked and ended record, when *)
(* an operation starts, which writes had returned by then.                 *)

\* Type invariant.
TypeOK ==
  /\ replica \in [Replicas -> Entries \cup {None}]
  /\ up \subseteq Replicas
  /\ downs \in 0 .. MaxDowns /\ ups \in 0 .. MaxUps
  /\ now \in Nat
  /\ wr \in [Writes -> [pc : {"idle", "clock", "put", "ok", "failed"}, ts : Nat,
                        base : Clock, i : 1 .. N + 1, todo : SUBSET Replicas,
                        acked : SUBSET Replicas, after : SUBSET Writes]]
  /\ \A o \in Writes : wr[o].pc = "clock" => wr[o].i <= N
  /\ rd \in [Reads -> [pc : {"idle", "get", "returned", "failed"},
                       todo : SUBSET Replicas, got : [Replicas -> Entries \cup {None}],
                       best : Entries \cup {None}, stale : SUBSET Replicas,
                       acked : SUBSET Writes, ended : SUBSET Writes]]
  /\ raced \in BOOLEAN

\* SPEC.md: "Guarantee: W + R > N -> no stale read".  A read never returns a
\* version whose write had returned before another write started that was
\* acknowledged before the read started.
NoStaleRead ==
  \A o \in Reads :
    rd[o].pc = "returned" => \A w \in rd[o].acked : rd[o].best.op \notin wr[w].after

Started == {w \in Writes : wr[w].pc # "idle"}

\* No two of the writes so far were under way at the same time.
OneByOne == \A v, w \in Started : v # w => v \in wr[w].after \/ w \in wr[v].after

\* Reads are fresh as long as there are no more than two writes, whatever fails and
\* returns and whatever repairs do; and for any number of writes that come one by
\* one, as long as no replica has returned and no read-repair has overwritten a
\* version that reached its replica after the repairing read looked there.  Each
\* condition is needed with three writes: a repair can put an old version back, so
\* can a slow write, and a write that reads the clocks of replicas that are back
\* from an outage can end with a smaller clock than an older one.
ReadsFresh ==
  \/ Cardinality(Started) <= 2
  \/ OneByOne /\ ups = 0 /\ ~raced
  => NoStaleRead

\* Once a read that ran against finished writes only has repaired what it saw,
\* no reachable replica that answered it is causally behind its result (one
\* that comes back has missed the repair: readRepair does not try again).
RepairConverges ==
  \A o \in Reads :
    /\ ~raced /\ ups = 0
    /\ rd[o].pc = "returned" /\ rd[o].stale = {}
    /\ \A w \in Writes : wr[w].pc = "idle" \/ w \in rd[o].ended
    => \A r \in Responses(o) \cap up :
         Compare(replica[r].clock, rd[o].best.clock) # "Before"

=============================================================================

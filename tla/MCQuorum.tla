------------------------------ MODULE MCQuorum ------------------------------
(***************************************************************************)
(* Instances of QuorumManager for TLC.  Every write goes through the       *)
(* gateway, so there is one writer identity, as in Orchestrator.Insert.    *)
(***************************************************************************)
EXTENDS QuorumManager, TLC

CONSTANTS r1, r2, w0

TwoReplicas == <<r1, r2>>
Gateway == [o \in Writes |-> "gateway"]

\* The state a first, undisturbed write w0 leaves behind.
Seed == [op |-> w0, clock |-> [x \in Writers |-> 1], ts |-> 1]

SeededInit ==
  /\ replica = [r \in Replicas |-> Seed]
  /\ up = Replicas
  /\ downs = 0 /\ ups = 0
  /\ now = 1
  /\ wr = [o \in Writes |->
             IF o = w0 THEN [pc |-> "ok", ts |-> 1, base |-> Zero, i |-> N + 1,
                             todo |-> {}, acked |-> Replicas, after |-> {}]
             ELSE [pc |-> "idle", ts |-> 0, base |-> Zero, i |-> 1,
                   todo |-> {}, acked |-> {}, after |-> {}]]
  /\ raced = FALSE
  /\ rd = [o \in Reads |-> [pc |-> "idle", todo |-> {}, got |-> [r \in Replicas |-> None],
                            best |-> None, stale |-> {}, acked |-> {}, ended |-> {}]]

SeededSpec == SeededInit /\ [][Next]_vars

\* Operations of one kind are interchangeable, the finished write w0 apart.
Symmetry == Permutations(Writes \ {w0}) \cup Permutations(Reads)

=============================================================================

---------------------------- MODULE NodeProcess ----------------------------
(***************************************************************************)
(* A stand-alone node (cmd/node) with a data directory: the HTTP API, the  *)
(* store in memory that it shares with the RPCs of the other nodes, and    *)
(* the database on disk (internal/badgerstore) that only the API writes    *)
(* to.  The process may crash and restart at any moment; it then fills the *)
(* memory from the disk, with its RPC server already up.                   *)
(*                                                                         *)
(* Keys are independent of each other and the module is about one of them. *)
(* A write to it is its number.  What other nodes send is a write of its   *)
(* own, whatever it says; which versions they send is the subject of the   *)
(* modules on replication.                                                 *)
(***************************************************************************)
EXTENDS Naturals, FiniteSets

CONSTANTS
  Client,                         \* HTTP requests under way at a time
  MaxWrites, MaxGets,             \* bounds on the writes and on the reads,
  MaxStarts, MaxDiskErrors        \*   the starts and the failed writes to disk

ASSUME NodeProcessAssumption ==
  MaxWrites \in Nat /\ MaxGets \in Nat /\ MaxStarts \in Nat /\ MaxDiskErrors \in Nat

Write == 1 .. MaxWrites
None == 0                         \* no entry

VARIABLES
  up,                             \* "down", "seed", "join", "serve", "drain", "leave", "closed"
  mem, disk,                      \* the entry in the store and in the database
  seed,                           \* what is still to be copied from disk at the start
  req,                            \* client -> the request it has under way
  writes,                         \* writes so far
  mortal,                         \* the writes that have a TTL
  done,                           \* history: puts acknowledged
  before,                         \*   write -> puts acknowledged when it began
  stale,                          \*   a get missed a put answered before it
  raced,                          \*   a get warmed the memory across a put
  gets, starts, errors            \* used so far

store == <<mem, disk, seed>>
ledger == <<writes, mortal, done, before>>
budget == <<gets, starts, errors>>
vars == <<up, store, req, ledger, stale, raced, budget>>

\* A request of client c: the write in hand, and the puts acknowledged before it.
Req(op, pc, w, since) == [op |-> op, pc |-> pc, write |-> w, since |-> since]
NoReq == Req("none", "none", None, {})
Runs == up # "down"

\* An answer reaches the client: the timeout of Shutdown is longer than that of a
\* write, so that no answer gets through once main has gone on.
Heard == up \in {"serve", "drain"}
Reply(c) == req' = [req EXCEPT ![c] = NoReq]

\* A new write, with or without a TTL.
Writes(ttl) ==
  /\ writes < MaxWrites
  /\ writes' = writes + 1
  /\ mortal' = IF ttl THEN mortal \cup {writes + 1} ELSE mortal
  /\ before' = [before EXCEPT ![writes + 1] = done]

-----------------------------------------------------------------------------
(* put: to memory, then to disk, then the answer                             *)

Put(c) ==
  /\ up = "serve" /\ req[c] = NoReq
  /\ Writes(FALSE)
  /\ req' = [req EXCEPT ![c] = Req("put", "memory", writes + 1, {})]
  /\ UNCHANGED <<up, store, done, stale, raced, budget>>

\* Mutant: answered before the database has it.
PutMemoryAnswers(c) ==
  /\ Runs /\ req[c].op = "put" /\ req[c].pc = "memory"
  /\ mem' = req[c].write
  /\ done' = IF Heard THEN done \cup {req[c].write} ELSE done
  /\ req' = [req EXCEPT ![c].pc = "disk"]
  /\ UNCHANGED <<up, disk, seed, writes, mortal, before, stale, raced, budget>>

PutMemory(c) ==
  /\ Runs /\ req[c].op = "put" /\ req[c].pc = "memory"
  /\ mem' = req[c].write
  /\ req' = [req EXCEPT ![c].pc = "disk"]
  /\ UNCHANGED <<up, disk, seed, ledger, stale, raced, budget>>

PutDisk(c) ==
  /\ up \notin {"down", "closed"} /\ req[c].op = "put" /\ req[c].pc = "disk"
  /\ disk' = req[c].write
  /\ done' = IF Heard THEN done \cup {req[c].write} ELSE done
  /\ Reply(c)
  /\ UNCHANGED <<up, mem, seed, writes, mortal, before, stale, raced, budget>>

\* An error of the database, or the database already closed: answered 500, and the
\* value stays in memory.
PutFails(c) ==
  /\ Runs /\ req[c].op = "put" /\ req[c].pc = "disk"
  /\ up = "closed" \/ errors < MaxDiskErrors
  /\ errors' = IF up = "closed" THEN errors ELSE errors + 1
  /\ Reply(c)
  /\ UNCHANGED <<up, store, ledger, stale, raced, gets, starts>>

-----------------------------------------------------------------------------
(* get: from memory, else from disk and then into memory                     *)

Get(c) ==
  /\ up = "serve" /\ req[c] = NoReq /\ gets < MaxGets
  /\ gets' = gets + 1
  /\ req' = [req EXCEPT ![c] = Req("get", "memory", None, done)]
  /\ UNCHANGED <<up, store, ledger, stale, raced, starts, errors>>

\* The answer w (None: not found) of request c, stale if a put that was acknowledged
\* before the request is later than w.
Answer(c, w) ==
  /\ stale' = (stale \/ (Heard /\ \E p \in req[c].since : w = None \/ w \in before[p]))
  /\ Reply(c)

\* Mutant: what is not in memory is not found.
GetMemoryOnly(c) ==
  /\ Runs /\ req[c].op = "get" /\ req[c].pc = "memory"
  /\ Answer(c, mem)
  /\ UNCHANGED <<up, store, ledger, raced, budget>>

GetMemory(c) ==
  /\ Runs /\ req[c].op = "get" /\ req[c].pc = "memory"
  /\ IF mem # None THEN Answer(c, mem)
     ELSE req' = [req EXCEPT ![c].pc = "disk"] /\ UNCHANGED stale
  /\ UNCHANGED <<up, store, ledger, raced, budget>>

GetDisk(c) ==
  LET w == IF up = "closed" THEN None ELSE disk
  IN  /\ Runs /\ req[c].op = "get" /\ req[c].pc = "disk"
      /\ IF w = None THEN Answer(c, None)
         ELSE req' = [req EXCEPT ![c] = Req("get", "warm", w, @.since)] /\ UNCHANGED stale
      /\ UNCHANGED <<up, store, ledger, raced, budget>>

\* The memory is written whatever it holds by now.
GetWarm(c) ==
  /\ Runs /\ req[c].op = "get" /\ req[c].pc = "warm"
  /\ mem' = req[c].write
  /\ raced' = \/ raced \/ mem # None \/ disk # req[c].write
               \/ \E d \in Client : req[d].op = "put" /\ req[d].pc = "disk"
  /\ Answer(c, req[c].write)
  /\ UNCHANGED <<up, disk, seed, ledger, budget>>

-----------------------------------------------------------------------------
(* What other nodes do to the memory, and what happens in it                 *)

\* Mutant: an entry received goes to disk as well.
ReceiveKeeps(ttl) ==
  /\ Runs /\ Writes(ttl)
  /\ mem' = writes + 1
  /\ disk' = writes + 1
  /\ UNCHANGED <<up, seed, req, done, stale, raced, budget>>

\* serveRPC: PutEntry, KStore and TransferKeys put an entry in memory, never on
\* disk; and so does the transfer of keys when the node joins.
Receive(ttl) ==
  /\ Runs /\ Writes(ttl)
  /\ mem' = writes + 1
  /\ UNCHANGED <<up, disk, seed, req, done, stale, raced, budget>>

\* An entry with a TTL expires.
Expire ==
  /\ Runs /\ mem \in mortal
  /\ mem' = None
  /\ UNCHANGED <<up, disk, seed, req, ledger, stale, raced, budget>>

-----------------------------------------------------------------------------
(* main                                                                      *)

NoReqs == [c \in Client |-> NoReq]

\* The RPC server goes up, then GetAll reads the database.
Start ==
  /\ up = "down" /\ up' = "seed" /\ starts < MaxStarts
  /\ starts' = starts + 1
  /\ seed' = disk
  /\ UNCHANGED <<mem, disk, req, ledger, stale, raced, gets, errors>>

\* seedFromBadger overwrites what has arrived by RPC in the meantime.
Seed ==
  /\ up = "seed" /\ seed # None
  /\ mem' = seed
  /\ seed' = None
  /\ UNCHANGED <<up, disk, req, ledger, stale, raced, budget>>

SeedEnds == up = "seed" /\ seed = None /\ up' = "join" /\ UNCHANGED <<store, req, ledger, stale, raced, budget>>

\* joinDHT or createDHT, then the HTTP API.
Joined == up = "join" /\ up' = "serve" /\ UNCHANGED <<store, req, ledger, stale, raced, budget>>

\* A signal: no new requests, Shutdown waits for the others, ten seconds at most.
Drain == up = "serve" /\ up' = "drain" /\ UNCHANGED <<store, req, ledger, stale, raced, budget>>
Leave == up = "drain" /\ up' = "leave" /\ UNCHANGED <<store, req, ledger, stale, raced, budget>>
Close == up = "leave" /\ up' = "closed" /\ UNCHANGED <<store, req, ledger, stale, raced, budget>>

Gone ==
  /\ up' = "down" /\ mem' = None /\ seed' = None /\ req' = NoReqs
  /\ UNCHANGED <<disk, ledger, stale, raced, budget>>

\* The end of main; a join that failed; a crash.
Exit == up \in {"closed", "join"} /\ Gone
Crash == Runs /\ Gone

-----------------------------------------------------------------------------
Init ==
  /\ up = "down" /\ mem = None /\ disk = None /\ seed = None /\ req = NoReqs
  /\ writes = 0 /\ mortal = {} /\ done = {} /\ before = [w \in Write |-> {}]
  /\ stale = FALSE /\ raced = FALSE
  /\ gets = 0 /\ starts = 0 /\ errors = 0

Next ==
  \/ \E c \in Client :
       \/ PutMemory(c) \/ PutDisk(c) \/ PutFails(c) \/ GetMemory(c) \/ GetDisk(c) \/ GetWarm(c)
       \/ Put(c) \/ Get(c)
  \/ \E ttl \in BOOLEAN : Receive(ttl)
  \/ Expire \/ Start \/ Seed \/ SeedEnds \/ Joined \/ Drain \/ Leave \/ Close \/ Exit \/ Crash

Spec == Init /\ [][Next]_vars

-----------------------------------------------------------------------------
\* Only what the API wrote, and so nothing with a TTL, is on disk (main.go:115),
\* and nothing but the disk outlives the process.
TypeOK ==
  /\ {mem, disk, seed} \subseteq 0 .. writes /\ done \cup mortal \subseteq 1 .. writes
  /\ disk \notin mortal
  /\ seed # None => up = "seed"
  /\ ~Runs => mem = None /\ req = NoReqs

\* A put that was answered 201 (main.go:258) is on disk, or a put that was not over
\* when it began: whichever crash, shutdown or failed write came in between.
Durable == \A p \in done : disk # None /\ disk \notin before[p]

\* A get never misses a put that was answered before it, nor gives a value that was
\* overwritten by one, across restarts and the expiry of what others sent; except
\* that a get that found nothing in memory puts what it read from disk over a put
\* that came in the meantime (main.go:130).
GetFresh == stale => raced
=============================================================================

------------------------- MODULE NodeProcessProofs -------------------------
(***************************************************************************)
(* Proofs about NodeProcess, for any number of clients, writes, starts and *)
(* failures: what is on disk, that an answered put is durable, and that a  *)
(* get is fresh.                                                           *)
(***************************************************************************)
EXTENDS NodeProcess, TLAPS

Entry == Write \cup {None}
Request == [op : {"none", "put", "get"}, pc : {"none", "memory", "disk", "warm"},
            write : Entry, since : SUBSET Write]

Types ==
  /\ writes \in 0 .. MaxWrites
  /\ mem \in Entry /\ disk \in Entry /\ seed \in Entry
  /\ done \in SUBSET Write /\ mortal \in SUBSET Write
  /\ before \in [Write -> SUBSET Write]
  /\ up \in {"down", "seed", "join", "serve", "drain", "leave", "closed"}
  /\ req \in [Client -> Request]

\* No number has been used that is not yet given out.
Bounds ==
  /\ mem <= writes /\ disk <= writes /\ seed <= writes
  /\ \A w \in done \cup mortal : w <= writes
  /\ \A c \in Client : req[c].write <= writes

\* A put under way has a number of its own, not yet answered and without a TTL.
Flights ==
  /\ \A c \in Client : req[c].op = "put" => req[c].write \in Write /\ req[c].write \notin done \cup mortal
  /\ \A c, d \in Client : req[c].op = "put" /\ req[d].op = "put" /\ c # d => req[c].write # req[d].write

\* While the process starts it has no requests, and what is to be seeded is on disk.
Starting ==
  /\ up \in {"down", "seed", "join"} => req = NoReqs
  /\ seed # None => up = "seed" /\ seed = disk
  /\ up = "down" => mem = None

\* Only answered puts are answered before another, and no write with a TTL gets
\* where the API writes.
Ledger ==
  /\ \A w \in Write : before[w] \subseteq done
  /\ disk \notin mortal /\ done \cap mortal = {}

IInv == Types /\ Bounds /\ Flights /\ Starting /\ Ledger /\ Durable

-----------------------------------------------------------------------------
LEMMA InitIInv == Init => IInv
<1> SUFFICES ASSUME Init PROVE IInv
  OBVIOUS
<1> USE NodeProcessAssumption DEF Init, None, Write
<1>1. Types
  BY DEF Types, NoReqs, NoReq, Req, Entry, Request
<1>2. Bounds /\ Flights /\ Starting /\ Ledger /\ Durable
  BY DEF Bounds, Flights, Starting, Ledger, Durable, NoReqs, NoReq, Req
<1> QED
  BY <1>1, <1>2 DEF IInv

\* What the invariant says of one request.
LEMMA RequestOK ==
  ASSUME IInv, NEW c \in Client
  PROVE  /\ req[c] \in Request /\ req[c].write \in Nat /\ req[c].write <= writes
         /\ writes \in Nat /\ writes + 1 \notin done \cup mortal
<1>0. Types /\ Bounds
  BY DEF IInv
<1>1. req[c] \in Request
  BY <1>0 DEF Types
<1>2. req[c].write \in Nat
  BY <1>1, NodeProcessAssumption DEF Request, Entry, Write, None
<1> QED
  BY <1>0, <1>1, <1>2, NodeProcessAssumption DEF Types, Bounds, Write

\* A put begins: it has a new number.
LEMMA PutStep == ASSUME IInv, NEW c \in Client, Put(c) PROVE IInv'
<1> USE NodeProcessAssumption DEF None, Write, Put, Writes, Req, NoReq, store, budget
<1>0. Types /\ Bounds /\ Flights /\ Starting /\ Ledger /\ Durable
  BY DEF IInv
<1>a. writes + 1 \in Write /\ writes + 1 \notin done \cup mortal
  BY <1>0, RequestOK DEF Types
<1>b. \A d \in Client : req[d].write \in Nat /\ req[d].write <= writes
  BY RequestOK
<1>1. Types'
  BY <1>0, <1>a, <1>b DEF Types, Request, Entry
<1>2. Bounds'
  BY <1>0, <1>a, <1>b DEF Types, Bounds, Entry
<1>3. Flights'
  BY <1>0, <1>a, <1>b DEF Types, Flights
<1>4. Starting'
  BY <1>0, <1>a, <1>b DEF Starting
<1>5. Ledger' /\ Durable'
  BY <1>0, <1>a, <1>b DEF Types, Ledger, Durable
<1> QED
  BY <1>1, <1>2, <1>3, <1>4, <1>5 DEF IInv

\* A put reaches the memory.
LEMMA PutMemoryStep == ASSUME IInv, NEW c \in Client, PutMemory(c) PROVE IInv'
<1> USE NodeProcessAssumption DEF None, Write, PutMemory, Runs, ledger, budget
<1>0. Types /\ Bounds /\ Flights /\ Starting /\ Ledger /\ Durable
  BY DEF IInv
<1>a. req[c] \in Request /\ req[c].write \in Nat /\ req[c].write <= writes
  BY RequestOK
<1>1. Types'
  BY <1>0, <1>a DEF Types, Request, Entry
<1>2. Bounds'
  BY <1>0, <1>a DEF Types, Bounds, Entry
<1>3. Flights'
  BY <1>0, <1>a DEF Types, Flights
<1>4. Starting'
  BY <1>0, <1>a DEF Starting, NoReqs, NoReq, Req
<1>5. Ledger' /\ Durable'
  BY <1>0, <1>a DEF Types, Ledger, Durable
<1> QED
  BY <1>1, <1>2, <1>3, <1>4, <1>5 DEF IInv

\* A put reaches the disk and is answered.
LEMMA PutDiskStep == ASSUME IInv, NEW c \in Client, PutDisk(c) PROVE IInv'
<1> USE NodeProcessAssumption DEF None, Write, PutDisk, Reply, NoReq, Req, Heard, budget
<1>0. Types /\ Bounds /\ Flights /\ Starting /\ Ledger /\ Durable
  BY DEF IInv
<1>a. req[c] \in Request /\ req[c].write \in Nat /\ req[c].write <= writes
  BY RequestOK
<1>b. /\ req[c].write \in Write /\ req[c].write \notin done \cup mortal
      /\ \A w \in Write : req[c].write \notin before[w]
  BY <1>0 DEF Flights, Ledger
<1>c. req' = [req EXCEPT ![c] = NoReq] /\ NoReq \in Request
  BY DEF Request, Entry
<1>d. done' = done \/ done' = done \cup {req[c].write}
  OBVIOUS
<1>1. Types'
  BY <1>0, <1>b, <1>c, <1>d DEF Types, Entry
<1>2. Bounds'
  BY <1>0, <1>a DEF Types, Bounds, Entry
<1>3. Flights'
  BY <1>0, <1>a DEF Types, Flights
<1>4. Starting'
  BY <1>0, <1>a DEF Starting, NoReqs
<1>5. Ledger' /\ Durable'
  <2>1. disk' = req[c].write /\ before' = before /\ mortal' = mortal /\ done \subseteq done'
    BY <1>d
  <2>2. Ledger'
    BY <1>0, <1>b, <1>d, <2>1 DEF Types, Ledger
  <2>3. done' \subseteq Write
    BY <1>1 DEF Types
  <2>4. Durable'
    BY <1>b, <2>1, <2>3 DEF Durable
  <2> QED
    BY <2>2, <2>4
<1> QED
  BY <1>1, <1>2, <1>3, <1>4, <1>5 DEF IInv

\* A put fails.
LEMMA PutFailsStep == ASSUME IInv, NEW c \in Client, PutFails(c) PROVE IInv'
<1> USE NodeProcessAssumption DEF None, Write, PutFails, Runs, Reply, NoReq, Req, store, ledger
<1>0. Types /\ Bounds /\ Flights /\ Starting /\ Ledger /\ Durable
  BY DEF IInv
<1>a. req[c] \in Request /\ req[c].write \in Nat /\ req[c].write <= writes
  BY RequestOK
<1>1. Types'
  BY <1>0, <1>a DEF Types, Request, Entry
<1>2. Bounds'
  BY <1>0, <1>a DEF Types, Bounds, Entry
<1>3. Flights'
  BY <1>0, <1>a DEF Types, Flights
<1>4. Starting'
  BY <1>0, <1>a DEF Starting, NoReqs
<1>5. Ledger' /\ Durable'
  BY <1>0, <1>a DEF Types, Ledger, Durable
<1> QED
  BY <1>1, <1>2, <1>3, <1>4, <1>5 DEF IInv

\* A get begins.
LEMMA GetStep == ASSUME IInv, NEW c \in Client, Get(c) PROVE IInv'
<1> USE NodeProcessAssumption DEF None, Write, Get, Req, NoReq, store, ledger
<1>0. Types /\ Bounds /\ Flights /\ Starting /\ Ledger /\ Durable
  BY DEF IInv
<1>1. Types'
  BY <1>0 DEF Types, Request, Entry
<1>2. Bounds'
  BY <1>0 DEF Types, Bounds, Entry
<1>3. Flights'
  BY <1>0 DEF Types, Flights
<1>4. Starting'
  BY <1>0 DEF Starting
<1>5. Ledger' /\ Durable'
  BY <1>0 DEF Types, Ledger, Durable
<1> QED
  BY <1>1, <1>2, <1>3, <1>4, <1>5 DEF IInv

\* A get looks in memory.
LEMMA GetMemoryStep == ASSUME IInv, NEW c \in Client, GetMemory(c) PROVE IInv'
<1> USE NodeProcessAssumption DEF None, Write, GetMemory, Runs, Answer, Reply, NoReq, Req, store, ledger, budget
<1>0. Types /\ Bounds /\ Flights /\ Starting /\ Ledger /\ Durable
  BY DEF IInv
<1>a. req[c] \in Request /\ req[c].write \in Nat /\ req[c].write <= writes
  BY RequestOK
<1>b. \/ req' = [req EXCEPT ![c] = [op |-> "get", pc |-> "disk", write |-> req[c].write, since |-> req[c].since]]
      \/ req' = [req EXCEPT ![c] = [op |-> "none", pc |-> "none", write |-> 0, since |-> {}]]
  BY <1>0, <1>a DEF Types, Request
<1>c. UNCHANGED <<up, mem, disk, seed, writes, mortal, done, before>>
  OBVIOUS
<1>1. Types'
  BY <1>0, <1>a DEF Types, Request, Entry
<1>2. Bounds'
  BY <1>0, <1>a, <1>b, <1>c DEF Types, Bounds, Entry
<1>3. Flights'
  BY <1>0, <1>b, <1>c DEF Types, Flights
<1>4. Starting'
  BY <1>0, <1>a DEF Starting, NoReqs
<1>5. Ledger' /\ Durable'
  BY <1>0, <1>a DEF Types, Ledger, Durable
<1> QED
  BY <1>1, <1>2, <1>3, <1>4, <1>5 DEF IInv

\* A get looks on disk.
LEMMA GetDiskStep == ASSUME IInv, NEW c \in Client, GetDisk(c) PROVE IInv'
<1> USE NodeProcessAssumption DEF None, Write, GetDisk, Runs, Answer, Reply, NoReq, Req, store, ledger, budget
<1>0. Types /\ Bounds /\ Flights /\ Starting /\ Ledger /\ Durable
  BY DEF IInv
<1>a. req[c] \in Request /\ req[c].write \in Nat /\ req[c].write <= writes
  BY RequestOK
<1>b. \/ req' = [req EXCEPT ![c] = [op |-> "get", pc |-> "warm", write |-> disk, since |-> req[c].since]]
      \/ req' = [req EXCEPT ![c] = [op |-> "none", pc |-> "none", write |-> 0, since |-> {}]]
  OBVIOUS
<1>c. UNCHANGED <<up, mem, disk, seed, writes, mortal, done, before>>
  OBVIOUS
<1>d. req[c].since \in SUBSET Write /\ disk \in Entry
  BY <1>0, <1>a DEF Types, Request
<1>e. req' \in [Client -> Request]
  BY <1>0, <1>b, <1>d DEF Types, Request, Entry
<1>1. Types'
  BY <1>0, <1>c, <1>e DEF Types
<1>2. Bounds'
  BY <1>0, <1>a, <1>b, <1>c DEF Types, Bounds, Entry
<1>3. Flights'
  BY <1>0, <1>b, <1>c DEF Types, Flights
<1>4. Starting'
  BY <1>0, <1>a DEF Starting, NoReqs
<1>5. Ledger' /\ Durable'
  BY <1>0, <1>a DEF Types, Ledger, Durable
<1> QED
  BY <1>1, <1>2, <1>3, <1>4, <1>5 DEF IInv

\* A get warms the memory.
LEMMA GetWarmStep == ASSUME IInv, NEW c \in Client, GetWarm(c) PROVE IInv'
<1> USE NodeProcessAssumption DEF None, Write, GetWarm, Runs, Answer, Reply, NoReq, Req, ledger, budget
<1>0. Types /\ Bounds /\ Flights /\ Starting /\ Ledger /\ Durable
  BY DEF IInv
<1>a. req[c] \in Request /\ req[c].write \in Nat /\ req[c].write <= writes
  BY RequestOK
<1>b. req' = [req EXCEPT ![c] = NoReq] /\ NoReq \in Request
  BY DEF Request, Entry
<1>c. req[c].write \in Entry
  BY <1>a DEF Request
<1>1. Types'
  BY <1>0, <1>b, <1>c DEF Types
<1>2. Bounds'
  BY <1>0, <1>a DEF Types, Bounds, Entry
<1>3. Flights'
  BY <1>0, <1>a DEF Types, Flights
<1>4. Starting'
  BY <1>0, <1>a DEF Starting, NoReqs
<1>5. Ledger' /\ Durable'
  BY <1>0, <1>a DEF Types, Ledger, Durable
<1> QED
  BY <1>1, <1>2, <1>3, <1>4, <1>5 DEF IInv

\* An entry is received.
LEMMA ReceiveStep == ASSUME IInv, NEW ttl \in BOOLEAN, Receive(ttl) PROVE IInv'
<1> USE NodeProcessAssumption DEF None, Write, Receive, Runs, Writes, budget
<1>0. Types /\ Bounds /\ Flights /\ Starting /\ Ledger /\ Durable
  BY DEF IInv
<1>a. writes \in Nat /\ writes + 1 \in Write /\ \A w \in done \cup mortal : w <= writes
  BY <1>0 DEF Types, Bounds
<1>b. writes + 1 \notin done \cup mortal /\ \A d \in Client : req[d].write \in Nat /\ req[d].write <= writes
  BY <1>a, RequestOK
<1>1. Types'
  BY <1>0, <1>a, <1>b DEF Types, Request, Entry
<1>2. Bounds'
  BY <1>0, <1>a, <1>b DEF Types, Bounds, Entry
<1>3. Flights'
  BY <1>0, <1>a, <1>b DEF Types, Flights
<1>4. Starting'
  BY <1>0, <1>a, <1>b DEF Starting
<1>c. disk # writes + 1 /\ \A w \in Write : before'[w] \subseteq done
  BY <1>0, <1>a DEF Types, Bounds, Ledger, Entry
<1>5. Ledger' /\ Durable'
  BY <1>0, <1>a, <1>b, <1>c DEF Types, Ledger, Durable
<1> QED
  BY <1>1, <1>2, <1>3, <1>4, <1>5 DEF IInv

\* An entry expires.
LEMMA ExpireStep == ASSUME IInv, Expire PROVE IInv'
<1> USE NodeProcessAssumption DEF None, Write, Expire, Runs, ledger, budget
<1>0. Types /\ Bounds /\ Flights /\ Starting /\ Ledger /\ Durable
  BY DEF IInv
<1>1. Types'
  BY <1>0 DEF Types, Request, Entry
<1>2. Bounds'
  BY <1>0 DEF Types, Bounds, Entry
<1>3. Flights'
  BY <1>0 DEF Types, Flights
<1>4. Starting'
  BY <1>0 DEF Starting
<1>5. Ledger' /\ Durable'
  BY <1>0 DEF Types, Ledger, Durable
<1> QED
  BY <1>1, <1>2, <1>3, <1>4, <1>5 DEF IInv

\* The process starts.
LEMMA StartStep == ASSUME IInv, Start PROVE IInv'
<1> USE NodeProcessAssumption DEF None, Write, Start, ledger
<1>0. Types /\ Bounds /\ Flights /\ Starting /\ Ledger /\ Durable
  BY DEF IInv
<1>1. Types'
  BY <1>0 DEF Types, Request, Entry
<1>2. Bounds'
  BY <1>0 DEF Types, Bounds, Entry
<1>3. Flights'
  BY <1>0 DEF Types, Flights
<1>4. Starting'
  BY <1>0 DEF Starting
<1>5. Ledger' /\ Durable'
  BY <1>0 DEF Types, Ledger, Durable
<1> QED
  BY <1>1, <1>2, <1>3, <1>4, <1>5 DEF IInv

\* The memory is seeded.
LEMMA SeedStep == ASSUME IInv, Seed PROVE IInv'
<1> USE NodeProcessAssumption DEF None, Write, Seed, ledger, budget
<1>0. Types /\ Bounds /\ Flights /\ Starting /\ Ledger /\ Durable
  BY DEF IInv
<1>1. Types'
  BY <1>0 DEF Types, Request, Entry
<1>2. Bounds'
  BY <1>0 DEF Types, Bounds, Entry
<1>3. Flights'
  BY <1>0 DEF Types, Flights
<1>4. Starting'
  BY <1>0 DEF Starting
<1>5. Ledger' /\ Durable'
  BY <1>0 DEF Types, Ledger, Durable
<1> QED
  BY <1>1, <1>2, <1>3, <1>4, <1>5 DEF IInv

\* The process goes on.
LEMMA UpStep == ASSUME IInv, SeedEnds \/ Joined \/ Drain \/ Leave \/ Close PROVE IInv'
<1> USE NodeProcessAssumption DEF None, Write, SeedEnds, Joined, Drain, Leave, Close, store, ledger, budget
<1>0. Types /\ Bounds /\ Flights /\ Starting /\ Ledger /\ Durable
  BY DEF IInv
<1>1. Types'
  BY <1>0 DEF Types, Request, Entry
<1>2. Bounds'
  BY <1>0 DEF Types, Bounds, Entry
<1>3. Flights'
  BY <1>0 DEF Types, Flights
<1>4. Starting'
  BY <1>0 DEF Starting
<1>5. Ledger' /\ Durable'
  BY <1>0 DEF Types, Ledger, Durable
<1> QED
  BY <1>1, <1>2, <1>3, <1>4, <1>5 DEF IInv

\* The process ends, one way or the other.
LEMMA GoneStep == ASSUME IInv, Exit \/ Crash PROVE IInv'
<1> USE NodeProcessAssumption DEF None, Write, Exit, Crash, Gone, Runs, ledger, budget
<1>0. Types /\ Bounds /\ Flights /\ Starting /\ Ledger /\ Durable
  BY DEF IInv
<1>a. NoReqs \in [Client -> Request] /\ \A c \in Client : NoReqs[c].write = 0 /\ NoReqs[c].op = "none"
  BY DEF NoReqs, NoReq, Req, Request, Entry
<1>b. /\ req' = NoReqs /\ mem' = 0 /\ seed' = 0 /\ up' = "down"
      /\ UNCHANGED <<disk, writes, mortal, done, before>>
  OBVIOUS
<1>1. Types'
  BY <1>0, <1>a, <1>b DEF Types, Entry
<1>2. Bounds'
  BY <1>0, <1>a, <1>b DEF Types, Bounds
<1>3. Flights'
  BY <1>0 DEF Types, Flights, NoReqs, NoReq, Req
<1>4. Starting'
  BY <1>0 DEF Starting, NoReqs
<1>5. Ledger' /\ Durable'
  BY <1>0 DEF Types, Ledger, Durable
<1> QED
  BY <1>1, <1>2, <1>3, <1>4, <1>5 DEF IInv

LEMMA NextIInv == IInv /\ [Next]_vars => IInv'
<1> SUFFICES ASSUME IInv, [Next]_vars PROVE IInv'
  OBVIOUS
<1>1. CASE \E c \in Client : \/ PutMemory(c) \/ PutDisk(c) \/ PutFails(c) \/ GetMemory(c)
                             \/ GetDisk(c) \/ GetWarm(c) \/ Put(c) \/ Get(c)
  BY <1>1, PutStep, PutMemoryStep, PutDiskStep, PutFailsStep, GetStep, GetMemoryStep, GetDiskStep,
     GetWarmStep
<1>2. CASE \E ttl \in BOOLEAN : Receive(ttl)
  BY <1>2, ReceiveStep
<1>3. CASE Expire \/ Start \/ Seed
  BY <1>3, ExpireStep, StartStep, SeedStep
<1>4. CASE SeedEnds \/ Joined \/ Drain \/ Leave \/ Close \/ Exit \/ Crash
  BY <1>4, UpStep, GoneStep
<1>5. CASE UNCHANGED vars
  BY <1>5 DEF vars, store, ledger, budget, IInv, Types, Bounds, Flights, Starting, Ledger, Durable, NoReqs
<1> QED
  BY <1>1, <1>2, <1>3, <1>4, <1>5 DEF Next

LEMMA Invariance == Spec => []IInv
<1>1. Init => IInv
  BY InitIInv
<1>2. IInv /\ [Next]_vars => IInv'
  BY NextIInv
<1> QED
  BY <1>1, <1>2, PTL DEF Spec

\* Nothing but what the API wrote is ever on disk, and a process that is down holds
\* nothing, for any number of clients and writes (main.go:103, 289).
THEOREM TypeCorrect == Spec => []TypeOK
<1>1. IInv => TypeOK
  BY NodeProcessAssumption
  DEF IInv, Types, Bounds, Starting, Ledger, TypeOK, Entry, Write, None, Runs
<1> QED
  BY <1>1, Invariance, PTL

\* An answered put is on disk, or one that was not over when it began, whatever
\* crashes, shutdowns and failures there are (main.go:113).
THEOREM PutsAreDurable == Spec => []Durable
<1>1. IInv => Durable
  BY DEF IInv
<1> QED
  BY <1>1, Invariance, PTL

-----------------------------------------------------------------------------
(* A get is fresh: the memory, unless a get has raced a put, holds nothing   *)
(* older than a put that is answered, or that has reached the memory and may *)
(* yet be answered.                                                          *)

Flags == stale \in BOOLEAN /\ raced \in BOOLEAN

Gets ==
  /\ \A c \in Client : req[c].op = "get" => req[c].since \subseteq done
  /\ \A c \in Client : req[c].op = "get" /\ req[c].pc = "warm" => req[c].write # None

Memory == raced = FALSE /\ mem # None => \A p \in done : mem \notin before[p]

Pending ==
  raced = FALSE /\ mem # None =>
    \A c \in Client : req[c].op = "put" /\ req[c].pc = "disk" => mem \notin before[req[c].write]

FInv == Flags /\ Gets /\ Memory /\ Pending /\ (stale = TRUE => raced = TRUE)

\* A put begins.
LEMMA PutFresh == ASSUME IInv, FInv, NEW c \in Client, Put(c) PROVE FInv'
<1> USE NodeProcessAssumption DEF None, Write, Put, Writes, Req, NoReq, store, budget
<1>0. Types /\ Bounds /\ Flights /\ Starting /\ Ledger /\ Durable
  BY DEF IInv
<1>1. Flags /\ Gets /\ Memory /\ Pending /\ (stale = TRUE => raced = TRUE)
  BY DEF FInv
<1>a. writes + 1 \in Write /\ writes + 1 \notin done \cup mortal /\ \A d \in Client : req[d].write # writes + 1
  BY <1>0, RequestOK DEF Types
<1>b. \A w \in Write : before[w] \subseteq done
  BY <1>0 DEF Ledger
<1>2. Flags' /\ (stale = TRUE => raced = TRUE)'
  BY <1>0, <1>1 DEF Flags
<1>3. Gets'
  BY <1>0, <1>1, <1>a DEF Types, Gets
<1>4. Memory'
  BY <1>0, <1>1, <1>a, <1>b DEF Types, Memory
<1>5. Pending'
  BY <1>0, <1>1, <1>a, <1>b DEF Types, Pending
<1> QED
  BY <1>2, <1>3, <1>4, <1>5 DEF FInv

\* A put reaches the memory: no other was answered before it began that is not older.
LEMMA PutMemoryFresh == ASSUME IInv, FInv, NEW c \in Client, PutMemory(c) PROVE FInv'
<1> USE NodeProcessAssumption DEF None, Write, PutMemory, Runs, ledger, budget
<1>0. Types /\ Bounds /\ Flights /\ Starting /\ Ledger /\ Durable
  BY DEF IInv
<1>1. Flags /\ Gets /\ Memory /\ Pending /\ (stale = TRUE => raced = TRUE)
  BY DEF FInv
<1>a. /\ req[c].write \in Write /\ req[c].write \notin done
      /\ \A w \in Write : req[c].write \notin before[w]
  BY <1>0 DEF Flights, Ledger
<1>2. Flags' /\ (stale = TRUE => raced = TRUE)'
  BY <1>0, <1>1 DEF Flags
<1>3. Gets'
  BY <1>0, <1>1 DEF Types, Gets
<1>4. Memory'
  BY <1>0, <1>1, <1>a DEF Types, Memory
<1>5. Pending'
  <2> SUFFICES ASSUME NEW d \in Client, req'[d].op = "put"
               PROVE  mem' \notin before'[req'[d].write]
    BY DEF Pending
  <2>1. req'[d].write = req[d].write /\ req[d].op = "put"
    BY <1>0 DEF Types
  <2>2. req[d].write \in Write
    BY <1>0, <2>1 DEF Flights
  <2> QED
    BY <1>a, <2>1, <2>2
<1> QED
  BY <1>2, <1>3, <1>4, <1>5 DEF FInv

\* A put is answered: what is in memory is no older than it.
LEMMA PutDiskFresh == ASSUME IInv, FInv, NEW c \in Client, PutDisk(c) PROVE FInv'
<1> USE NodeProcessAssumption DEF None, Write, PutDisk, Reply, NoReq, Req, Heard, budget
<1>0. Types /\ Bounds /\ Flights /\ Starting /\ Ledger /\ Durable
  BY DEF IInv
<1>1. Flags /\ Gets /\ Memory /\ Pending /\ (stale = TRUE => raced = TRUE)
  BY DEF FInv
<1>a. /\ req[c].write \in Write /\ req[c].write \notin done
      /\ \A w \in Write : req[c].write \notin before[w]
  BY <1>0 DEF Flights, Ledger
<1>2. Flags' /\ (stale = TRUE => raced = TRUE)'
  BY <1>0, <1>1 DEF Flags
<1>3. Gets'
  BY <1>0, <1>1 DEF Types, Gets
<1>4. Memory'
  <2>1. done' = done \/ done' = done \cup {req[c].write}
    OBVIOUS
  <2>2. raced = FALSE /\ mem # None => mem \notin before[req[c].write]
    BY <1>1 DEF Pending
  <2> QED
    BY <1>1, <2>1, <2>2 DEF Memory
<1>5. Pending'
  BY <1>0, <1>1, <1>a DEF Types, Pending
<1> QED
  BY <1>2, <1>3, <1>4, <1>5 DEF FInv

\* A put fails.
LEMMA PutFailsFresh == ASSUME IInv, FInv, NEW c \in Client, PutFails(c) PROVE FInv'
<1> USE NodeProcessAssumption DEF None, Write, PutFails, Runs, Reply, NoReq, Req, store, ledger
<1>0. Types /\ Bounds /\ Flights /\ Starting /\ Ledger /\ Durable
  BY DEF IInv
<1>1. Flags /\ Gets /\ Memory /\ Pending /\ (stale = TRUE => raced = TRUE)
  BY DEF FInv
<1>2. Flags' /\ (stale = TRUE => raced = TRUE)'
  BY <1>0, <1>1 DEF Flags
<1>3. Gets'
  BY <1>0, <1>1 DEF Types, Gets
<1>4. Memory'
  BY <1>0, <1>1 DEF Types, Memory
<1>5. Pending'
  BY <1>0, <1>1 DEF Types, Pending
<1> QED
  BY <1>2, <1>3, <1>4, <1>5 DEF FInv

\* A get begins.
LEMMA GetFreshStep == ASSUME IInv, FInv, NEW c \in Client, Get(c) PROVE FInv'
<1> USE NodeProcessAssumption DEF None, Write, Get, Req, NoReq, store, ledger
<1>0. Types /\ Bounds /\ Flights /\ Starting /\ Ledger /\ Durable
  BY DEF IInv
<1>1. Flags /\ Gets /\ Memory /\ Pending /\ (stale = TRUE => raced = TRUE)
  BY DEF FInv
<1>2. Flags' /\ (stale = TRUE => raced = TRUE)'
  BY <1>0, <1>1 DEF Flags
<1>3. Gets'
  BY <1>0, <1>1 DEF Types, Gets
<1>4. Memory'
  BY <1>0, <1>1 DEF Types, Memory
<1>5. Pending'
  BY <1>0, <1>1 DEF Types, Pending
<1> QED
  BY <1>2, <1>3, <1>4, <1>5 DEF FInv

\* A get answers from memory.
LEMMA GetMemoryFresh == ASSUME IInv, FInv, NEW c \in Client, GetMemory(c) PROVE FInv'
<1> USE NodeProcessAssumption DEF None, Write, GetMemory, Runs, Answer, Heard, Reply, NoReq, Req, store, ledger, budget
<1>0. Types /\ Bounds /\ Flights /\ Starting /\ Ledger /\ Durable
  BY DEF IInv
<1>1. Flags /\ Gets /\ Memory /\ Pending /\ (stale = TRUE => raced = TRUE)
  BY DEF FInv
<1>a. raced' = raced /\ mem' = mem /\ done' = done /\ before' = before
  OBVIOUS
<1>b. raced = FALSE /\ mem # None => \A p \in req[c].since : mem \notin before[p]
  BY <1>1 DEF Gets, Memory
<1>c. \/ stale' = stale
      \/ /\ mem # None
         /\ stale' = (stale \/ (Heard /\ \E p \in req[c].since : mem = None \/ mem \in before[p]))
  OBVIOUS
<1>2. Flags' /\ (stale = TRUE => raced = TRUE)'
  BY <1>1, <1>a, <1>b, <1>c DEF Flags
<1>d. \A d \in Client : req'[d].op = "get" =>
        req[d].op = "get" /\ req'[d].since = req[d].since /\ req'[d].write = req[d].write
        /\ (req'[d].pc = "warm" => req[d].pc = "warm")
  BY <1>0 DEF Types, Request
<1>3. Gets'
  BY <1>1, <1>a, <1>d DEF Gets
<1>4. Memory'
  BY <1>0, <1>1 DEF Types, Memory
<1>5. Pending'
  BY <1>0, <1>1 DEF Types, Pending
<1> QED
  BY <1>2, <1>3, <1>4, <1>5 DEF FInv

\* A get finds nothing on disk, or the entry to answer with.
LEMMA GetDiskFresh == ASSUME IInv, FInv, NEW c \in Client, GetDisk(c) PROVE FInv'
<1> USE NodeProcessAssumption DEF None, Write, GetDisk, Runs, Answer, Heard, Reply, NoReq, Req, store, ledger, budget
<1>0. Types /\ Bounds /\ Flights /\ Starting /\ Ledger /\ Durable
  BY DEF IInv
<1>1. Flags /\ Gets /\ Memory /\ Pending /\ (stale = TRUE => raced = TRUE)
  BY DEF FInv
<1>a. raced' = raced
  OBVIOUS
<1>b. Heard => up # "closed"
  OBVIOUS
<1>c. disk = None => req[c].since = {}
  BY <1>0, <1>1 DEF Gets, Durable
<1>d. \/ stale' = stale
      \/ /\ disk = None \/ ~Heard
         /\ stale' = (stale \/ (Heard /\ \E p \in req[c].since : None = None \/ None \in before[p]))
  BY <1>b
<1>2. Flags' /\ (stale = TRUE => raced = TRUE)'
  BY <1>1, <1>a, <1>c, <1>d DEF Flags
<1>3. Gets'
  BY <1>0, <1>1 DEF Types, Gets
<1>4. Memory'
  BY <1>0, <1>1 DEF Types, Memory
<1>5. Pending'
  BY <1>0, <1>1 DEF Types, Pending
<1> QED
  BY <1>2, <1>3, <1>4, <1>5 DEF FInv

\* A get answers from disk, which is durable.
LEMMA GetWarmFresh == ASSUME IInv, FInv, NEW c \in Client, GetWarm(c) PROVE FInv'
<1> USE NodeProcessAssumption DEF None, Write, GetWarm, Runs, Answer, Heard, Reply, NoReq, Req, ledger, budget
<1>0. Types /\ Bounds /\ Flights /\ Starting /\ Ledger /\ Durable
  BY DEF IInv
<1>1. Flags /\ Gets /\ Memory /\ Pending /\ (stale = TRUE => raced = TRUE)
  BY DEF FInv
<1>a. raced' \in BOOLEAN /\ (raced' = FALSE => raced = FALSE /\ disk = req[c].write)
  BY <1>1 DEF Flags
<1>b. raced' = FALSE => \A p \in done : req[c].write # None /\ req[c].write \notin before[p]
  BY <1>0, <1>1, <1>a DEF Durable, Gets
<1>c. stale' \in BOOLEAN
  BY <1>1 DEF Flags
<1>d. raced' = FALSE => stale' = FALSE
  BY <1>1, <1>a, <1>b DEF Flags, Gets
<1>2. Flags' /\ (stale = TRUE => raced = TRUE)'
  BY <1>a, <1>c, <1>d DEF Flags
<1>3. Gets'
  BY <1>0, <1>1 DEF Types, Gets
<1>4. Memory'
  BY <1>b DEF Memory
<1>5. Pending'
  BY <1>0, <1>1 DEF Types, Pending
<1> QED
  BY <1>2, <1>3, <1>4, <1>5 DEF FInv

\* An entry is received.
LEMMA ReceiveFresh == ASSUME IInv, FInv, NEW ttl \in BOOLEAN, Receive(ttl) PROVE FInv'
<1> USE NodeProcessAssumption DEF None, Write, Receive, Runs, Writes, budget
<1>0. Types /\ Bounds /\ Flights /\ Starting /\ Ledger /\ Durable
  BY DEF IInv
<1>1. Flags /\ Gets /\ Memory /\ Pending /\ (stale = TRUE => raced = TRUE)
  BY DEF FInv
<1>a. writes \in Nat /\ writes + 1 \in Write /\ writes + 1 \notin done
  BY <1>0 DEF Types, Bounds
<1>b. \A w \in Write : before[w] \subseteq done /\ before'[w] \subseteq done
  BY <1>0 DEF Types, Ledger
<1>c. \A d \in Client : req[d].op = "put" => req[d].write # writes + 1 /\ req[d].write \in Write
  BY <1>0, RequestOK DEF Flights
<1>d. \A p \in done : p # writes + 1
  BY <1>a
<1>2. Flags' /\ (stale = TRUE => raced = TRUE)'
  BY <1>0, <1>1 DEF Flags
<1>3. Gets'
  BY <1>0, <1>1 DEF Types, Gets
<1>4. Memory'
  BY <1>0, <1>1, <1>a, <1>b, <1>d DEF Types, Memory
<1>5. Pending'
  BY <1>0, <1>1, <1>a, <1>b, <1>c DEF Types, Pending
<1> QED
  BY <1>2, <1>3, <1>4, <1>5 DEF FInv

\* An entry expires.
LEMMA ExpireFresh == ASSUME IInv, FInv, Expire PROVE FInv'
<1> USE NodeProcessAssumption DEF None, Write, Expire, Runs, ledger, budget
<1>0. Types /\ Bounds /\ Flights /\ Starting /\ Ledger /\ Durable
  BY DEF IInv
<1>1. Flags /\ Gets /\ Memory /\ Pending /\ (stale = TRUE => raced = TRUE)
  BY DEF FInv
<1>2. Flags' /\ (stale = TRUE => raced = TRUE)'
  BY <1>0, <1>1 DEF Flags
<1>3. Gets'
  BY <1>0, <1>1 DEF Types, Gets
<1>4. Memory'
  BY <1>0, <1>1 DEF Types, Memory
<1>5. Pending'
  BY <1>0, <1>1 DEF Types, Pending
<1> QED
  BY <1>2, <1>3, <1>4, <1>5 DEF FInv

\* The process starts.
LEMMA StartFresh == ASSUME IInv, FInv, Start PROVE FInv'
<1> USE NodeProcessAssumption DEF None, Write, Start, ledger
<1>0. Types /\ Bounds /\ Flights /\ Starting /\ Ledger /\ Durable
  BY DEF IInv
<1>1. Flags /\ Gets /\ Memory /\ Pending /\ (stale = TRUE => raced = TRUE)
  BY DEF FInv
<1>2. Flags' /\ (stale = TRUE => raced = TRUE)'
  BY <1>0, <1>1 DEF Flags
<1>3. Gets'
  BY <1>0, <1>1 DEF Types, Gets
<1>4. Memory'
  BY <1>0, <1>1 DEF Types, Memory
<1>5. Pending'
  BY <1>0, <1>1 DEF Types, Pending
<1> QED
  BY <1>2, <1>3, <1>4, <1>5 DEF FInv

\* The memory is seeded from the disk, which is durable.
LEMMA SeedFresh == ASSUME IInv, FInv, Seed PROVE FInv'
<1> USE NodeProcessAssumption DEF None, Write, Seed, ledger, budget
<1>0. Types /\ Bounds /\ Flights /\ Starting /\ Ledger /\ Durable
  BY DEF IInv
<1>1. Flags /\ Gets /\ Memory /\ Pending /\ (stale = TRUE => raced = TRUE)
  BY DEF FInv
<1>a. seed = disk /\ \A c \in Client : req[c].op = "none"
  BY <1>0 DEF Starting, NoReqs, NoReq, Req
<1>2. Flags' /\ (stale = TRUE => raced = TRUE)'
  BY <1>0, <1>1 DEF Flags
<1>3. Gets'
  BY <1>0, <1>1 DEF Types, Gets
<1>4. Memory'
  BY <1>0, <1>a DEF Durable, Memory
<1>5. Pending'
  BY <1>0, <1>1, <1>a DEF Types, Pending
<1> QED
  BY <1>2, <1>3, <1>4, <1>5 DEF FInv

\* The process goes on.
LEMMA UpFresh == ASSUME IInv, FInv, SeedEnds \/ Joined \/ Drain \/ Leave \/ Close PROVE FInv'
<1> USE NodeProcessAssumption DEF None, Write, SeedEnds, Joined, Drain, Leave, Close, store, ledger, budget
<1>0. Types /\ Bounds /\ Flights /\ Starting /\ Ledger /\ Durable
  BY DEF IInv
<1>1. Flags /\ Gets /\ Memory /\ Pending /\ (stale = TRUE => raced = TRUE)
  BY DEF FInv
<1>2. Flags' /\ (stale = TRUE => raced = TRUE)'
  BY <1>0, <1>1 DEF Flags
<1>3. Gets'
  BY <1>0, <1>1 DEF Types, Gets
<1>4. Memory'
  BY <1>0, <1>1 DEF Types, Memory
<1>5. Pending'
  BY <1>0, <1>1 DEF Types, Pending
<1> QED
  BY <1>2, <1>3, <1>4, <1>5 DEF FInv

\* The process ends.
LEMMA GoneFresh == ASSUME IInv, FInv, Exit \/ Crash PROVE FInv'
<1> USE NodeProcessAssumption DEF None, Write, Exit, Crash, Gone, Runs, ledger, budget
<1>0. Types /\ Bounds /\ Flights /\ Starting /\ Ledger /\ Durable
  BY DEF IInv
<1>1. Flags /\ Gets /\ Memory /\ Pending /\ (stale = TRUE => raced = TRUE)
  BY DEF FInv
<1>a. \A c \in Client : req'[c].op = "none"
  BY DEF NoReqs, NoReq, Req
<1>2. Flags' /\ (stale = TRUE => raced = TRUE)'
  BY <1>0, <1>1 DEF Flags
<1>3. Gets'
  BY <1>0, <1>1, <1>a DEF Types, Gets
<1>4. Memory'
  BY <1>0, <1>1 DEF Types, Memory
<1>5. Pending'
  BY <1>0, <1>1, <1>a DEF Types, Pending
<1> QED
  BY <1>2, <1>3, <1>4, <1>5 DEF FInv

LEMMA NextFInv == IInv /\ FInv /\ [Next]_vars => FInv'
<1> SUFFICES ASSUME IInv, FInv, [Next]_vars PROVE FInv'
  OBVIOUS
<1>1. CASE \E c \in Client : \/ PutMemory(c) \/ PutDisk(c) \/ PutFails(c) \/ GetMemory(c)
                             \/ GetDisk(c) \/ GetWarm(c) \/ Put(c) \/ Get(c)
  BY <1>1, PutFresh, PutMemoryFresh, PutDiskFresh, PutFailsFresh, GetFreshStep, GetMemoryFresh,
     GetDiskFresh, GetWarmFresh
<1>2. CASE \E ttl \in BOOLEAN : Receive(ttl)
  BY <1>2, ReceiveFresh
<1>3. CASE Expire \/ Start \/ Seed
  BY <1>3, ExpireFresh, StartFresh, SeedFresh
<1>4. CASE SeedEnds \/ Joined \/ Drain \/ Leave \/ Close \/ Exit \/ Crash
  BY <1>4, UpFresh, GoneFresh
<1>5. CASE UNCHANGED vars
  BY <1>5 DEF vars, store, ledger, budget, FInv, Flags, Gets, Memory, Pending
<1> QED
  BY <1>1, <1>2, <1>3, <1>4, <1>5 DEF Next

\* A get is fresh unless a get raced a put (main.go:120), for any number of clients,
\* writes and restarts.
THEOREM GetsAreFresh == Spec => []GetFresh
<1>1. Init => FInv
  <2> SUFFICES ASSUME Init PROVE FInv
    OBVIOUS
  <2> USE DEF Init
  <2>1. Flags /\ (stale = TRUE => raced = TRUE)
    BY Zenon DEF Flags
  <2>2. Gets
    BY DEF Gets, NoReqs, NoReq, Req
  <2>3. Memory /\ Pending
    BY DEF Memory, Pending
  <2> QED
    BY <2>1, <2>2, <2>3 DEF FInv
<1>2. IInv /\ FInv /\ [Next]_vars => FInv'
  BY NextFInv
<1>3. FInv => GetFresh
  BY DEF FInv, Flags, GetFresh
<1> QED
  BY <1>1, <1>2, <1>3, Invariance, PTL DEF Spec
=============================================================================

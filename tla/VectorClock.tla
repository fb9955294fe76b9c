---------------------------- MODULE VectorClock -----------------------------
(***************************************************************************)
(* The vector clocks of internal/replication (vclock.go) and the choice    *)
(* Resolve makes between two versions (conflict.go).  A clock is a total   *)
(* function: a writer absent from the Go map counts 0, which is how every  *)
(* operation of vclock.go reads it.  uint64 counters cannot wrap within    *)
(* any run of the program and are naturals here.                           *)
(***************************************************************************)
EXTENDS Naturals

CONSTANT Writers                  \* the writer identities (writerID)

Clock == [Writers -> Nat]
Zero == [x \in Writers |-> 0]     \* the nil clock

Increment(c, x) == [c EXCEPT ![x] = @ + 1]

\* aLEb of Compare.
LE(a, b) == \A x \in Writers : a[x] <= b[x]

Compare(a, b) ==
  CASE LE(a, b) /\ LE(b, a) -> "Equal"
    [] LE(a, b) /\ ~LE(b, a) -> "Before"
    [] ~LE(a, b) /\ LE(b, a) -> "After"
    [] OTHER -> "Concurrent"

Merge(a, b) == [x \in Writers |-> IF b[x] > a[x] THEN b[x] ELSE a[x]]

\* One iteration of Resolve: e replaces best when it is causally after it, or
\* is not ordered with it and has the later timestamp.
Pick(best, e) ==
  CASE Compare(e.clock, best.clock) = "After" -> e
    [] Compare(e.clock, best.clock) = "Before" -> best
    [] OTHER -> IF e.ts > best.ts THEN e ELSE best

=============================================================================

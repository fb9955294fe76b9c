-------------------------------- MODULE Ring --------------------------------
(***************************************************************************)
(* The identifier circle of internal/consistent: identifiers modulo 2^Bits *)
(* (the code fixes Bits = 160), the clockwise interval tests every routing *)
(* and stabilization decision is made with, and the offsets finger tables  *)
(* are built from.                                                         *)
(***************************************************************************)
EXTENDS Integers, FiniteSetsExt

CONSTANT Bits                     \* fingerBits: width of an identifier

Size == 2^Bits

ASSUME BitsAssumption ==
  /\ Bits \in Nat \ {0, 1}
  /\ Size \in Nat \ {0}
  /\ \A i \in 0 .. Bits - 1 : 2^i \in Nat

ID == 0 .. Size - 1
Index == 0 .. Bits - 1            \* indices of a finger table

\* Seeded fault: the degenerate interval taken for the whole circle.
IsInIntervalWhole(id, start, end) ==
  IF start < end THEN start < id /\ id < end
                 ELSE (start < id \/ id < end) /\ id # start

\* id \in (start, end), clockwise.  The code answers FALSE when the interval is
\* degenerate (start = end) instead of taking it for the whole circle.
IsInInterval(id, start, end) ==
  /\ start # end
  /\ IF start < end THEN start < id /\ id < end
                    ELSE start < id \/ id < end

\* id \in (start, end], clockwise.
IsInIntervalRightClosed(id, start, end) ==
  id = end \/ IsInInterval(id, start, end)

\* consistent.Add on a power of two: start of the i-th finger of n.
fingerStart(n, i) == (n + 2^i) % Size

\* Its mirror image, also the position updateOthers looks for.
antiFingerStart(n, i) == (n - 2^i) % Size

-----------------------------------------------------------------------------
\* Clockwise distance from a to b: the reference the interval tests are judged
\* by.  No code computes it.
Dist(a, b) == IF a <= b THEN b - a ELSE b - a + Size

=============================================================================

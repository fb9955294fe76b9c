--------------------------- MODULE MCAntiEntropy ---------------------------
(***************************************************************************)
(* Two nodes and three keys, so that the Merkle trees have an odd level;   *)
(* one of the values is empty.                                             *)
(***************************************************************************)
EXTENDS AntiEntropy

CONSTANTS
  a, b,
  Deletable,                      \* keys that DeleteKey is called with
  MaxFaults                       \* bound on deletes, crashes and lost RPCs together

Keys == [w \in Write |-> <<1, 2, 3, 3>>[w]]
Values == [w \in Write |-> <<1, 2, Empty, 4>>[w]]
Places == [w \in Write |-> <<{b}, {a, b}, {a, b}, {b}>>[w]]

Faults == deletes + fails + Cardinality(Node \ alive)

BoundedNext == Next /\ Faults' <= MaxFaults /\ deleting'.key \in Deletable \cup {0}

BoundedSpec == Init /\ [][BoundedNext]_vars /\ Fairness
=============================================================================
